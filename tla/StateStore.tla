----------------------------- MODULE StateStore -----------------------------
(***************************************************************************)
(* The private state of the platform on disk: the database, the directory  *)
(* of secret value files, and the state backups made of both.              *)
(*                                                                         *)
(* Operations on secrets, backups and restores run under the maintenance   *)
(* lock of storage/database.py, so there is one of them at a time (op) and *)
(* nothing else uses the database meanwhile.  They are still several steps *)
(* on files, any of which may fail and between any of which the process    *)
(* may stop.  The deletion of a backup takes only the lock of the backup   *)
(* store of the API; the scheduler has a store, and a lock, of its own.    *)
(*                                                                         *)
(* Value files are named after the secret and the version of its row.      *)
(* Backup names sort by the time they were made; here they are numbers.    *)
(***************************************************************************)
EXTENDS Naturals, FiniteSets

CONSTANTS
    Secrets, Values,  \* identifiers of secret records, and their values
    Sessions,         \* identifiers of browser sessions
    Periods,          \* keys of the table backup_schedule_runs
    Retention,        \* backups a store keeps
    MaxVersion,       \* bound: rotations of a secret
    MaxBackups,       \* bound: backups made in a behaviour
    CrashLimit,       \* bound: restarts of the process
    Missing, Torn,    \* no value file; one whose writing was cut off
    NoRow, NoBackup, NoDb, NoDir, Nothing, Free

VARIABLES
    db,          \* nowlert.db
    files,       \* the secret directory
    backups,     \* the backup directory
    issued,      \* how many backups were begun
    op,          \* the operation that holds the maintenance lock
    deleting,    \* the backup StateBackupStore.delete is removing
    made,        \* secrets, and sessions, whose identifier has been used
    revoked,     \* history variable: sessions that were ended
    interrupted, \* history variable: secrets an operation on was cut off
    broken,      \* history variable: the swap of a restore was cut off
    crashesLeft

storeVars == <<db, files, backups, issued, op, deleting, made, revoked,
               interrupted, broken, crashesLeft>>

-----------------------------------------------------------------------------

Versions == 1..MaxVersion

SecretRow == [version : Versions, value : Values]

Db == [secrets : [Secrets -> SecretRow \cup {NoRow}],
       runs : [Periods -> {"none", "open", "success", "failed"}],
       sessions : SUBSET Sessions]

Files == [Secrets \X Versions -> Values \cup {Missing, Torn}]

\* A backup directory; it is not whole once its removal has begun.
Backup == [db : Db, files : Files, whole : BOOLEAN]

BackupIds == 1..MaxBackups

Stores == {"api", "scheduler"}

\* new and old: the versions of the files to write and to remove; 0 for none.
SecretOp ==
    [kind : {"secret"}, step : {"write", "commit", "clean", "undo"},
     secret : Secrets, value : Values \cup {Nothing},
     new : 0..MaxVersion, old : 0..MaxVersion]

\* create(), alone or as the first part of restore().
BackupOp ==
    [kind : {"backup"}, step : {"snapshot", "copy", "publish", "trim"},
     id : BackupIds, store : Stores, restoring : BackupIds \cup {Nothing},
     db : Db \cup {Nothing}, files : Files \cup {Nothing},
     excess : SUBSET BackupIds]

\* The rest of restore(): what is installed, and what was moved aside.
RestoreOp ==
    [kind : {"restore"},
     step : {"moveDb", "moveFiles", "installDb", "installFiles", "sessions"},
     source : BackupIds, oldDb : Db \cup {Nothing}, oldFiles : Files \cup {Nothing}]

ASSUME StoreAssumption ==
    /\ MaxVersion \in Nat \ {0}
    /\ MaxBackups \in Nat
    /\ CrashLimit \in Nat
    /\ Retention \in 1..100
    /\ Missing # Torn
    /\ {Missing, Torn, Nothing} \cap Values = {}
    /\ NoRow \notin SecretRow
    /\ NoBackup \notin Backup
    /\ {NoDb, Nothing} \cap Db = {}
    /\ {NoDir, Nothing} \cap Files = {}
    /\ Nothing \notin BackupIds
    /\ Free \notin SecretOp \cup BackupOp \cup RestoreOp

HasRow(d, s) == d.secrets[s] # NoRow

\* Every secret of a database resolves: SecretStore._resolve finds the file of
\* the row, with the digest of the row.
Readable(d, f) ==
    \A s \in Secrets : HasRow(d, s) => f[<<s, d.secrets[s].version>>] = d.secrets[s].value

Busy(kind) == op # Free /\ op.kind = kind

Doing(kind, step) == Busy(kind) /\ op.step = step

Restoring == Busy("restore")

Exists(b) == backups[b] # NoBackup

\* Mutant: only the backup being made is kept from the trimming.
ProtectedNew(o) == {o.id}

\* The backups _trim must not remove.
Protected(o) == {o.id} \cup (IF o.restoring = Nothing THEN {} ELSE {o.restoring})

Allowed(p) == IF Retention > Cardinality(p) THEN Retention - Cardinality(p) ELSE 0

\* What _trim removes: all but the newest of the backups it may remove.
Excess(p) ==
    LET candidates == {b \in BackupIds : Exists(b)} \ p
    IN  {b \in candidates : Cardinality({c \in candidates : c > b}) >= Allowed(p)}

\* The lock of the backup store of the API is held.
ApiBusy ==
    \/ deleting # Nothing
    \/ Restoring
    \/ Busy("backup") /\ op.store = "api"

-----------------------------------------------------------------------------

EmptyDb == [secrets |-> [s \in Secrets |-> NoRow],
            runs |-> [p \in Periods |-> "none"],
            sessions |-> {}]

EmptyFiles == [x \in Secrets \X Versions |-> Missing]

StoreInit ==
    /\ db = EmptyDb
    /\ files = EmptyFiles
    /\ backups = [b \in BackupIds |-> NoBackup]
    /\ issued = 0
    /\ op = Free
    /\ deleting = Nothing
    /\ made = {}
    /\ revoked = {}
    /\ interrupted = {}
    /\ broken = FALSE
    /\ crashesLeft = CrashLimit

\* What operations on secrets leave alone.
NotSecrets == <<backups, issued, deleting, revoked, interrupted, broken, crashesLeft>>

\* SecretStore.create makes a new identifier, and so a name no file has.
CreateSecret(s, value) ==
    /\ op = Free
    /\ s \notin made
    /\ made' = made \cup {s}
    /\ op' = [kind |-> "secret", step |-> "write", secret |-> s, value |-> value,
              new |-> 1, old |-> 0]
    /\ UNCHANGED <<db, files, NotSecrets>>

RotateSecret(s, value) ==
    /\ op = Free
    /\ HasRow(db, s)
    /\ db.secrets[s].version < MaxVersion
    /\ op' = [kind |-> "secret", step |-> "write", secret |-> s, value |-> value,
              new |-> db.secrets[s].version + 1, old |-> db.secrets[s].version]
    /\ UNCHANGED <<db, files, made, NotSecrets>>

DeleteSecret(s) ==
    /\ op = Free
    /\ HasRow(db, s)
    /\ op' = [kind |-> "secret", step |-> "commit", secret |-> s,
              value |-> Nothing, new |-> 0, old |-> db.secrets[s].version]
    /\ UNCHANGED <<db, files, made, NotSecrets>>

\* Mutant: an existing file is written over (no O_EXCL), and the file of the
\* previous version is removed at once.
WriteFileInPlace ==
    /\ Doing("secret", "write")
    /\ files' = [files EXCEPT ![<<op.secret, op.new>>] = op.value,
                              ![<<op.secret, IF op.old = 0 THEN op.new ELSE op.old>>] =
                                  IF op.old = 0 THEN op.value ELSE Missing]
    /\ op' = [op EXCEPT !.step = "commit"]
    /\ UNCHANGED <<db, made, NotSecrets>>

\* _write_new: O_EXCL refuses a name that exists, which ends the operation.
WriteFile ==
    /\ Doing("secret", "write")
    /\ IF files[<<op.secret, op.new>>] = Missing
       THEN /\ files' = [files EXCEPT ![<<op.secret, op.new>>] = op.value]
            /\ op' = [op EXCEPT !.step = "commit"]
       ELSE op' = Free /\ UNCHANGED files
    /\ UNCHANGED <<db, made, NotSecrets>>

\* An error of the file system: what was written is unlinked.
WriteFails ==
    /\ Doing("secret", "write")
    /\ op' = Free
    /\ UNCHANGED <<db, files, made, NotSecrets>>

\* The transaction, and then the file of the previous version.
CommitSecret ==
    /\ Doing("secret", "commit")
    /\ db' = [db EXCEPT !.secrets[op.secret] =
                  IF op.new = 0 THEN NoRow
                  ELSE [version |-> op.new, value |-> op.value]]
    /\ op' = IF op.old = 0 THEN Free ELSE [op EXCEPT !.step = "clean"]
    /\ UNCHANGED <<files, made, NotSecrets>>

\* Mutant: the file of a transaction that failed stays.
CommitFailsLeavingFile ==
    /\ Doing("secret", "commit")
    /\ op' = Free
    /\ UNCHANGED <<db, files, made, NotSecrets>>

\* The transaction is refused: an owner that is gone, a name that is taken, a
\* secret that a destination refers to.
CommitFails ==
    /\ Doing("secret", "commit")
    /\ op' = IF op.new = 0 THEN Free ELSE [op EXCEPT !.step = "undo"]
    /\ UNCHANGED <<db, files, made, NotSecrets>>

\* Mutant: it is the file just written that goes.
RemoveNewestFile ==
    /\ Busy("secret")
    /\ op.step \in {"clean", "undo"}
    /\ files' = [files EXCEPT ![<<op.secret, IF op.new = 0 THEN op.old ELSE op.new>>] =
                     Missing]
    /\ op' = Free
    /\ UNCHANGED <<db, made, NotSecrets>>

RemoveFile ==
    /\ Busy("secret")
    /\ op.step \in {"clean", "undo"}
    /\ files' = [files EXCEPT ![<<op.secret, IF op.step = "clean" THEN op.old
                                             ELSE op.new>>] = Missing]
    /\ op' = Free
    /\ UNCHANGED <<db, made, NotSecrets>>

SecretStep ==
    \/ \E s \in Secrets :
           \/ \E v \in Values : CreateSecret(s, v) \/ RotateSecret(s, v)
           \/ DeleteSecret(s)
    \/ WriteFile \/ WriteFails \/ CommitSecret \/ CommitFails \/ RemoveFile

-----------------------------------------------------------------------------

Login(i) ==
    /\ op = Free
    /\ i \notin made
    /\ made' = made \cup {i}
    /\ db' = [db EXCEPT !.sessions = @ \cup {i}]
    /\ UNCHANGED <<files, op, NotSecrets>>

Logout(i) ==
    /\ op = Free
    /\ i \in db.sessions
    /\ db' = [db EXCEPT !.sessions = @ \ {i}]
    /\ revoked' = revoked \cup {i}
    /\ UNCHANGED <<files, backups, issued, op, deleting, made, interrupted, broken,
                   crashesLeft>>

-----------------------------------------------------------------------------

\* What steps of create() and restore() leave alone, unless they say otherwise.
NotBackups == <<made, interrupted, crashesLeft>>

\* Begins create(), or restore() with the backup it was given.
BeginBackup(store, restoring) ==
    /\ op = Free
    /\ store = "api" => ~ApiBusy
    /\ issued < MaxBackups
    /\ restoring # Nothing =>
           store = "api" /\ Exists(restoring) /\ backups[restoring].whole
    /\ issued' = issued + 1
    /\ op' = [kind |-> "backup", step |-> "snapshot", id |-> issued + 1,
              store |-> store, restoring |-> restoring,
              db |-> Nothing, files |-> Nothing, excess |-> {}]
    /\ UNCHANGED <<db, files, backups, deleting, revoked, broken, NotBackups>>

SnapshotDatabase ==
    /\ Doing("backup", "snapshot")
    /\ op' = [op EXCEPT !.step = "copy", !.db = db]
    /\ UNCHANGED <<db, files, backups, issued, deleting, revoked, broken, NotBackups>>

CopySecrets ==
    /\ Doing("backup", "copy")
    /\ op' = [op EXCEPT !.step = "publish", !.files = files]
    /\ UNCHANGED <<db, files, backups, issued, deleting, revoked, broken, NotBackups>>

\* An error before the backup has its name: nothing of it remains.
BackupFails ==
    /\ Busy("backup")
    /\ op.step # "trim"
    /\ op' = Free
    /\ UNCHANGED <<db, files, backups, issued, deleting, revoked, broken, NotBackups>>

\* os.replace gives the backup its name; _trim decides what to remove.
PublishBackup ==
    /\ Doing("backup", "publish")
    /\ backups' = [backups EXCEPT ![op.id] =
                      [db |-> op.db, files |-> op.files, whole |-> TRUE]]
    /\ op' = [op EXCEPT !.step = "trim", !.excess = Excess(Protected(op))]
    /\ UNCHANGED <<db, files, issued, deleting, revoked, broken, NotBackups>>

\* The files of a directory go one by one, and then the directory.
Dwindle(b) ==
    backups' = [backups EXCEPT ![b] =
                   IF @.whole THEN [@ EXCEPT !.whole = FALSE] ELSE NoBackup]

TrimBackup(b) ==
    /\ Doing("backup", "trim")
    /\ b \in op.excess
    /\ Exists(b)
    /\ Dwindle(b)
    /\ op' = IF backups[b].whole THEN op ELSE [op EXCEPT !.excess = @ \ {b}]
    /\ UNCHANGED <<db, files, issued, deleting, revoked, broken, NotBackups>>

\* A directory _trim has listed is gone: rmtree raises, and create() with it.
TrimFails(b) ==
    /\ Doing("backup", "trim")
    /\ b \in op.excess
    /\ ~Exists(b)
    /\ op' = Free
    /\ UNCHANGED <<db, files, backups, issued, deleting, revoked, broken, NotBackups>>

\* create() is done; restore() goes on.
EndBackup ==
    /\ Doing("backup", "trim")
    /\ op.excess = {}
    /\ op' = IF op.restoring = Nothing THEN Free
             ELSE [kind |-> "restore", step |-> "moveDb", source |-> op.restoring,
                   oldDb |-> Nothing, oldFiles |-> Nothing]
    /\ UNCHANGED <<db, files, backups, issued, deleting, revoked, broken, NotBackups>>

\* The swap: four replacements, and the sessions of the installed database.
MoveDatabase ==
    /\ Doing("restore", "moveDb")
    /\ db' = NoDb
    /\ op' = [op EXCEPT !.step = "moveFiles", !.oldDb = db]
    /\ UNCHANGED <<files, backups, issued, deleting, revoked, broken, NotBackups>>

MoveSecrets ==
    /\ Doing("restore", "moveFiles")
    /\ files' = NoDir
    /\ op' = [op EXCEPT !.step = "installDb", !.oldFiles = files]
    /\ UNCHANGED <<db, backups, issued, deleting, revoked, broken, NotBackups>>

InstallDatabase ==
    /\ Doing("restore", "installDb")
    /\ db' = backups[op.source].db
    /\ op' = [op EXCEPT !.step = "installFiles"]
    /\ UNCHANGED <<files, backups, issued, deleting, revoked, broken, NotBackups>>

InstallSecrets ==
    /\ Doing("restore", "installFiles")
    /\ files' = backups[op.source].files
    /\ op' = [op EXCEPT !.step = "sessions"]
    /\ UNCHANGED <<db, backups, issued, deleting, revoked, broken, NotBackups>>

\* Mutant: the sessions of the restored database stay.
KeepSessions ==
    /\ Doing("restore", "sessions")
    /\ revoked' = revoked \cup db.sessions \cup op.oldDb.sessions
    /\ op' = Free
    /\ UNCHANGED <<db, files, backups, issued, deleting, broken, NotBackups>>

ClearSessions ==
    /\ Doing("restore", "sessions")
    /\ db' = [db EXCEPT !.sessions = {}]
    /\ revoked' = revoked \cup db.sessions \cup op.oldDb.sessions
    /\ op' = Free
    /\ UNCHANGED <<files, backups, issued, deleting, broken, NotBackups>>

\* Mutant: only the database is put back.
RestoreFailsHalfway ==
    /\ Restoring
    /\ db' = IF op.oldDb = Nothing THEN db ELSE op.oldDb
    /\ op' = Free
    /\ UNCHANGED <<files, backups, issued, deleting, revoked, broken, NotBackups>>

\* An error at any of these steps: what was installed is removed and what was
\* moved aside is put back.
RestoreFails ==
    /\ Restoring
    /\ db' = IF op.oldDb = Nothing THEN db ELSE op.oldDb
    /\ files' = IF op.oldFiles = Nothing THEN files ELSE op.oldFiles
    /\ op' = Free
    /\ UNCHANGED <<backups, issued, deleting, revoked, broken, NotBackups>>

\* StateBackupStore.delete validates the backup and removes it.
BeginDeleteBackup(b) ==
    /\ ~ApiBusy
    /\ Exists(b)
    /\ backups[b].whole
    /\ deleting' = b
    /\ UNCHANGED <<db, files, backups, issued, op, revoked, broken, NotBackups>>

DeleteBackup ==
    /\ deleting # Nothing
    /\ IF Exists(deleting) THEN Dwindle(deleting) ELSE UNCHANGED backups
    /\ deleting' = IF Exists(deleting) /\ backups[deleting].whole THEN deleting
                   ELSE Nothing
    /\ UNCHANGED <<db, files, issued, op, revoked, broken, NotBackups>>

BackupStep ==
    \/ SnapshotDatabase \/ CopySecrets \/ BackupFails \/ PublishBackup
    \/ \E b \in BackupIds : TrimBackup(b) \/ TrimFails(b)
    \/ EndBackup
    \/ MoveDatabase \/ MoveSecrets \/ InstallDatabase \/ InstallSecrets
    \/ ClearSessions \/ RestoreFails
    \/ \E b \in BackupIds : BeginDeleteBackup(b)
    \/ DeleteBackup

-----------------------------------------------------------------------------

Swapping == Restoring /\ op.step # "moveDb"

\* The process stops.  When it starts again a database or a secret directory
\* that is not there is made anew.
Crash ==
    /\ crashesLeft > 0
    /\ crashesLeft' = crashesLeft - 1
    /\ op' = Free
    /\ deleting' = Nothing
    /\ db' = IF db = NoDb THEN EmptyDb ELSE db
    /\ \/ files' = IF files = NoDir THEN EmptyFiles ELSE files
       \/ /\ Doing("secret", "write")
          /\ files[<<op.secret, op.new>>] = Missing
          /\ files' = [files EXCEPT ![<<op.secret, op.new>>] = Torn]
    /\ interrupted' =
           IF Busy("secret") THEN interrupted \cup {op.secret}
           ELSE interrupted
    /\ broken' = (broken \/ Swapping)
    /\ UNCHANGED <<backups, issued, made, revoked>>

StoreNext ==
    \/ SecretStep
    \/ \E i \in Sessions : Login(i) \/ Logout(i)
    \/ \E store \in Stores, b \in BackupIds \cup {Nothing} : BeginBackup(store, b)
    \/ BackupStep
    \/ (op # Free \/ deleting # Nothing) /\ Crash

StoreSpec == StoreInit /\ [][StoreNext]_storeVars

-----------------------------------------------------------------------------

StoreTypeOK ==
    /\ db \in Db \cup {NoDb}
    /\ files \in Files \cup {NoDir}
    /\ backups \in [BackupIds -> Backup \cup {NoBackup}]
    /\ issued \in 0..MaxBackups
    /\ op \in SecretOp \cup BackupOp \cup RestoreOp \cup {Free}
    /\ deleting \in BackupIds \cup {Nothing}
    /\ made \subseteq Secrets \cup Sessions
    /\ revoked \subseteq Sessions
    /\ interrupted \subseteq Secrets
    /\ broken \in BOOLEAN
    /\ crashesLeft \in 0..CrashLimit

\* Whatever operation on secrets is under way, has failed or was cut off by a
\* stop of the process, every secret record has its value file (_create,
\* _rotate and _delete write the file, commit and remove, in that order).  The
\* exception is the swap of a restore, while it runs or after a stop in it.
SecretsReadable ==
    ~broken /\ ~Restoring => Readable(db, files)

\* Every backup is a "consistent SQLite + owner-scoped secret snapshot"
\* (docs/platform-state.md), however rotations and crashes fall around it.
SnapshotsConsistent ==
    ~broken =>
        \A b \in BackupIds :
            Exists(b) /\ backups[b].whole => Readable(backups[b].db, backups[b].files)

\* The files of the current versions are the only ones, but for the secrets in cut.
Tidy(d, f, cut) ==
    \A s \in Secrets \ cut, v \in Versions :
        f[<<s, v>>] # Missing => HasRow(d, s) /\ d.secrets[s].version = v

\* Unless an operation on a secret was cut off by a stop of the process, the
\* secret directory holds the file of its current version and no other: values
\* that were replaced are gone, and the next rotation finds its name free.
OnlyCurrentFiles ==
    ~broken /\ op = Free => Tidy(db, files, interrupted)

\* What restore() is about to replace, and what it replaces it with.
Before == [db |-> IF op.oldDb = Nothing THEN db ELSE op.oldDb,
           files |-> IF op.oldFiles = Nothing THEN files ELSE op.oldFiles]

\* As long as restore() may replace the state, a whole backup holds that state,
\* and the source is whole: _trim has removed neither, even at the limit.
SafetyCopyKept ==
    Restoring =>
        /\ Exists(op.source)
        /\ backups[op.source].whole
        /\ \E b \in BackupIds : /\ Exists(b)
                                /\ backups[b].whole
                                /\ backups[b].db = Before.db
                                /\ backups[b].files = Before.files

\* A restore that does not fail by a stop of the process either installs both
\* parts of the backup or leaves both parts as they were.
RestoreAllOrNothing ==
    [][ Restoring /\ op' = Free /\ crashesLeft' = crashesLeft =>
            \/ db' = Before.db /\ files' = Before.files
            \/ /\ db' = [backups[op.source].db EXCEPT !.sessions = {}]
               /\ files' = backups[op.source].files ]_storeVars

\* A session that was ended, by a logout or by a restore, stays ended: no
\* snapshot brings it back.
RevokedStayRevoked ==
    ~broken /\ ~Restoring => db.sessions \cap revoked = {}

-----------------------------------------------------------------------------

\* The inductive invariant.

\* The steps of an operation on a secret find the fields they use.
SecretShape ==
    /\ op.step \in {"write", "undo"} => op.new # 0
    /\ op.step = "clean" => op.old # 0
    /\ op.step = "commit" => op.new # 0 \/ op.old # 0
    /\ op.new # 0 => op.value \in Values /\ op.old # op.new

\* What was copied is what is there, and the backup to restore is out of reach
\* of the trimming and of deletions.
BackupShape ==
    /\ op.step \in {"copy", "publish"} => op.db = db
    /\ op.step = "publish" => op.files = files
    /\ op.step = "trim" => op.excess \cap Protected(op) = {}
    /\ op.id <= issued
    /\ op.restoring # Nothing =>
           /\ deleting = Nothing
           /\ op.store = "api"
           /\ Exists(op.restoring)
           /\ backups[op.restoring].whole
           /\ op.restoring # op.id
           /\ op.step = "trim" =>
                  backups[op.id] = [db |-> db, files |-> files, whole |-> TRUE]

\* What has been moved aside and what has been installed, at each step.
RestoreShape ==
    /\ deleting = Nothing
    /\ op.step = "moveDb" => op.oldDb = Nothing /\ db \in Db
    /\ op.step # "moveDb" => op.oldDb \in Db
    /\ op.step \in {"moveDb", "moveFiles"} => op.oldFiles = Nothing /\ files \in Files
    /\ op.step \notin {"moveDb", "moveFiles"} => op.oldFiles \in Files
    /\ op.step \in {"installFiles", "sessions"} => db = backups[op.source].db
    /\ op.step = "sessions" => files = backups[op.source].files

StoreShape ==
    /\ ~Restoring => db \in Db /\ files \in Files
    /\ Busy("secret") => SecretShape
    /\ Busy("backup") => BackupShape
    /\ Restoring => RestoreShape
    /\ \A b \in BackupIds : Exists(b) => b <= issued

\* A database knows only identifiers that have been made.
Known(d, ids) ==
    /\ \A s \in Secrets : HasRow(d, s) => s \in ids
    /\ d.sessions \subseteq ids

AllKnown ==
    /\ db # NoDb => Known(db, made)
    /\ \A b \in BackupIds : Exists(b) => Known(backups[b].db, made)
    /\ Busy("secret") => op.secret \in made
    /\ Restoring /\ op.oldDb # Nothing => Known(op.oldDb, made)
    /\ revoked \subseteq made

Sound(d, f, cut) == Readable(d, f) /\ Tidy(d, f, cut)

\* The file that an operation under way has written, or has still to remove.
Loose(v) ==
    \/ op.step \in {"commit", "undo"} /\ op.new = v
    \/ op.step = "clean" /\ op.old = v

SecretSound ==
    LET s == op.secret
    IN  /\ op.step \in {"write", "commit"} /\ HasRow(db, s) =>
               db.secrets[s].version = op.old
        /\ op.step = "commit" /\ op.new # 0 => files[<<s, op.new>>] = op.value
        /\ HasRow(db, s) => ~(op.step # "commit" /\ Loose(db.secrets[s].version))
        /\ Readable(db, files)
        /\ \A t \in Secrets \ interrupted, v \in Versions :
               /\ files[<<t, v>>] # Missing
               /\ ~(t = s /\ Loose(v))
               => HasRow(db, t) /\ db.secrets[t].version = v

\* As long as no swap was cut off, the state is sound, and what a step of an
\* operation may go back to or install is.
StateSound ==
    ~broken =>
        /\ op = Free \/ Busy("backup") => Sound(db, files, interrupted)
        /\ Busy("secret") => SecretSound
        /\ Restoring => Sound(Before.db, Before.files, interrupted)
        /\ \A b \in BackupIds :
               Exists(b) /\ backups[b].whole =>
                   Sound(backups[b].db, backups[b].files, interrupted)

SessionsSound ==
    ~broken =>
        /\ ~Restoring => db.sessions \cap revoked = {}
        /\ Restoring => Before.db.sessions \cap revoked = {}

StoreInv ==
    /\ StoreTypeOK
    /\ StoreShape
    /\ SafetyCopyKept
    /\ AllKnown
    /\ StateSound
    /\ SessionsSound

=============================================================================
