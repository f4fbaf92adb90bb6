-------------------------- MODULE BackupRunsProofs --------------------------
(***************************************************************************)
(* First the store: secrets and state backups keep rows, value files and   *)
(* snapshots together, for any number of secrets, sessions, backups and    *)
(* restarts, and any retention.                                            *)
(*                                                                         *)
(* Then the backup scheduler gives a period one run, closes the rows it    *)
(* opens and publishes whole copies, for any number of periods, of         *)
(* requests, of backups and of restarts.  Its steps are steps of the       *)
(* store, for which StoreInv is shown first, or changes of one row.        *)
(***************************************************************************)
EXTENDS BackupRuns, TLAPS

-----------------------------------------------------------------------------
(* The store.                                                              *)

\* The operation that is under way is one of its kind.
LEMMA OpOf ==
    ASSUME StoreTypeOK
    PROVE  /\ Busy("secret") => op \in SecretOp
           /\ Busy("backup") => op \in BackupOp
           /\ Restoring => op \in RestoreOp
           /\ op # Free => Busy("secret") \/ Busy("backup") \/ Restoring
BY DEF StoreTypeOK, Busy, Restoring, SecretOp, BackupOp, RestoreOp

LEMMA KindOf ==
    ASSUME NEW o \in SecretOp \cup BackupOp \cup RestoreOp \cup {Free}, o # Free
    PROVE  /\ o.kind = "secret" => o \in SecretOp
           /\ o.kind = "backup" => o \in BackupOp
           /\ o.kind = "restore" => o \in RestoreOp
BY DEF SecretOp, BackupOp, RestoreOp

\* No two operations are under way.
LEMMA OneOp ==
    /\ ~(Busy("secret") /\ Busy("backup"))
    /\ ~(Busy("secret") /\ Restoring)
    /\ ~(Busy("backup") /\ Restoring)
BY DEF Busy, Restoring

\* The special values are told apart from those they stand beside.
LEMMA Special ==
    /\ NoDb \notin Db /\ Nothing \notin Db
    /\ NoDir \notin Files /\ Nothing \notin Files
    /\ NoRow \notin SecretRow
    /\ NoBackup \notin Backup
    /\ Nothing \notin BackupIds
    /\ Missing # Torn /\ Missing \notin Values
    /\ Free \notin SecretOp \cup BackupOp \cup RestoreOp
BY StoreAssumption

\* The process starts with well-formed, empty state.
LEMMA EmptyTyped == EmptyDb \in Db /\ EmptyFiles \in Files
BY DEF EmptyDb, Db, EmptyFiles, Files

\* A change of one row, or of the sessions, leaves a database a database.
LEMMA DbChange ==
    ASSUME NEW d \in Db, NEW s \in Secrets, NEW row \in SecretRow \cup {NoRow},
           NEW S \in SUBSET Sessions
    PROVE  /\ [d EXCEPT !.secrets[s] = row] \in Db
           /\ [d EXCEPT !.sessions = S] \in Db
BY DEF Db

LEMMA FilesChange ==
    ASSUME NEW f \in Files, NEW s \in Secrets, NEW v \in Versions,
           NEW x \in Values \cup {Missing, Torn}
    PROVE  [f EXCEPT ![<<s, v>>] = x] \in Files
BY DEF Files

-----------------------------------------------------------------------------

\* Type correctness, with the shape of the operations.

LEMMA SecretTypes ==
    ASSUME StoreTypeOK, StoreShape, SecretStep
    PROVE  StoreTypeOK' /\ db' \in Db /\ files' \in Files
<1> USE DEF StoreTypeOK
<1>0. Busy("secret") => db \in Db /\ files \in Files /\ op \in SecretOp
    BY OpOf, OneOp DEF StoreShape
<1>f. op = Free => db \in Db /\ files \in Files
    BY DEF StoreShape, Restoring, Busy
<1>1. ASSUME NEW s \in Secrets, NEW v \in Values, CreateSecret(s, v)
      PROVE  StoreTypeOK' /\ db' \in Db /\ files' \in Files
    <2>1. op' \in SecretOp
        BY <1>1, StoreAssumption DEF CreateSecret, SecretOp
    <2> QED BY <1>1, <1>f, <2>1 DEF CreateSecret, NotSecrets
<1>2. ASSUME NEW s \in Secrets, NEW v \in Values, RotateSecret(s, v)
      PROVE  StoreTypeOK' /\ db' \in Db /\ files' \in Files
    <2>1. db.secrets[s] \in SecretRow
        BY <1>2, <1>f DEF RotateSecret, HasRow, Db
    <2>2. op' \in SecretOp
        BY <1>2, <2>1, StoreAssumption DEF RotateSecret, SecretOp, SecretRow, Versions
    <2> QED BY <1>2, <1>f, <2>2 DEF RotateSecret, NotSecrets
<1>3. ASSUME NEW s \in Secrets, DeleteSecret(s)
      PROVE  StoreTypeOK' /\ db' \in Db /\ files' \in Files
    <2>1. db.secrets[s] \in SecretRow
        BY <1>3, <1>f DEF DeleteSecret, HasRow, Db
    <2>2. op' \in SecretOp
        BY <1>3, <2>1, StoreAssumption DEF DeleteSecret, SecretOp, SecretRow, Versions
    <2> QED BY <1>3, <1>f, <2>2 DEF DeleteSecret, NotSecrets
<1>4. CASE WriteFile
    <2>1. /\ op \in SecretOp /\ files \in Files
          /\ op.new \in Versions /\ op.value \in Values
        BY <1>4, <1>0 DEF WriteFile, Doing, StoreShape, SecretShape, SecretOp, Versions
    <2>2. op' \in SecretOp \cup {Free}
        BY <1>4, <2>1 DEF WriteFile, SecretOp
    <2>3. files' \in Files
        BY <1>4, <2>1, FilesChange DEF WriteFile, SecretOp
    <2> QED BY <1>4, <1>0, <2>2, <2>3 DEF WriteFile, NotSecrets, Doing
<1>5. CASE WriteFails
    BY <1>5, <1>0 DEF WriteFails, NotSecrets, Doing
<1>6. CASE CommitSecret
    <2>1. op \in SecretOp /\ db \in Db
        BY <1>6, <1>0 DEF CommitSecret, Doing
    <2>2. op' \in SecretOp \cup {Free}
        BY <1>6, <2>1 DEF CommitSecret, SecretOp
    <2>3. (IF op.new = 0 THEN NoRow ELSE [version |-> op.new, value |-> op.value])
              \in SecretRow \cup {NoRow}
        BY <1>6, <2>1
        DEF CommitSecret, Doing, StoreShape, SecretShape, SecretOp, SecretRow, Versions
    <2>4. db' \in Db
        BY <1>6, <2>1, <2>3, DbChange DEF CommitSecret, SecretOp
    <2> QED BY <1>6, <1>0, <2>2, <2>4 DEF CommitSecret, NotSecrets, Doing
<1>7. CASE CommitFails
    <2>1. op' \in SecretOp \cup {Free}
        BY <1>7, <1>0 DEF CommitFails, Doing, SecretOp
    <2> QED BY <1>7, <1>0, <2>1 DEF CommitFails, NotSecrets, Doing
<1>8. CASE RemoveFile
    <2>1. op \in SecretOp /\ files \in Files
        BY <1>8, <1>0 DEF RemoveFile
    <2>2. (IF op.step = "clean" THEN op.old ELSE op.new) \in Versions
        BY <1>8, <2>1 DEF RemoveFile, StoreShape, SecretShape, SecretOp, Versions
    <2>3. files' \in Files
        BY <1>8, <2>1, <2>2, FilesChange DEF RemoveFile, SecretOp
    <2> QED BY <1>8, <1>0, <2>3 DEF RemoveFile, NotSecrets, Doing
<1> QED
    BY <1>1, <1>2, <1>3, <1>4, <1>5, <1>6, <1>7, <1>8 DEF SecretStep

LEMMA SessionTypes ==
    ASSUME StoreTypeOK, StoreShape, NEW i \in Sessions, Login(i) \/ Logout(i)
    PROVE  StoreTypeOK'
<1> USE DEF StoreTypeOK
<1>1. db \in Db
    BY DEF Login, Logout, StoreShape, Restoring, Busy
<1>2. db.sessions \subseteq Sessions
    BY <1>1 DEF Db
<1>3. [db EXCEPT !.sessions = @ \cup {i}] \in Db /\ [db EXCEPT !.sessions = @ \ {i}] \in Db
    BY <1>1, <1>2 DEF Db
<1>4. CASE Login(i)
    BY <1>4, <1>3 DEF Login, NotSecrets
<1>5. CASE Logout(i)
    BY <1>5, <1>3 DEF Logout
<1> QED BY <1>4, <1>5

LEMMA BackupTypes ==
    ASSUME StoreTypeOK, StoreShape, SafetyCopyKept,
           \/ \E store \in Stores, b \in BackupIds \cup {Nothing} : BeginBackup(store, b)
           \/ BackupStep
    PROVE  StoreTypeOK'
<1> USE DEF StoreTypeOK
<1>b. Busy("backup") => db \in Db /\ files \in Files /\ op \in BackupOp
    BY OpOf, OneOp DEF StoreShape
<1>r. Restoring => op \in RestoreOp
    BY OpOf
<1>1. ASSUME NEW store \in Stores, NEW b \in BackupIds \cup {Nothing},
             BeginBackup(store, b)
      PROVE  StoreTypeOK'
    <2>1. issued + 1 \in BackupIds /\ issued' \in 0..MaxBackups
        BY <1>1, StoreAssumption DEF BeginBackup, BackupIds
    <2>2. op' \in BackupOp
        BY <1>1, <2>1 DEF BeginBackup, BackupOp
    <2> QED BY <1>1, <2>1, <2>2 DEF BeginBackup, NotBackups
<1>2. CASE SnapshotDatabase
    <2>1. op' \in BackupOp
        BY <1>2, <1>b DEF SnapshotDatabase, Doing, BackupOp
    <2> QED BY <1>2, <2>1 DEF SnapshotDatabase, NotBackups
<1>3. CASE CopySecrets
    <2>1. op' \in BackupOp
        BY <1>3, <1>b DEF CopySecrets, Doing, BackupOp
    <2> QED BY <1>3, <2>1 DEF CopySecrets, NotBackups
<1>4. CASE BackupFails
    BY <1>4 DEF BackupFails, NotBackups
<1>5. CASE PublishBackup
    <2>1. op \in BackupOp /\ op.db \in Db /\ op.files \in Files
        BY <1>5, <1>b DEF PublishBackup, Doing, StoreShape, BackupShape
    <2>2. Excess(Protected(op)) \in SUBSET BackupIds
        BY DEF Excess
    <2>3. op' \in BackupOp
        BY <1>5, <2>1, <2>2 DEF PublishBackup, BackupOp
    <2>4. [db |-> op.db, files |-> op.files, whole |-> TRUE] \in Backup
        BY <2>1 DEF Backup
    <2> QED BY <1>5, <2>1, <2>3, <2>4 DEF PublishBackup, NotBackups, BackupOp
<1>d. ASSUME NEW b \in BackupIds, Exists(b), Dwindle(b)
      PROVE  backups' \in [BackupIds -> Backup \cup {NoBackup}]
    <2>1. backups[b] \in Backup
        BY <1>d DEF Exists
    <2>2. [backups[b] EXCEPT !.whole = FALSE] \in Backup
        BY <2>1 DEF Backup
    <2> QED BY <1>d, <2>2 DEF Dwindle
<1>6. ASSUME NEW b \in BackupIds, TrimBackup(b)
      PROVE  StoreTypeOK'
    <2>1. op' \in BackupOp
        BY <1>6, <1>b DEF TrimBackup, Doing, BackupOp
    <2> QED BY <1>6, <1>d, <2>1 DEF TrimBackup, NotBackups
<1>7. ASSUME NEW b \in BackupIds, TrimFails(b)
      PROVE  StoreTypeOK'
    BY <1>7 DEF TrimFails, NotBackups
<1>8. CASE EndBackup
    <2>1. op' \in RestoreOp \cup {Free}
        BY <1>8, <1>b DEF EndBackup, Doing, BackupOp, RestoreOp
    <2> QED BY <1>8, <2>1 DEF EndBackup, NotBackups
<1>9. CASE MoveDatabase
    <2>1. op \in RestoreOp /\ db \in Db
        BY <1>9, <1>r DEF MoveDatabase, Doing, Restoring, StoreShape, RestoreShape
    <2>2. op' \in RestoreOp
        BY <1>9, <2>1 DEF MoveDatabase, RestoreOp
    <2> QED BY <1>9, <2>2 DEF MoveDatabase, NotBackups
<1>10. CASE MoveSecrets
    <2>1. op \in RestoreOp /\ files \in Files
        BY <1>10, <1>r DEF MoveSecrets, Doing, Restoring, StoreShape, RestoreShape
    <2>2. op' \in RestoreOp
        BY <1>10, <2>1 DEF MoveSecrets, RestoreOp
    <2> QED BY <1>10, <2>2 DEF MoveSecrets, NotBackups
<1>s. Restoring => /\ backups[op.source].db \in Db
                   /\ backups[op.source].files \in Files
    BY <1>r DEF SafetyCopyKept, Exists, RestoreOp, Backup
<1>11. CASE InstallDatabase
    <2>1. op' \in RestoreOp
        BY <1>11, <1>r DEF InstallDatabase, Doing, Restoring, RestoreOp
    <2> QED BY <1>11, <1>s, <2>1 DEF InstallDatabase, Doing, Restoring, NotBackups
<1>12. CASE InstallSecrets
    <2>1. op' \in RestoreOp
        BY <1>12, <1>r DEF InstallSecrets, Doing, Restoring, RestoreOp
    <2> QED BY <1>12, <1>s, <2>1 DEF InstallSecrets, Doing, Restoring, NotBackups
<1>13. CASE ClearSessions
    <2>1. Restoring /\ op.step = "sessions" /\ op \in RestoreOp
        BY <1>13, <1>r DEF ClearSessions, Doing, Restoring
    <2>2. db \in Db /\ op.oldDb \in Db
        BY <2>1, <1>s DEF StoreShape, RestoreShape
    <2>3. [db EXCEPT !.sessions = {}] \in Db
        BY <2>2 DEF Db
    <2>4. db.sessions \subseteq Sessions /\ op.oldDb.sessions \subseteq Sessions
        BY <2>2 DEF Db
    <2> QED BY <1>13, <2>3, <2>4 DEF ClearSessions, NotBackups
<1>14. CASE RestoreFails
    <2>1. Restoring /\ op \in RestoreOp
        BY <1>14, <1>r DEF RestoreFails
    <2>2. (IF op.oldDb = Nothing THEN db ELSE op.oldDb) \in Db \cup {NoDb}
        BY <2>1 DEF RestoreOp
    <2>3. (IF op.oldFiles = Nothing THEN files ELSE op.oldFiles) \in Files \cup {NoDir}
        BY <2>1 DEF RestoreOp
    <2> QED BY <1>14, <2>2, <2>3 DEF RestoreFails, NotBackups
<1>15. ASSUME NEW b \in BackupIds, BeginDeleteBackup(b)
       PROVE  StoreTypeOK'
    BY <1>15 DEF BeginDeleteBackup, NotBackups
<1>16. CASE DeleteBackup
    <2>1. deleting \in BackupIds
        BY <1>16 DEF DeleteBackup
    <2>2. backups' \in [BackupIds -> Backup \cup {NoBackup}]
        BY <1>16, <1>d, <2>1 DEF DeleteBackup
    <2> QED BY <1>16, <2>2 DEF DeleteBackup, NotBackups
<1> QED
    BY <1>1, <1>2, <1>3, <1>4, <1>5, <1>6, <1>7, <1>8, <1>9, <1>10, <1>11, <1>12,
       <1>13, <1>14, <1>15, <1>16
    DEF BackupStep

LEMMA CrashTypes ==
    ASSUME StoreTypeOK, StoreShape, Crash
    PROVE  StoreTypeOK'
<1> USE DEF StoreTypeOK
<1>1. db' \in Db \cup {NoDb}
    BY EmptyTyped DEF Crash
<1>2. files' \in Files \cup {NoDir}
    <2>1. CASE files' = IF files = NoDir THEN EmptyFiles ELSE files
        BY <2>1, EmptyTyped
    <2>2. CASE /\ Doing("secret", "write")
               /\ files' = [files EXCEPT ![<<op.secret, op.new>>] = Torn]
        <3>1. op \in SecretOp /\ files \in Files /\ op.new \in Versions
            BY <2>2, OpOf, OneOp
            DEF Doing, StoreShape, SecretShape, SecretOp, Versions
        <3> QED BY <2>2, <3>1, FilesChange DEF SecretOp
    <2> QED BY <2>1, <2>2 DEF Crash
<1>3. interrupted' \subseteq Secrets
    BY OpOf DEF Crash, SecretOp
<1>4. crashesLeft' \in 0..CrashLimit
    BY StoreAssumption DEF Crash
<1> QED BY <1>1, <1>2, <1>3, <1>4 DEF Crash

-----------------------------------------------------------------------------

\* The shape of the operations.

LEMMA SecretShapes ==
    ASSUME StoreTypeOK, StoreTypeOK', StoreShape, SecretStep
    PROVE  StoreShape'
<1> USE DEF StoreShape
<1>u. UNCHANGED <<backups, issued>>
    BY DEF SecretStep, CreateSecret, RotateSecret, DeleteSecret, WriteFile, WriteFails,
           CommitSecret, CommitFails, RemoveFile, NotSecrets
<1>0. Busy("secret") => op \in SecretOp
    BY OpOf
<1>k. ~Busy("backup")' /\ ~Restoring'
    BY <1>0
    DEF SecretStep, CreateSecret, RotateSecret, DeleteSecret, WriteFile, WriteFails,
        CommitSecret, CommitFails, RemoveFile, Doing, Busy, Restoring, SecretOp
<1>d. db' \in Db /\ files' \in Files
    BY SecretTypes
<1>1. Busy("secret")' => SecretShape'
    <2>1. ASSUME NEW s \in Secrets, NEW v \in Values, CreateSecret(s, v)
          PROVE  SecretShape'
        BY <2>1 DEF CreateSecret, SecretShape
    <2>2. ASSUME NEW s \in Secrets, NEW v \in Values, RotateSecret(s, v)
          PROVE  SecretShape'
        <3>1. db.secrets[s].version \in Versions
            BY <2>2 DEF RotateSecret, HasRow, Db, SecretRow, Busy, Restoring
        <3> QED BY <2>2, <3>1 DEF RotateSecret, SecretShape, Versions
    <2>3. ASSUME NEW s \in Secrets, DeleteSecret(s)
          PROVE  SecretShape'
        <3>1. db.secrets[s].version \in Versions
            BY <2>3 DEF DeleteSecret, HasRow, Db, SecretRow, Busy, Restoring
        <3> QED BY <2>3, <3>1 DEF DeleteSecret, SecretShape, Versions
    <2>4. CASE WriteFile
        BY <2>4, <1>0 DEF WriteFile, Doing, SecretShape, SecretOp, Busy
    <2>5. CASE WriteFails \/ RemoveFile
        BY <2>5 DEF WriteFails, RemoveFile, Busy
    <2>6. CASE CommitSecret
        BY <2>6, <1>0 DEF CommitSecret, Doing, SecretShape, SecretOp, Busy
    <2>7. CASE CommitFails
        BY <2>7, <1>0 DEF CommitFails, Doing, SecretShape, SecretOp, Busy
    <2> QED BY <2>1, <2>2, <2>3, <2>4, <2>5, <2>6, <2>7 DEF SecretStep
<1> QED BY <1>u, <1>k, <1>d, <1>1 DEF Exists

LEMMA SessionShapes ==
    ASSUME StoreTypeOK, StoreTypeOK', StoreShape, NEW i \in Sessions,
           Login(i) \/ Logout(i)
    PROVE  StoreShape'
<1>1. op = Free /\ op' = Free /\ UNCHANGED <<files, backups, issued>>
    BY DEF Login, Logout, NotSecrets
<1>2. db \in Db
    BY <1>1 DEF StoreShape, Restoring, Busy
<1>3. db' \in Db
    BY <1>2 DEF Login, Logout, Db
<1> QED BY <1>1, <1>3 DEF StoreShape, Restoring, Busy, Exists

\* create(), the deletion of a backup, and what leaves no operation under way.
LEMMA BackupShapes ==
    ASSUME StoreTypeOK, StoreTypeOK', StoreShape, SafetyCopyKept,
           \/ \E store \in Stores, b \in BackupIds \cup {Nothing} : BeginBackup(store, b)
           \/ SnapshotDatabase \/ CopySecrets \/ BackupFails \/ PublishBackup
           \/ \E b \in BackupIds : TrimBackup(b) \/ TrimFails(b)
           \/ EndBackup
    PROVE  StoreShape' /\ SafetyCopyKept'
<1> USE DEF StoreShape
<1>0. Busy("backup") => op \in BackupOp /\ ~Restoring /\ ~Busy("secret")
    BY OpOf, OneOp
<1>d. db \in Db /\ files \in Files /\ UNCHANGED <<db, files, deleting>>
    BY <1>0
    DEF BeginBackup, SnapshotDatabase, CopySecrets, BackupFails, PublishBackup,
        TrimBackup, TrimFails, EndBackup, Doing, Busy, Restoring, NotBackups
<1>f. ASSUME op' = Free, UNCHANGED <<backups, issued>>
      PROVE  StoreShape' /\ SafetyCopyKept'
    BY <1>f, <1>d DEF Busy, Restoring, SafetyCopyKept, Exists
<1>b. ASSUME op' \in BackupOp, BackupShape',
             \A b \in BackupIds : Exists(b)' => b <= issued'
      PROVE  StoreShape' /\ SafetyCopyKept'
    <2>1. Busy("backup")' /\ ~Restoring' /\ ~Busy("secret")'
        BY <1>b, Special DEF Busy, Restoring, BackupOp
    <2> QED BY <1>b, <1>d, <2>1 DEF SafetyCopyKept
<1>1. ASSUME NEW store \in Stores, NEW b \in BackupIds \cup {Nothing},
             BeginBackup(store, b)
      PROVE  StoreShape' /\ SafetyCopyKept'
    <2>0. issued \in Nat /\ issued + 1 \in BackupIds
        BY <1>1, StoreAssumption DEF StoreTypeOK, BeginBackup, BackupIds
    <2>1. op' \in BackupOp
        BY <1>1, <2>0 DEF BeginBackup, BackupOp
    <2>2. b # Nothing => b \in BackupIds /\ b <= issued /\ b # issued + 1
        BY <1>1, <2>0, Special DEF BeginBackup, BackupIds
    <2>3. BackupShape'
        BY <1>1, <2>0, <2>2 DEF BeginBackup, BackupShape, Exists, ApiBusy
    <2>4. \A c \in BackupIds : Exists(c)' => c <= issued'
        BY <1>1 DEF BeginBackup, Exists, BackupIds, StoreTypeOK
    <2> QED BY <1>b, <2>1, <2>3, <2>4
<1>2. CASE SnapshotDatabase \/ CopySecrets
    <2>1. Busy("backup") /\ op \in BackupOp
        BY <1>2, <1>0 DEF SnapshotDatabase, CopySecrets, Doing
    <2>2. op' \in BackupOp
        BY <1>2, <1>d, <2>1 DEF SnapshotDatabase, CopySecrets, BackupOp
    <2>3. BackupShape'
        BY <1>2, <1>d, <2>1
        DEF SnapshotDatabase, CopySecrets, Doing, BackupShape, Exists, BackupOp
    <2>4. \A c \in BackupIds : Exists(c)' => c <= issued'
        BY <1>2 DEF SnapshotDatabase, CopySecrets, Exists
    <2> QED BY <1>b, <2>2, <2>3, <2>4
<1>3. CASE BackupFails
    BY <1>3, <1>f DEF BackupFails
<1>4. CASE PublishBackup
    <2>1. Busy("backup") /\ op \in BackupOp /\ op.db = db /\ op.files = files
        BY <1>4, <1>0 DEF PublishBackup, Doing, BackupShape
    <2>2. op' \in BackupOp
        <3>1. Excess(Protected(op)) \in SUBSET BackupIds
            BY DEF Excess
        <3> QED BY <1>4, <2>1, <3>1 DEF PublishBackup, BackupOp
    <2>3. Protected(op') = Protected(op)
        BY <1>4, <2>1 DEF PublishBackup, Protected, BackupOp
    <2>4. op'.excess \cap Protected(op') = {}
        BY <1>4, <2>1, <2>3 DEF PublishBackup, Excess, BackupOp
    <2>5. backups'[op.id] = [db |-> db, files |-> files, whole |-> TRUE]
        BY <1>4, <2>1 DEF PublishBackup, StoreTypeOK, BackupOp
    <2>6. BackupShape'
        BY <1>4, <1>d, <2>1, <2>4, <2>5
        DEF PublishBackup, BackupShape, BackupOp, Exists, StoreTypeOK
    <2>7. \A c \in BackupIds : Exists(c)' => c <= issued'
        BY <1>4, <2>1 DEF PublishBackup, Exists, BackupShape, StoreTypeOK
    <2> QED BY <1>b, <2>2, <2>6, <2>7
<1>5. ASSUME NEW b \in BackupIds, TrimBackup(b)
      PROVE  StoreShape' /\ SafetyCopyKept'
    <2>1. Busy("backup") /\ op \in BackupOp
        BY <1>5, <1>0 DEF TrimBackup, Doing
    <2>2. op' \in BackupOp
        BY <1>5, <2>1 DEF TrimBackup, BackupOp
    <2>3. b \notin Protected(op)
        BY <1>5 DEF TrimBackup, Doing, BackupShape
    <2>4. Protected(op') = Protected(op) /\ op'.excess \subseteq op.excess
        BY <1>5, <2>1 DEF TrimBackup, Protected, BackupOp
    <2>5. \A c \in BackupIds : c # b => backups'[c] = backups[c]
        BY <1>5 DEF TrimBackup, Dwindle, StoreTypeOK
    <2>6. op.restoring # Nothing => op.restoring \in Protected(op)
        BY DEF Protected
    <2>7. op.id \in Protected(op)
        BY DEF Protected
    <2>8. /\ op'.step = op.step /\ op'.id = op.id /\ op'.restoring = op.restoring
          /\ op'.store = op.store /\ op.step = "trim"
        BY <1>5, <2>1 DEF TrimBackup, Doing, BackupOp
    <2>9. BackupShape'
        BY <1>5, <1>d, <2>1, <2>3, <2>4, <2>5, <2>6, <2>7, <2>8
        DEF TrimBackup, BackupShape, BackupOp, Exists
    <2>10. \A c \in BackupIds : Exists(c)' => c <= issued'
        BY <1>5, <2>5 DEF TrimBackup, Exists
    <2> QED BY <1>b, <2>2, <2>9, <2>10
<1>6. ASSUME NEW b \in BackupIds, TrimFails(b)
      PROVE  StoreShape' /\ SafetyCopyKept'
    BY <1>6, <1>f DEF TrimFails
<1>7. CASE EndBackup
    <2>1. CASE op.restoring = Nothing
        BY <1>7, <1>f, <2>1 DEF EndBackup
    <2>2. CASE op.restoring # Nothing
        <3>1. /\ Busy("backup") /\ op \in BackupOp /\ op.id \in BackupIds
              /\ deleting = Nothing
              /\ Exists(op.restoring) /\ backups[op.restoring].whole
              /\ backups[op.id] = [db |-> db, files |-> files, whole |-> TRUE]
            BY <1>7, <1>0, <2>2 DEF EndBackup, Doing, BackupShape, BackupOp
        <3>2. /\ op' = [kind |-> "restore", step |-> "moveDb", source |-> op.restoring,
                        oldDb |-> Nothing, oldFiles |-> Nothing]
              /\ UNCHANGED <<backups, issued>>
            BY <1>7, <2>2 DEF EndBackup
        <3>3. ~Busy("backup")' /\ ~Busy("secret")'
            BY <3>2 DEF Busy
        <3>4. RestoreShape'
            BY <1>d, <3>1, <3>2 DEF RestoreShape
        <3>5. Before' = [db |-> db, files |-> files]
            BY <1>d, <3>2 DEF Before
        <3>6. Exists(op.id)
            <4>1. [db |-> db, files |-> files, whole |-> TRUE] \in Backup
                BY <1>d DEF Backup
            <4> QED BY <3>1, <4>1, Special DEF Exists
        <3>7. SafetyCopyKept'
            BY <3>1, <3>2, <3>5, <3>6 DEF SafetyCopyKept, Exists
        <3>8. \A c \in BackupIds : Exists(c)' => c <= issued'
            BY <3>2 DEF Exists
        <3> QED BY <1>d, <3>3, <3>4, <3>7, <3>8
    <2> QED BY <2>1, <2>2
<1> QED BY <1>1, <1>2, <1>3, <1>4, <1>5, <1>6, <1>7

\* Until it is done, the swap of restore() forgets neither what it replaces nor
\* what it installs.
LEMMA SwapKeeps ==
    ASSUME StoreTypeOK, StoreShape,
           MoveDatabase \/ MoveSecrets \/ InstallDatabase \/ InstallSecrets
    PROVE  /\ Restoring /\ op \in RestoreOp /\ Restoring'
           /\ op'.source = op.source /\ Before' = Before
<1>1. Restoring /\ op \in RestoreOp /\ RestoreShape
    BY OpOf DEF MoveDatabase, MoveSecrets, InstallDatabase, InstallSecrets, Doing,
        Restoring, StoreShape
<1>k. op' \in RestoreOp => Restoring'
    BY Special DEF Restoring, Busy, RestoreOp
<1>2. CASE MoveDatabase
    <2>1. /\ op' = [op EXCEPT !.step = "moveFiles", !.oldDb = db] /\ files' = files
          /\ db \in Db /\ op.oldDb = Nothing
        BY <1>1, <1>2 DEF MoveDatabase, Doing, RestoreShape
    <2>2. op' \in RestoreOp /\ op'.oldDb = db /\ op'.oldFiles = op.oldFiles
          /\ op'.source = op.source
        BY <1>1, <2>1 DEF RestoreOp
    <2> QED BY <1>1, <1>k, <2>1, <2>2, Special DEF Before
<1>3. CASE MoveSecrets
    <2>1. /\ op' = [op EXCEPT !.step = "installDb", !.oldFiles = files] /\ db' = db
          /\ files \in Files /\ op.oldFiles = Nothing
        BY <1>1, <1>3 DEF MoveSecrets, Doing, RestoreShape
    <2>2. op' \in RestoreOp /\ op'.oldDb = op.oldDb /\ op'.oldFiles = files
          /\ op'.source = op.source
        BY <1>1, <2>1 DEF RestoreOp
    <2> QED BY <1>1, <1>k, <2>1, <2>2, Special DEF Before
<1>4. CASE InstallDatabase
    <2>1. /\ op' = [op EXCEPT !.step = "installFiles"] /\ files' = files
          /\ op.oldDb # Nothing
        BY <1>1, <1>4, Special DEF InstallDatabase, Doing, RestoreShape
    <2>2. op' \in RestoreOp /\ op'.oldDb = op.oldDb /\ op'.oldFiles = op.oldFiles
          /\ op'.source = op.source
        BY <1>1, <2>1 DEF RestoreOp
    <2> QED BY <1>1, <1>k, <2>1, <2>2 DEF Before
<1>5. CASE InstallSecrets
    <2>1. /\ op' = [op EXCEPT !.step = "sessions"] /\ db' = db
          /\ op.oldFiles # Nothing
        BY <1>1, <1>5, Special DEF InstallSecrets, Doing, RestoreShape
    <2>2. op' \in RestoreOp /\ op'.oldDb = op.oldDb /\ op'.oldFiles = op.oldFiles
          /\ op'.source = op.source
        BY <1>1, <2>1 DEF RestoreOp
    <2> QED BY <1>1, <1>k, <2>1, <2>2 DEF Before
<1> QED BY <1>2, <1>3, <1>4, <1>5

\* The swap of restore(), and the deletion of a backup.
LEMMA RestoreShapes ==
    ASSUME StoreTypeOK, StoreTypeOK', StoreShape, SafetyCopyKept,
           \/ MoveDatabase \/ MoveSecrets \/ InstallDatabase \/ InstallSecrets
           \/ ClearSessions \/ RestoreFails
           \/ \E b \in BackupIds : BeginDeleteBackup(b)
           \/ DeleteBackup
    PROVE  StoreShape' /\ SafetyCopyKept'
<1> USE DEF StoreShape
<1>r. Restoring => /\ op \in RestoreOp /\ ~Busy("backup") /\ ~Busy("secret")
                   /\ RestoreShape
    BY OpOf, OneOp
<1>s. Restoring => /\ backups[op.source].db \in Db
                   /\ backups[op.source].files \in Files
    BY <1>r, OpOf DEF SafetyCopyKept, Exists, RestoreOp, Backup, StoreTypeOK
<1>f. ASSUME op' = Free, db' \in Db, files' \in Files, UNCHANGED <<backups, issued>>
      PROVE  StoreShape' /\ SafetyCopyKept'
    BY <1>f DEF Busy, Restoring, SafetyCopyKept, Exists
<1>g. ASSUME MoveDatabase \/ MoveSecrets \/ InstallDatabase \/ InstallSecrets,
             RestoreShape', UNCHANGED <<backups, issued>>
      PROVE  StoreShape' /\ SafetyCopyKept'
    <2>1. Restoring' /\ ~Busy("backup")' /\ ~Busy("secret")'
        BY <1>g, SwapKeeps DEF Busy, Restoring
    <2> QED BY <1>g, <2>1, SwapKeeps DEF SafetyCopyKept, Exists
<1>1. CASE MoveDatabase
    <2>1. /\ Restoring /\ op \in RestoreOp /\ op.step = "moveDb" /\ deleting = Nothing
          /\ op.oldDb = Nothing /\ op.oldFiles = Nothing /\ db \in Db /\ files \in Files
        BY <1>1, <1>r DEF MoveDatabase, Doing, Restoring, RestoreShape
    <2>2. op' = [op EXCEPT !.step = "moveFiles", !.oldDb = db]
          /\ UNCHANGED <<files, backups, issued, deleting>>
        BY <1>1 DEF MoveDatabase
    <2>4. op'.step = "moveFiles" /\ op'.oldDb = db /\ op'.oldFiles = Nothing
        BY <2>1, <2>2 DEF RestoreOp
    <2>5. RestoreShape'
        BY <2>1, <2>2, <2>4 DEF RestoreShape
    <2> QED BY <1>1, <1>g, <2>2, <2>5
<1>2. CASE MoveSecrets
    <2>1. /\ Restoring /\ op \in RestoreOp /\ op.step = "moveFiles" /\ deleting = Nothing
          /\ op.oldDb \in Db /\ op.oldFiles = Nothing /\ files \in Files
        BY <1>2, <1>r DEF MoveSecrets, Doing, Restoring, RestoreShape
    <2>2. op' = [op EXCEPT !.step = "installDb", !.oldFiles = files]
          /\ UNCHANGED <<db, backups, issued, deleting>>
        BY <1>2 DEF MoveSecrets
    <2>4. op'.step = "installDb" /\ op'.oldDb = op.oldDb /\ op'.oldFiles = files
        BY <2>1, <2>2 DEF RestoreOp
    <2>5. RestoreShape'
        BY <2>1, <2>2, <2>4 DEF RestoreShape
    <2> QED BY <1>2, <1>g, <2>2, <2>5
<1>3. CASE InstallDatabase
    <2>1. /\ Restoring /\ op \in RestoreOp /\ op.step = "installDb" /\ deleting = Nothing
          /\ op.oldDb \in Db /\ op.oldFiles \in Files
        BY <1>3, <1>r DEF InstallDatabase, Doing, Restoring, RestoreShape
    <2>2. op' = [op EXCEPT !.step = "installFiles"] /\ db' = backups[op.source].db
          /\ UNCHANGED <<files, backups, issued, deleting>>
        BY <1>3 DEF InstallDatabase
    <2>4. op'.step = "installFiles" /\ op'.oldDb = op.oldDb
          /\ op'.oldFiles = op.oldFiles
        BY <2>1, <2>2 DEF RestoreOp
    <2>5. RestoreShape'
        BY <2>1, <2>2, <2>4 DEF RestoreShape
    <2> QED BY <1>3, <1>g, <2>2, <2>5
<1>4. CASE InstallSecrets
    <2>1. /\ Restoring /\ op \in RestoreOp /\ op.step = "installFiles"
          /\ deleting = Nothing /\ db = backups[op.source].db
          /\ op.oldDb \in Db /\ op.oldFiles \in Files
        BY <1>4, <1>r DEF InstallSecrets, Doing, Restoring, RestoreShape
    <2>2. op' = [op EXCEPT !.step = "sessions"] /\ files' = backups[op.source].files
          /\ UNCHANGED <<db, backups, issued, deleting>>
        BY <1>4 DEF InstallSecrets
    <2>4. op'.step = "sessions" /\ op'.oldDb = op.oldDb
          /\ op'.oldFiles = op.oldFiles
        BY <2>1, <2>2 DEF RestoreOp
    <2>5. RestoreShape'
        BY <2>1, <2>2, <2>4 DEF RestoreShape
    <2> QED BY <1>4, <1>g, <2>2, <2>5
<1>5. CASE ClearSessions
    <2>1. Restoring /\ db \in Db /\ files \in Files
        BY <1>5, <1>r, <1>s DEF ClearSessions, Doing, Restoring, RestoreShape
    <2>2. [db EXCEPT !.sessions = {}] \in Db
        BY <2>1 DEF Db
    <2> QED BY <1>5, <1>f, <2>1, <2>2 DEF ClearSessions
<1>6. CASE RestoreFails
    <2>1. /\ (IF op.oldDb = Nothing THEN db ELSE op.oldDb) \in Db
          /\ (IF op.oldFiles = Nothing THEN files ELSE op.oldFiles) \in Files
        BY <1>6, <1>r, Special DEF RestoreFails, RestoreShape
    <2> QED BY <1>6, <1>f, <2>1 DEF RestoreFails
<1>7. ASSUME NEW b \in BackupIds, BeginDeleteBackup(b)
      PROVE  StoreShape' /\ SafetyCopyKept'
    <2>1. UNCHANGED <<db, files, backups, issued, op>>
        BY <1>7 DEF BeginDeleteBackup
    <2>2. ~Restoring /\ (Busy("backup") => op.restoring = Nothing)
        BY <1>7 DEF BeginDeleteBackup, ApiBusy, BackupShape
    <2>3. ~Restoring' /\ (Busy("backup")' => Busy("backup") /\ BackupShape')
        BY <2>1, <2>2 DEF Restoring, Busy, BackupShape, Protected
    <2>4. Busy("secret")' => SecretShape'
        BY <2>1 DEF Busy, SecretShape
    <2> QED BY <2>1, <2>2, <2>3, <2>4 DEF SafetyCopyKept, Exists
<1>8. CASE DeleteBackup
    <2>1. UNCHANGED <<db, files, issued, op>> /\ deleting \in BackupIds
        BY <1>8 DEF DeleteBackup, StoreTypeOK
    <2>2. ~Restoring /\ (Busy("backup") => op.restoring = Nothing)
        BY <1>8, <1>r DEF DeleteBackup, BackupShape, RestoreShape
    <2>3. ~Restoring' /\ (Busy("backup")' => Busy("backup") /\ BackupShape')
        BY <2>1, <2>2 DEF Restoring, Busy, BackupShape, Protected
    <2>4. Busy("secret")' => SecretShape'
        BY <2>1 DEF Busy, SecretShape
    <2>5. \A b \in BackupIds : Exists(b)' => Exists(b)
        BY <1>8, <2>1 DEF DeleteBackup, Dwindle, Exists, StoreTypeOK
    <2> QED BY <2>1, <2>2, <2>3, <2>4, <2>5 DEF SafetyCopyKept
<1> QED BY <1>1, <1>2, <1>3, <1>4, <1>5, <1>6, <1>7, <1>8

LEMMA CrashShapes ==
    ASSUME StoreTypeOK, StoreTypeOK', StoreShape, Crash
    PROVE  StoreShape' /\ SafetyCopyKept'
<1>1. op' = Free /\ UNCHANGED <<backups, issued>>
    BY DEF Crash
<1>2. db' \in Db
    BY EmptyTyped DEF Crash, StoreTypeOK
<1>3. files' \in Files
    <2>1. CASE files' = IF files = NoDir THEN EmptyFiles ELSE files
        BY <2>1, EmptyTyped DEF StoreTypeOK
    <2>2. CASE /\ Doing("secret", "write")
               /\ files' = [files EXCEPT ![<<op.secret, op.new>>] = Torn]
        <3>1. op \in SecretOp /\ files \in Files /\ op.new \in Versions
            BY <2>2, OpOf, OneOp
            DEF Doing, StoreShape, SecretShape, SecretOp, Versions
        <3> QED BY <2>2, <3>1, FilesChange DEF SecretOp
    <2> QED BY <2>1, <2>2 DEF Crash
<1> QED BY <1>1, <1>2, <1>3 DEF StoreShape, SafetyCopyKept, Busy, Restoring, Exists

\* Every step keeps the types, the shape and the safety copy.
LEMMA ShapeStep ==
    ASSUME StoreTypeOK, StoreShape, SafetyCopyKept, [StoreNext]_storeVars
    PROVE  StoreTypeOK' /\ StoreShape' /\ SafetyCopyKept'
<1>1. CASE SecretStep
    <2>1. StoreTypeOK' /\ StoreShape'
        BY <1>1, SecretTypes, SecretShapes
    <2>2. ~Restoring'
        BY <1>1, OpOf
        DEF SecretStep, CreateSecret, RotateSecret, DeleteSecret, WriteFile, WriteFails,
            CommitSecret, CommitFails, RemoveFile, Doing, Busy, Restoring, SecretOp
    <2> QED BY <2>1, <2>2 DEF SafetyCopyKept
<1>2. ASSUME NEW i \in Sessions, Login(i) \/ Logout(i)
      PROVE  StoreTypeOK' /\ StoreShape' /\ SafetyCopyKept'
    <2>1. StoreTypeOK' /\ StoreShape'
        BY <1>2, SessionTypes, SessionShapes
    <2>2. ~Restoring'
        BY <1>2 DEF Login, Logout, Restoring, Busy
    <2> QED BY <2>1, <2>2 DEF SafetyCopyKept
<1>3. ASSUME \/ \E store \in Stores, b \in BackupIds \cup {Nothing} :
                    BeginBackup(store, b)
             \/ BackupStep
      PROVE  StoreTypeOK' /\ StoreShape' /\ SafetyCopyKept'
    BY <1>3, BackupTypes, BackupShapes, RestoreShapes DEF BackupStep
<1>4. CASE Crash
    BY <1>4, CrashTypes, CrashShapes
<1>5. CASE UNCHANGED storeVars
    BY <1>5
    DEF storeVars, StoreTypeOK, StoreShape, SafetyCopyKept, Restoring, Busy, Doing,
        SecretShape, BackupShape, RestoreShape, Protected, Exists, Before
<1> QED BY <1>1, <1>2, <1>3, <1>4, <1>5 DEF StoreNext

-----------------------------------------------------------------------------

\* Identifiers are never made twice: what any database at hand knows was made.

LEMMA KnownMore ==
    ASSUME NEW d, NEW m, NEW n, m \subseteq n, Known(d, m)
    PROVE  Known(d, n)
BY DEF Known

LEMMA SecretKnown ==
    ASSUME StoreTypeOK, StoreShape, AllKnown, SecretStep
    PROVE  AllKnown'
<1>0. Busy("secret") => op \in SecretOp /\ db \in Db /\ op.secret \in made
    BY OpOf, OneOp DEF AllKnown, StoreShape
<1>f. op = Free => db \in Db
    BY DEF StoreShape, Restoring, Busy
<1>u. UNCHANGED <<backups, revoked>> /\ made \subseteq made'
    BY DEF SecretStep, CreateSecret, RotateSecret, DeleteSecret, WriteFile, WriteFails,
           CommitSecret, CommitFails, RemoveFile, NotSecrets
<1>k. ~Restoring'
    BY <1>0
    DEF SecretStep, CreateSecret, RotateSecret, DeleteSecret, WriteFile, WriteFails,
        CommitSecret, CommitFails, RemoveFile, Doing, Busy, Restoring, SecretOp
<1>b. ASSUME NEW b \in BackupIds, Exists(b)' PROVE Known(backups'[b].db, made')
    BY <1>b, <1>u, KnownMore DEF AllKnown, Exists
<1>1. (Busy("secret") => op.secret \in made)'
    <2>1. ASSUME NEW s \in Secrets, HasRow(db, s), op = Free
          PROVE  s \in made
        BY <1>f, <2>1, Special DEF AllKnown, Known
    <2> QED
        BY <1>0, <2>1
        DEF SecretStep, CreateSecret, RotateSecret, DeleteSecret, WriteFile, WriteFails,
            CommitSecret, CommitFails, RemoveFile, Doing, Busy, SecretOp
<1>2. Known(db', made')
    <2>1. db \in Db /\ Known(db, made)
        BY <1>0, <1>f, Special
        DEF SecretStep, CreateSecret, RotateSecret, DeleteSecret, WriteFile, WriteFails,
            CommitSecret, CommitFails, RemoveFile, Doing, AllKnown
    <2>2. CASE CommitSecret
        <3>1. made' = made /\ op \in SecretOp /\ op.secret \in made
            BY <2>2, <1>0 DEF CommitSecret, Doing
        <3>2. /\ db'.sessions = db.sessions
              /\ \A s \in Secrets : s # op.secret => db'.secrets[s] = db.secrets[s]
            BY <2>1, <2>2, <3>1 DEF CommitSecret, Db, SecretOp
        <3> QED BY <2>1, <3>1, <3>2 DEF Known, HasRow
    <2>3. CASE ~CommitSecret
        <3>1. db' = db
            BY <2>3
            DEF SecretStep, CreateSecret, RotateSecret, DeleteSecret, WriteFile,
                WriteFails, CommitFails, RemoveFile
        <3> QED BY <2>1, <3>1, <1>u, KnownMore
    <2> QED BY <2>2, <2>3
<1> QED BY <1>u, <1>k, <1>b, <1>1, <1>2 DEF AllKnown

LEMMA SessionKnown ==
    ASSUME StoreTypeOK, StoreShape, AllKnown, NEW i \in Sessions, Login(i) \/ Logout(i)
    PROVE  AllKnown'
<1>1. /\ op = Free /\ op' = Free /\ UNCHANGED backups /\ made \subseteq made'
      /\ revoked' \subseteq made'
    BY Special DEF Login, Logout, NotSecrets, AllKnown, StoreShape, Restoring, Busy, Known
<1>2. db \in Db /\ Known(db, made)
    BY <1>1, Special DEF StoreShape, Restoring, Busy, AllKnown
<1>3. db'.secrets = db.secrets /\ db'.sessions \subseteq made'
    BY <1>2 DEF Login, Logout, Db, Known
<1>4. Known(db', made')
    BY <1>1, <1>2, <1>3 DEF Known, HasRow
<1>b. ASSUME NEW b \in BackupIds, Exists(b)' PROVE Known(backups'[b].db, made')
    BY <1>b, <1>1, KnownMore DEF AllKnown, Exists
<1> QED BY <1>1, <1>4, <1>b DEF AllKnown, Busy, Restoring

LEMMA BackupKnown ==
    ASSUME StoreTypeOK, StoreShape, SafetyCopyKept, AllKnown,
           \/ \E store \in Stores, b \in BackupIds \cup {Nothing} : BeginBackup(store, b)
           \/ BackupStep
    PROVE  AllKnown'
<1>m. made' = made
    BY DEF BeginBackup, BackupStep, SnapshotDatabase, CopySecrets, BackupFails,
           PublishBackup, TrimBackup, TrimFails, EndBackup, MoveDatabase, MoveSecrets,
           InstallDatabase, InstallSecrets, ClearSessions, RestoreFails,
           BeginDeleteBackup, DeleteBackup, NotBackups
<1>o. /\ Busy("backup") => op \in BackupOp /\ db \in Db
      /\ Restoring => op \in RestoreOp /\ RestoreShape
      /\ op = Free => db \in Db
    BY OpOf, OneOp DEF StoreShape, Restoring, Busy
<1>s. Busy("secret")' => op' = op
    <2>1. CASE SnapshotDatabase \/ CopySecrets \/ PublishBackup
        BY <2>1, <1>o DEF SnapshotDatabase, CopySecrets, PublishBackup, Doing, Busy, BackupOp
    <2>2. ASSUME NEW b \in BackupIds, TrimBackup(b) PROVE ~Busy("secret")'
        BY <2>2, <1>o DEF TrimBackup, Doing, Busy, BackupOp
    <2>3. CASE MoveDatabase \/ MoveSecrets \/ InstallDatabase \/ InstallSecrets
        BY <2>3, <1>o
        DEF MoveDatabase, MoveSecrets, InstallDatabase, InstallSecrets, Doing, Busy,
            Restoring, RestoreOp
    <2> QED
        BY <2>1, <2>2, <2>3
        DEF BeginBackup, BackupStep, BackupFails, TrimFails, EndBackup, ClearSessions,
            RestoreFails, BeginDeleteBackup, DeleteBackup, Busy
<1>d. ASSUME NEW b \in BackupIds, Exists(b), Dwindle(b), NEW c \in BackupIds, Exists(c)'
      PROVE  Exists(c) /\ backups'[c].db = backups[c].db
    <2>1. backups[b] \in Backup
        BY <1>d DEF Exists, StoreTypeOK
    <2> QED BY <1>d, <2>1 DEF Dwindle, Exists, StoreTypeOK, Backup
<1>b. ASSUME NEW b \in BackupIds, Exists(b)' PROVE Known(backups'[b].db, made)
    <2>1. CASE PublishBackup
        <3>1. op \in BackupOp /\ op.db = db /\ db \in Db
            BY <2>1, <1>o DEF PublishBackup, Doing, StoreShape, BackupShape
        <3>2. b # op.id => backups'[b] = backups[b]
            BY <2>1 DEF PublishBackup, StoreTypeOK
        <3>3. b = op.id => backups'[b].db = db
            BY <2>1, <3>1 DEF PublishBackup, StoreTypeOK, BackupOp
        <3> QED BY <1>b, <3>1, <3>2, <3>3, Special DEF AllKnown, Exists
    <2>2. ASSUME NEW c \in BackupIds, TrimBackup(c)
          PROVE  Known(backups'[b].db, made)
        BY <1>b, <1>d, <2>2 DEF TrimBackup, AllKnown
    <2>3. CASE DeleteBackup
        <3>1. CASE Exists(deleting)
            <4>1. deleting \in BackupIds
                BY <2>3 DEF DeleteBackup, StoreTypeOK
            <4> QED BY <1>b, <1>d, <2>3, <3>1, <4>1 DEF DeleteBackup, AllKnown
        <3>2. CASE ~Exists(deleting)
            BY <1>b, <2>3, <3>2 DEF DeleteBackup, AllKnown, Exists
        <3> QED BY <3>1, <3>2
    <2>4. CASE backups' = backups
        BY <1>b, <2>4 DEF AllKnown, Exists
    <2> QED
        BY <2>1, <2>2, <2>3, <2>4
        DEF BeginBackup, BackupStep, SnapshotDatabase, CopySecrets, BackupFails,
            TrimFails, EndBackup, MoveDatabase, MoveSecrets, InstallDatabase,
            InstallSecrets, ClearSessions, RestoreFails, BeginDeleteBackup
<1>i. Restoring => /\ op.source \in BackupIds
                   /\ Known(backups[op.source].db, made)
    BY <1>o DEF SafetyCopyKept, AllKnown, RestoreOp
<1>1. db' # NoDb => Known(db', made)
    <2>1. CASE InstallDatabase
        BY <2>1, <1>i DEF InstallDatabase, Doing, Restoring
    <2>2. CASE ClearSessions
        <3>1. Restoring /\ db = backups[op.source].db
            BY <2>2, <1>o DEF ClearSessions, Doing, Restoring, RestoreShape
        <3>2. db \in Db
            BY <3>1, <1>o DEF SafetyCopyKept, Exists, RestoreOp, Backup, StoreTypeOK
        <3>3. db'.secrets = db.secrets /\ db'.sessions = {}
            BY <2>2, <3>2 DEF ClearSessions, Db
        <3> QED BY <1>i, <3>1, <3>3 DEF Known, HasRow
    <2>3. CASE RestoreFails
        BY <2>3 DEF RestoreFails, AllKnown
    <2>4. CASE db' = db
        BY <2>4 DEF AllKnown
    <2> QED
        BY <2>1, <2>2, <2>3, <2>4
        DEF BeginBackup, BackupStep, SnapshotDatabase, CopySecrets, BackupFails,
            PublishBackup, TrimBackup, TrimFails, EndBackup, MoveDatabase, MoveSecrets,
            InstallSecrets, BeginDeleteBackup, DeleteBackup
<1>2. Restoring' /\ op'.oldDb # Nothing => Known(op'.oldDb, made)
    <2>1. CASE MoveDatabase
        <3>1. Restoring /\ op \in RestoreOp /\ db \in Db
            BY <2>1, <1>o DEF MoveDatabase, Doing, Restoring, RestoreShape
        <3>2. op'.oldDb = db
            BY <2>1, <3>1 DEF MoveDatabase, RestoreOp
        <3> QED BY <3>1, <3>2, Special DEF AllKnown
    <2>2. CASE EndBackup
        BY <2>2 DEF EndBackup, Restoring, Busy
    <2>3. CASE MoveSecrets \/ InstallDatabase \/ InstallSecrets
        <3>1. Restoring /\ op \in RestoreOp
            BY <2>3, <1>o DEF MoveSecrets, InstallDatabase, InstallSecrets, Doing, Restoring
        <3>2. op'.oldDb = op.oldDb
            BY <2>3, <3>1 DEF MoveSecrets, InstallDatabase, InstallSecrets, RestoreOp
        <3> QED BY <3>1, <3>2 DEF AllKnown
    <2>4. CASE op' = op
        BY <2>4 DEF AllKnown, Restoring, Busy
    <2>5. CASE op' = Free
        BY <2>5 DEF Restoring, Busy
    <2>6. ASSUME Busy("backup"), op' \in BackupOp
          PROVE  ~Restoring'
        BY <2>6 DEF Restoring, Busy, BackupOp
    <2>7. CASE SnapshotDatabase \/ CopySecrets \/ PublishBackup
        BY <2>7, <1>o
        DEF SnapshotDatabase, CopySecrets, PublishBackup, Doing, Busy, Restoring, BackupOp
    <2>8. ASSUME NEW b \in BackupIds, TrimBackup(b)
          PROVE  ~Restoring'
        BY <2>8, <1>o DEF TrimBackup, Doing, Busy, Restoring, BackupOp
    <2>9. ASSUME NEW store \in Stores, NEW b \in BackupIds \cup {Nothing},
                 BeginBackup(store, b)
          PROVE  ~Restoring'
        BY <2>9 DEF BeginBackup, Restoring, Busy
    <2> QED
        BY <2>1, <2>2, <2>3, <2>4, <2>5, <2>7, <2>8, <2>9
        DEF BackupStep, BackupFails, TrimFails, ClearSessions, RestoreFails,
            BeginDeleteBackup, DeleteBackup
<1>3. revoked' \subseteq made
    <2>1. CASE ClearSessions
        <3>1. Restoring /\ db = backups[op.source].db /\ op.oldDb # Nothing
            BY <2>1, <1>o, Special DEF ClearSessions, Doing, Restoring, RestoreShape
        <3>2. Known(db, made) /\ Known(op.oldDb, made)
            BY <1>i, <3>1 DEF AllKnown
        <3> QED BY <2>1, <3>2 DEF ClearSessions, AllKnown, Known
    <2>2. CASE revoked' = revoked
        BY <2>2 DEF AllKnown
    <2> QED
        BY <2>1, <2>2
        DEF BeginBackup, BackupStep, SnapshotDatabase, CopySecrets, BackupFails,
            PublishBackup, TrimBackup, TrimFails, EndBackup, MoveDatabase, MoveSecrets,
            InstallDatabase, InstallSecrets, RestoreFails, BeginDeleteBackup, DeleteBackup
<1> QED BY <1>m, <1>s, <1>b, <1>1, <1>2, <1>3 DEF AllKnown, Busy

LEMMA CrashKnown ==
    ASSUME StoreTypeOK, AllKnown, Crash
    PROVE  AllKnown'
<1>1. Known(EmptyDb, made)
    BY DEF EmptyDb, Known, HasRow
<1>2. op' = Free /\ UNCHANGED <<backups, made, revoked>> /\ Known(db', made)
    BY <1>1 DEF Crash, AllKnown
<1> QED BY <1>2 DEF AllKnown, Busy, Restoring, Exists

LEMMA KnownStep ==
    ASSUME StoreTypeOK, StoreShape, SafetyCopyKept, AllKnown, [StoreNext]_storeVars
    PROVE  AllKnown'
<1>1. CASE UNCHANGED storeVars
    BY <1>1 DEF storeVars, AllKnown, Exists, Restoring, Busy
<1> QED BY <1>1, SecretKnown, SessionKnown, BackupKnown, CrashKnown DEF StoreNext

-----------------------------------------------------------------------------

\* Rows and value files stay together.

\* Only the rows of a database matter to its value files, and fewer secrets
\* are held to be tidy when more were cut off.
LEMMA SoundSame ==
    ASSUME NEW d, NEW e, NEW f, NEW cut, NEW more, cut \subseteq more,
           e.secrets = d.secrets, Sound(d, f, cut)
    PROVE  Sound(e, f, more)
BY DEF Sound, Readable, Tidy, HasRow

LEMMA SecretSounds ==
    ASSUME StoreTypeOK, StoreShape, AllKnown, StateSound, SecretStep, ~broken
    PROVE  /\ op' = Free => Sound(db', files', interrupted')
           /\ Busy("secret")' => SecretSound'
<1>u. interrupted' = interrupted
    BY DEF SecretStep, CreateSecret, RotateSecret, DeleteSecret, WriteFile, WriteFails,
           CommitSecret, CommitFails, RemoveFile, NotSecrets
<1>f. op = Free => /\ db \in Db /\ files \in Files /\ Sound(db, files, interrupted)
    BY DEF StateSound, StoreShape, Restoring, Busy
<1>o. Busy("secret") => /\ op \in SecretOp /\ db \in Db /\ files \in Files
                        /\ SecretShape /\ SecretSound
    BY OpOf, OneOp DEF StateSound, StoreShape
<1>v. \A s \in Secrets : db \in Db /\ HasRow(db, s) => db.secrets[s].version \in Versions
    BY DEF HasRow, Db, SecretRow
<1>n. 0 \notin Versions
    BY DEF Versions
<1>1. ASSUME NEW s \in Secrets, NEW v \in Values, CreateSecret(s, v)
      PROVE  Busy("secret")' /\ SecretSound'
    <2>1. /\ op = Free /\ op' # Free /\ db' = db /\ files' = files /\ op'.secret = s
          /\ op'.step = "write" /\ op'.kind = "secret"
          /\ ~HasRow(db, s)
        <3>1. op' \in SecretOp
            BY <1>1, StoreAssumption DEF CreateSecret, SecretOp
        <3> QED BY <1>1, <3>1, <1>f, Special DEF CreateSecret, AllKnown, Known
    <2> QED BY <1>f, <1>u, <2>1 DEF Busy, SecretSound, Loose, Sound, Readable, Tidy, HasRow
<1>2. ASSUME NEW s \in Secrets, NEW v \in Values, RotateSecret(s, v)
      PROVE  Busy("secret")' /\ SecretSound'
    <2>1. /\ op = Free /\ db' = db /\ files' = files /\ op'.secret = s
          /\ op'.step = "write" /\ op'.kind = "secret"
          /\ op'.old = db.secrets[s].version
        BY <1>2 DEF RotateSecret
    <2>2. op' # Free
        <3>1. op' \in SecretOp
            BY <1>2, <1>f, <1>v, StoreAssumption
            DEF RotateSecret, SecretOp, Versions
        <3> QED BY <3>1, Special
    <2> QED
        BY <1>f, <1>u, <2>1, <2>2 DEF Busy, SecretSound, Loose, Sound, Readable, Tidy, HasRow
<1>3. ASSUME NEW s \in Secrets, DeleteSecret(s)
      PROVE  Busy("secret")' /\ SecretSound'
    <2>1. /\ op = Free /\ db' = db /\ files' = files /\ op'.secret = s
          /\ op'.step = "commit" /\ op'.kind = "secret" /\ op'.new = 0
          /\ op'.old = db.secrets[s].version
        BY <1>3 DEF DeleteSecret
    <2>2. op' # Free
        <3>1. op' \in SecretOp
            BY <1>3, <1>f, <1>v, StoreAssumption DEF DeleteSecret, SecretOp, Versions
        <3> QED BY <3>1, Special
    <2> QED
        BY <1>f, <1>u, <1>n, <2>1, <2>2
        DEF Busy, SecretSound, Loose, Sound, Readable, Tidy, HasRow
<1>4. CASE WriteFile
    <2>o. /\ op \in SecretOp /\ op.step = "write" /\ SecretShape /\ SecretSound
          /\ db' = db /\ db \in Db /\ files \in Files /\ op.new \in Versions
          /\ op.secret \in Secrets /\ op.old # op.new
        BY <1>4, <1>o DEF WriteFile, Doing, SecretShape, SecretOp, Versions
    <2>1. CASE files[<<op.secret, op.new>>] = Missing
        <3>1. /\ op'.step = "commit" /\ op'.secret = op.secret /\ op'.new = op.new
              /\ op'.old = op.old /\ op'.value = op.value /\ op'.kind = "secret"
              /\ op' # Free
            <4>1. op' = [op EXCEPT !.step = "commit"]
                BY <1>4, <2>1 DEF WriteFile
            <4>2. op' \in SecretOp
                BY <2>o, <4>1 DEF SecretOp
            <4> QED BY <2>o, <4>1, <4>2, Special DEF SecretOp
        <3>2. /\ files'[<<op.secret, op.new>>] = op.value
              /\ \A t \in Secrets, v \in Versions :
                     t # op.secret \/ v # op.new =>
                         files'[<<t, v>>] = files[<<t, v>>]
            BY <1>4, <2>o, <2>1 DEF WriteFile, Files
        <3>3. Readable(db, files')
            BY <2>o, <3>2, <1>v DEF SecretSound, Readable
        <3> QED BY <2>o, <3>1, <3>2, <3>3, <1>v, <1>u DEF SecretSound, Loose
    <2>2. CASE files[<<op.secret, op.new>>] # Missing
        BY <1>4, <2>2, <2>o, <1>u
        DEF WriteFile, SecretSound, Loose, Sound, Tidy, Busy
    <2> QED BY <2>1, <2>2 DEF Busy
<1>5. CASE WriteFails
    BY <1>5, <1>o, <1>u DEF WriteFails, Doing, SecretSound, Loose, Sound, Tidy, Busy
<1>6. CASE CommitSecret
    <2>o. /\ op \in SecretOp /\ op.step = "commit" /\ SecretShape /\ SecretSound
          /\ files' = files /\ db \in Db /\ files \in Files
          /\ op.secret \in Secrets
        BY <1>6, <1>o DEF CommitSecret, Doing, SecretOp
    <2>1. /\ \A t \in Secrets : t # op.secret => db'.secrets[t] = db.secrets[t]
          /\ op.new = 0 => db'.secrets[op.secret] = NoRow
          /\ op.new # 0 => db'.secrets[op.secret] = [version |-> op.new, value |-> op.value]
        BY <1>6, <2>o DEF CommitSecret, Db
    <2>2. Readable(db', files)
        BY <2>o, <2>1 DEF SecretSound, Readable, HasRow
    <2>3. [version |-> op.new, value |-> op.value] # NoRow \/ op.new = 0
        BY <2>o, Special DEF SecretShape, SecretOp, SecretRow, Versions
    <2>4. \A t \in Secrets \ interrupted, v \in Versions :
             files[<<t, v>>] # Missing /\ ~(t = op.secret /\ v = op.old) =>
                 HasRow(db', t) /\ db'.secrets[t].version = v
        <3> SUFFICES ASSUME NEW t \in Secrets \ interrupted, NEW v \in Versions,
                            files[<<t, v>>] # Missing, ~(t = op.secret /\ v = op.old)
                     PROVE  HasRow(db', t) /\ db'.secrets[t].version = v
            OBVIOUS
        <3>1. CASE t # op.secret
            BY <3>1, <2>o, <2>1 DEF SecretSound, HasRow
        <3>2. CASE t = op.secret /\ v = op.new
            BY <3>2, <2>o, <2>1, <2>3, <1>n DEF HasRow
        <3>3. CASE t = op.secret /\ v # op.new
            BY <3>3, <2>o DEF SecretSound, Loose
        <3> QED BY <3>1, <3>2, <3>3
    <2>5. CASE op.old = 0
        BY <1>6, <2>o, <2>2, <2>4, <2>5, <1>n, <1>u
        DEF CommitSecret, Sound, Tidy, Busy
    <2>6. CASE op.old # 0
        <3>1. /\ op'.step = "clean" /\ op'.secret = op.secret /\ op'.new = op.new
              /\ op'.old = op.old /\ op' # Free
            <4>1. op' = [op EXCEPT !.step = "clean"]
                BY <1>6, <2>6 DEF CommitSecret
            <4>2. op' \in SecretOp
                BY <2>o, <4>1 DEF SecretOp
            <4> QED BY <2>o, <4>1, <4>2, Special DEF SecretOp
        <3>2. HasRow(db', op.secret) => db'.secrets[op.secret].version # op.old
            BY <2>o, <2>1 DEF HasRow, SecretShape
        <3> QED BY <2>o, <2>2, <2>4, <3>1, <3>2, <1>u DEF SecretSound, Loose
    <2> QED BY <2>5, <2>6
<1>7. CASE CommitFails
    <2>o. /\ op \in SecretOp /\ op.step = "commit" /\ SecretShape /\ SecretSound
          /\ files' = files /\ db' = db /\ db \in Db /\ op.secret \in Secrets
        BY <1>7, <1>o DEF CommitFails, Doing, SecretOp
    <2>1. CASE op.new = 0
        BY <1>7, <2>o, <2>1, <1>n, <1>u
        DEF CommitFails, SecretSound, Loose, Sound, Tidy, Busy
    <2>2. CASE op.new # 0
        <3>1. /\ op'.step = "undo" /\ op'.secret = op.secret /\ op'.new = op.new
              /\ op'.old = op.old /\ op' # Free
            <4>1. op' = [op EXCEPT !.step = "undo"]
                BY <1>7, <2>2 DEF CommitFails
            <4>2. op' \in SecretOp
                BY <2>o, <4>1 DEF SecretOp
            <4> QED BY <2>o, <4>1, <4>2, Special DEF SecretOp
        <3>2. HasRow(db, op.secret) => db.secrets[op.secret].version # op.new
            BY <2>o, <2>2 DEF SecretSound, SecretShape
        <3> QED BY <2>o, <3>1, <3>2, <1>u DEF SecretSound, Loose
    <2> QED BY <2>1, <2>2
<1>8. CASE RemoveFile
    <2> DEFINE gone == IF op.step = "clean" THEN op.old ELSE op.new
    <2>o. /\ op \in SecretOp /\ op.step \in {"clean", "undo"} /\ SecretSound
          /\ op' = Free /\ db' = db /\ db \in Db /\ files \in Files
          /\ op.secret \in Secrets /\ gone \in Versions
        BY <1>8, <1>o DEF RemoveFile, SecretShape, SecretOp, Versions
    <2>1. /\ files'[<<op.secret, gone>>] = Missing
          /\ \A t \in Secrets, v \in Versions :
                 t # op.secret \/ v # gone => files'[<<t, v>>] = files[<<t, v>>]
        BY <1>8, <2>o DEF RemoveFile, Files
    <2>2. \A v : Loose(v) <=> v = gone
        BY <2>o DEF Loose
    <2>3. Readable(db, files')
        BY <2>o, <2>1, <2>2, <1>v DEF SecretSound, Readable
    <2>4. Tidy(db, files', interrupted)
        BY <2>o, <2>1, <2>2 DEF SecretSound, Tidy
    <2> QED BY <2>o, <2>3, <2>4, <1>u DEF Sound, Busy
<1> QED
    BY <1>1, <1>2, <1>3, <1>4, <1>5, <1>6, <1>7, <1>8 DEF SecretStep, Busy

LEMMA BackupSounds ==
    ASSUME StoreTypeOK, StoreTypeOK', StoreShape, SafetyCopyKept, StateSound, ~broken,
           \/ \E store \in Stores, b \in BackupIds \cup {Nothing} : BeginBackup(store, b)
           \/ BackupStep
    PROVE  StateSound'
<1>u. interrupted' = interrupted
    BY DEF BeginBackup, BackupStep, SnapshotDatabase, CopySecrets, BackupFails,
           PublishBackup, TrimBackup, TrimFails, EndBackup, MoveDatabase, MoveSecrets,
           InstallDatabase, InstallSecrets, ClearSessions, RestoreFails,
           BeginDeleteBackup, DeleteBackup, NotBackups
<1>b. Busy("backup") =>
          /\ op \in BackupOp /\ ~Restoring /\ ~Busy("secret")
          /\ db \in Db /\ files \in Files /\ Sound(db, files, interrupted)
    BY OpOf, OneOp DEF StateSound, StoreShape
<1>r. Restoring =>
          /\ op \in RestoreOp /\ RestoreShape
          /\ Exists(op.source) /\ backups[op.source].whole
          /\ Sound(backups[op.source].db, backups[op.source].files, interrupted)
          /\ Sound(Before.db, Before.files, interrupted)
    BY OpOf DEF StateSound, StoreShape, SafetyCopyKept, RestoreOp
<1>c. ASSUME NEW b \in BackupIds, Exists(b)', backups'[b].whole
      PROVE  Sound(backups'[b].db, backups'[b].files, interrupted)
    <2>d. ASSUME NEW c \in BackupIds, Exists(c), Dwindle(c)
          PROVE  backups'[b] = backups[b]
        <3>1. backups[c] \in Backup
            BY <2>d DEF Exists, StoreTypeOK
        <3>2. b # c
            BY <1>c, <2>d, <3>1 DEF Dwindle, Exists, StoreTypeOK, Backup
        <3> QED BY <2>d, <3>2 DEF Dwindle, StoreTypeOK
    <2>1. CASE backups'[b] = backups[b]
        BY <1>c, <2>1 DEF StateSound, Exists
    <2>2. CASE PublishBackup
        <3>1. op \in BackupOp /\ op.db = db /\ op.files = files
            BY <2>2, <1>b DEF PublishBackup, Doing, StoreShape, BackupShape
        <3>2. b # op.id => backups'[b] = backups[b]
            BY <2>2 DEF PublishBackup, StoreTypeOK
        <3>3. b = op.id => backups'[b].db = db /\ backups'[b].files = files
            BY <2>2, <3>1 DEF PublishBackup, StoreTypeOK, BackupOp
        <3> QED BY <2>1, <2>2, <1>b, <3>2, <3>3 DEF PublishBackup, Doing
    <2>3. ASSUME NEW c \in BackupIds, TrimBackup(c)
          PROVE  backups'[b] = backups[b]
        BY <2>d, <2>3 DEF TrimBackup
    <2>4. CASE DeleteBackup
        BY <2>1, <2>d, <2>4 DEF DeleteBackup, StoreTypeOK
    <2> QED
        BY <2>1, <2>2, <2>3, <2>4
        DEF BeginBackup, BackupStep, SnapshotDatabase, CopySecrets, BackupFails,
            TrimFails, EndBackup, MoveDatabase, MoveSecrets, InstallDatabase,
            InstallSecrets, ClearSessions, RestoreFails, BeginDeleteBackup
<1>f. ASSUME op' = Free, Sound(db', files', interrupted)
      PROVE  StateSound'
    BY <1>f, <1>c, <1>u DEF StateSound, Busy, Restoring
<1>g. ASSUME Busy("backup"), op' \in BackupOp, db' = db, files' = files
      PROVE  StateSound'
    <2>1. Busy("backup")' /\ ~Restoring' /\ ~Busy("secret")'
        BY <1>g, Special DEF Busy, Restoring, BackupOp
    <2> QED BY <1>g, <1>b, <1>c, <1>u, <2>1, Special DEF StateSound
<1>1. ASSUME NEW store \in Stores, NEW b \in BackupIds \cup {Nothing},
             BeginBackup(store, b)
      PROVE  StateSound'
    <2>1. Busy("backup")' \/ op' = Free
        BY <1>1 DEF BeginBackup, Busy
    <2>2. ~Restoring' /\ ~Busy("secret")'
        BY <1>1 DEF BeginBackup, Restoring, Busy
    <2>3. Sound(db', files', interrupted)
        BY <1>1 DEF BeginBackup, StateSound
    <2> QED BY <1>c, <1>u, <2>2, <2>3 DEF StateSound
<1>2. CASE SnapshotDatabase \/ CopySecrets \/ PublishBackup
    <2>1. Busy("backup") /\ op \in BackupOp /\ db' = db /\ files' = files
        BY <1>2, <1>b DEF SnapshotDatabase, CopySecrets, PublishBackup, Doing
    <2>2. Excess(Protected(op)) \in SUBSET BackupIds
        BY DEF Excess
    <2>3. op' \in BackupOp
        BY <1>2, <1>b, <2>1, <2>2
        DEF SnapshotDatabase, CopySecrets, PublishBackup, BackupOp
    <2> QED BY <1>g, <2>1, <2>3
<1>3. ASSUME BackupFails \/ (\E b \in BackupIds : TrimFails(b))
      PROVE  StateSound'
    BY <1>3, <1>b, <1>f DEF BackupFails, TrimFails, Doing
<1>4. ASSUME NEW b \in BackupIds, TrimBackup(b)
      PROVE  StateSound'
    <2>1. Busy("backup") /\ op \in BackupOp /\ db' = db /\ files' = files
        BY <1>4, <1>b DEF TrimBackup, Doing
    <2>2. op' \in BackupOp
        BY <1>4, <2>1 DEF TrimBackup, BackupOp
    <2> QED BY <1>g, <2>1, <2>2
<1>5. CASE EndBackup
    <2>1. Sound(db', files', interrupted)
        BY <1>5, <1>b DEF EndBackup, Doing
    <2>2. CASE op' = Free
        BY <1>f, <2>1, <2>2
    <2>3. CASE op' # Free
        <3>1. op'.kind = "restore" /\ op'.oldDb = Nothing /\ op'.oldFiles = Nothing
            BY <1>5, <2>3 DEF EndBackup
        <3>2. Before' = [db |-> db', files |-> files']
            BY <3>1 DEF Before
        <3> QED BY <1>c, <1>u, <2>1, <2>3, <3>1, <3>2 DEF StateSound, Busy
    <2> QED BY <2>2, <2>3
<1>6. CASE MoveDatabase \/ MoveSecrets \/ InstallDatabase \/ InstallSecrets
    <2>1. Restoring' /\ Before' = Before /\ Restoring
        BY <1>6, SwapKeeps
    <2> QED BY <1>c, <1>r, <1>u, <2>1 DEF StateSound, Restoring, Busy
<1>7. CASE ClearSessions
    <2>1. /\ Restoring /\ op.source \in BackupIds /\ files' = files
          /\ db = backups[op.source].db /\ files = backups[op.source].files
        BY <1>7, <1>r DEF ClearSessions, Doing, Restoring, RestoreShape, RestoreOp
    <2>2. db \in Db
        BY <2>1, <1>r DEF Exists, StoreTypeOK, Backup
    <2>3. db'.secrets = db.secrets
        BY <1>7, <2>2 DEF ClearSessions, Db
    <2>4. Sound(db, files, interrupted)
        BY <1>r, <2>1
    <2>5. Sound(db', files', interrupted)
        BY <2>1, <2>3, <2>4, SoundSame
    <2> QED BY <1>7, <1>f, <1>u, <2>5 DEF ClearSessions
<1>8. CASE RestoreFails
    BY <1>8, <1>f, <1>r DEF RestoreFails, Before
<1>9. ASSUME DeleteBackup \/ (\E b \in BackupIds : BeginDeleteBackup(b))
      PROVE  StateSound'
    <2>1. UNCHANGED <<db, files, op, interrupted>> /\ broken' = broken
        BY <1>9, <1>u DEF DeleteBackup, BeginDeleteBackup
    <2>2. Before' = Before
        BY <2>1 DEF Before
    <2>3. SecretSound => SecretSound'
        BY <2>1 DEF SecretSound, Loose, HasRow, Readable
    <2> QED BY <1>c, <1>u, <2>1, <2>2, <2>3 DEF StateSound, Busy, Restoring
<1> QED
    BY <1>1, <1>2, <1>3, <1>4, <1>5, <1>6, <1>7, <1>8, <1>9 DEF BackupStep

LEMMA CrashSounds ==
    ASSUME StoreTypeOK, StoreShape, StateSound, Crash
    PROVE  StateSound'
<1> SUFFICES ASSUME ~broken'
             PROVE  StateSound'
    BY DEF StateSound
<1>0. /\ ~broken /\ ~Swapping /\ op' = Free /\ backups' = backups
      /\ interrupted \subseteq interrupted'
    BY DEF Crash
<1>b. ASSUME NEW b \in BackupIds, Exists(b)', backups'[b].whole
      PROVE  Sound(backups'[b].db, backups'[b].files, interrupted')
    BY <1>0, <1>b, SoundSame DEF StateSound, Exists
<1>1. Sound(db', files', interrupted')
    <2>1. CASE Busy("secret")
        <3>1. /\ op \in SecretOp /\ db \in Db /\ files \in Files /\ SecretSound
              /\ SecretShape /\ db' = db
            BY <1>0, <2>1, OpOf, OneOp, Special DEF StateSound, StoreShape, Crash
        <3>2. interrupted' = interrupted \cup {op.secret}
            BY <2>1 DEF Crash
        <3>3. \A t \in Secrets, v \in Versions :
                  /\ t # op.secret => files'[<<t, v>>] = files[<<t, v>>]
                  /\ op.step # "write" \/ v # op.new =>
                         files'[<<t, v>>] = files[<<t, v>>]
            <4>1. CASE files' = files
                BY <4>1
            <4>2. CASE /\ Doing("secret", "write")
                       /\ files' = [files EXCEPT ![<<op.secret, op.new>>] = Torn]
                BY <3>1, <4>2 DEF Files, Doing
            <4> QED BY <3>1, <4>1, <4>2, Special DEF Crash
        <3>4. \A s \in Secrets : HasRow(db, s) => db.secrets[s].version \in Versions
            BY <3>1 DEF HasRow, Db, SecretRow
        <3>5. op.step = "write" /\ HasRow(db, op.secret) =>
                  db.secrets[op.secret].version # op.new
            BY <3>1 DEF SecretSound, SecretShape
        <3>6. Readable(db, files')
            BY <3>1, <3>3, <3>4, <3>5 DEF SecretSound, Readable
        <3>7. Tidy(db, files', interrupted')
            BY <3>1, <3>2, <3>3 DEF SecretSound, Tidy
        <3> QED BY <3>1, <3>6, <3>7 DEF Sound
    <2>2. CASE ~Busy("secret")
        <3>1. db \in Db /\ files \in Files /\ Sound(db, files, interrupted)
            <4>1. CASE Restoring
                BY <1>0, <4>1
                DEF Swapping, StateSound, StoreShape, RestoreShape, Before
            <4>2. CASE ~Restoring
                BY <1>0, <2>2, <4>2, OpOf DEF StateSound, StoreShape
            <4> QED BY <4>1, <4>2
        <3>2. db' = db /\ files' = files
            BY <2>2, <3>1, Special DEF Crash, Doing
        <3> QED BY <1>0, <3>1, <3>2, SoundSame
    <2> QED BY <2>1, <2>2
<1> QED BY <1>0, <1>b, <1>1 DEF StateSound, Busy, Restoring

LEMMA SoundStep ==
    ASSUME StoreTypeOK, StoreTypeOK', StoreShape, SafetyCopyKept, AllKnown, StateSound,
           [StoreNext]_storeVars
    PROVE  StateSound'
<1>1. CASE SecretStep
    <2>1. UNCHANGED <<backups, interrupted, broken>>
        BY <1>1
        DEF SecretStep, CreateSecret, RotateSecret, DeleteSecret, WriteFile, WriteFails,
            CommitSecret, CommitFails, RemoveFile, NotSecrets
    <2>2. Busy("secret")' \/ op' = Free
        BY <1>1, OpOf
        DEF SecretStep, CreateSecret, RotateSecret, DeleteSecret, WriteFile, WriteFails,
            CommitSecret, CommitFails, RemoveFile, Doing, Busy, SecretOp
    <2>3. ~Busy("backup")' /\ ~Restoring'
        BY <2>2 DEF Busy, Restoring
    <2> QED BY <1>1, <2>1, <2>2, <2>3, SecretSounds DEF StateSound, Exists, Busy
<1>2. ASSUME NEW i \in Sessions, Login(i) \/ Logout(i)
      PROVE  StateSound'
    <2>1. /\ op = Free /\ op' = Free
          /\ UNCHANGED <<files, backups, interrupted, broken>>
        BY <1>2 DEF Login, Logout, NotSecrets
    <2>2. db \in Db
        BY <2>1 DEF StoreShape, Restoring, Busy
    <2>3. db'.secrets = db.secrets
        BY <1>2, <2>2 DEF Login, Logout, Db
    <2> QED BY <2>1, <2>3, SoundSame DEF StateSound, Busy, Restoring, Exists
<1>3. ASSUME \/ \E store \in Stores, b \in BackupIds \cup {Nothing} :
                    BeginBackup(store, b)
             \/ BackupStep
      PROVE  StateSound'
    <2>1. broken' = broken
        BY <1>3
        DEF BeginBackup, BackupStep, SnapshotDatabase, CopySecrets, BackupFails,
            PublishBackup, TrimBackup, TrimFails, EndBackup, MoveDatabase, MoveSecrets,
            InstallDatabase, InstallSecrets, ClearSessions, RestoreFails,
            BeginDeleteBackup, DeleteBackup
    <2> QED BY <1>3, <2>1, BackupSounds DEF StateSound
<1>4. CASE Crash
    BY <1>4, CrashSounds
<1>5. CASE UNCHANGED storeVars
    BY <1>5
    DEF storeVars, StateSound, SecretSound, Loose, Before, Exists, Busy, Restoring
<1> QED BY <1>1, <1>2, <1>3, <1>4, <1>5 DEF StoreNext

-----------------------------------------------------------------------------

\* No snapshot brings back a session that was ended.
LEMMA SessionsStep ==
    ASSUME StoreTypeOK, StoreShape, SafetyCopyKept, AllKnown, SessionsSound,
           [StoreNext]_storeVars
    PROVE  SessionsSound'
<1> SUFFICES ASSUME ~broken'
             PROVE  SessionsSound'
    BY DEF SessionsSound
<1>d. ~Restoring => db \in Db
    BY DEF StoreShape
<1>k. ASSUME ~Restoring', ~broken, ~Restoring, db'.sessions = db.sessions,
             revoked' = revoked
      PROVE  SessionsSound'
    BY <1>k DEF SessionsSound
<1>1. CASE SecretStep
    <2>1. ~Restoring' /\ ~broken /\ ~Restoring /\ revoked' = revoked
        BY <1>1, OpOf, OneOp
        DEF SecretStep, CreateSecret, RotateSecret, DeleteSecret, WriteFile, WriteFails,
            CommitSecret, CommitFails, RemoveFile, Doing, Busy, Restoring, SecretOp,
            NotSecrets
    <2>2. db'.sessions = db.sessions
        BY <1>1, <1>d, <2>1
        DEF SecretStep, CreateSecret, RotateSecret, DeleteSecret, WriteFile, WriteFails,
            CommitSecret, CommitFails, RemoveFile, Db
    <2> QED BY <1>k, <2>1, <2>2
<1>2. ASSUME NEW i \in Sessions, Login(i)
      PROVE  SessionsSound'
    <2>1. ~Restoring /\ ~Restoring' /\ ~broken /\ revoked' = revoked /\ i \notin revoked
        BY <1>2 DEF Login, NotSecrets, Restoring, Busy, AllKnown
    <2>2. db'.sessions = db.sessions \cup {i}
        BY <1>2, <1>d, <2>1 DEF Login, Db
    <2> QED BY <2>1, <2>2 DEF SessionsSound
<1>3. ASSUME NEW i \in Sessions, Logout(i)
      PROVE  SessionsSound'
    <2>1. ~Restoring /\ ~Restoring' /\ ~broken /\ revoked' = revoked \cup {i}
        BY <1>3 DEF Logout, Restoring, Busy
    <2>2. db'.sessions = db.sessions \ {i}
        BY <1>3, <1>d, <2>1 DEF Logout, Db
    <2> QED BY <2>1, <2>2 DEF SessionsSound
<1>4. CASE ClearSessions
    <2>1. Restoring /\ RestoreShape /\ op \in RestoreOp /\ op' = Free
        BY <1>4, OpOf DEF ClearSessions, Doing, Restoring, StoreShape
    <2>2. db \in Db
        BY <1>4, <2>1
        DEF ClearSessions, Doing, RestoreShape, SafetyCopyKept, Exists, RestoreOp,
            Backup, StoreTypeOK
    <2>3. db'.sessions = {}
        BY <1>4, <2>2 DEF ClearSessions, Db
    <2> QED BY <2>1, <2>3 DEF SessionsSound, Restoring, Busy
<1>5. CASE RestoreFails
    BY <1>5 DEF RestoreFails, SessionsSound, Before, Restoring, Busy
<1>6. CASE MoveDatabase \/ MoveSecrets \/ InstallDatabase \/ InstallSecrets
    <2>1. Restoring /\ Restoring' /\ Before' = Before
        BY <1>6, SwapKeeps
    <2>2. revoked' = revoked /\ ~broken
        BY <1>6 DEF MoveDatabase, MoveSecrets, InstallDatabase, InstallSecrets
    <2> QED BY <2>1, <2>2 DEF SessionsSound
<1>7. CASE EndBackup
    <2>1. ~Restoring /\ ~broken /\ revoked' = revoked /\ db' = db
        BY <1>7, OneOp DEF EndBackup, Doing
    <2>2. Restoring' => Before'.db = db
        BY <1>7, <2>1 DEF EndBackup, Restoring, Busy, Before
    <2> QED BY <2>1, <2>2 DEF SessionsSound
<1>8. ASSUME \/ \E store \in Stores, b \in BackupIds \cup {Nothing} :
                    BeginBackup(store, b)
             \/ SnapshotDatabase \/ CopySecrets \/ BackupFails \/ PublishBackup
             \/ \E b \in BackupIds : TrimBackup(b) \/ TrimFails(b)
      PROVE  SessionsSound'
    <2>1. ~Restoring /\ ~broken /\ revoked' = revoked /\ db' = db
        BY <1>8, OneOp
        DEF BeginBackup, SnapshotDatabase, CopySecrets, BackupFails, PublishBackup,
            TrimBackup, TrimFails, Doing, Restoring, Busy
    <2>2. op' = Free \/ op'.kind = "backup"
        <3>1. Busy("backup") => op \in BackupOp
            BY OpOf
        <3>2. CASE SnapshotDatabase \/ CopySecrets \/ PublishBackup
            BY <3>1, <3>2 DEF SnapshotDatabase, CopySecrets, PublishBackup, Doing, BackupOp
        <3>3. ASSUME NEW b \in BackupIds, TrimBackup(b)
              PROVE  op'.kind = "backup"
            BY <3>1, <3>3 DEF TrimBackup, Doing, BackupOp
        <3> QED BY <1>8, <3>2, <3>3 DEF BeginBackup, BackupFails, TrimFails
    <2>3. ~Restoring'
        BY <2>2 DEF Restoring, Busy
    <2> QED BY <1>k, <2>1, <2>3
<1>9. CASE DeleteBackup \/ \E b \in BackupIds : BeginDeleteBackup(b)
    <2>1. UNCHANGED <<db, files, op, revoked, broken>>
        BY <1>9 DEF DeleteBackup, BeginDeleteBackup
    <2> QED BY <2>1 DEF SessionsSound, Restoring, Busy, Before
<1>10. CASE Crash
    <2>1. ~broken /\ ~Swapping /\ op' = Free /\ revoked' = revoked
        BY <1>10 DEF Crash
    <2>2. db \in Db /\ (Restoring => Before.db = db)
        BY <2>1 DEF Swapping, StoreShape, RestoreShape, Before
    <2>3. db' = db
        BY <1>10, <2>2, Special DEF Crash
    <2> QED BY <2>1, <2>2, <2>3 DEF SessionsSound, Restoring, Busy
<1>11. CASE UNCHANGED storeVars
    BY <1>11 DEF storeVars, SessionsSound, Restoring, Busy, Before
<1> QED
    BY <1>1, <1>2, <1>3, <1>4, <1>5, <1>6, <1>7, <1>8, <1>9, <1>10, <1>11
    DEF StoreNext, BackupStep

-----------------------------------------------------------------------------

LEMMA StoreInvStart == StoreInit => StoreInv
<1> SUFFICES ASSUME StoreInit PROVE StoreInv
    OBVIOUS
<1> USE DEF StoreInit
<1>1. StoreTypeOK
    <2>1. issued \in 0..MaxBackups /\ crashesLeft \in 0..CrashLimit
        BY StoreAssumption
    <2>2. backups \in [BackupIds -> Backup \cup {NoBackup}]
        OBVIOUS
    <2> QED BY <2>1, <2>2, EmptyTyped DEF StoreTypeOK
<1>2. ~Restoring /\ ~Busy("secret") /\ ~Busy("backup") /\ \A b \in BackupIds : ~Exists(b)
    BY DEF Restoring, Busy, Exists
<1>3. StoreShape /\ SafetyCopyKept
    BY <1>2, EmptyTyped DEF StoreShape, SafetyCopyKept
<1>4. AllKnown
    BY <1>2 DEF AllKnown, Known, EmptyDb, HasRow
<1>5. Sound(db, files, interrupted)
    BY DEF Sound, Readable, Tidy, HasRow, EmptyDb, EmptyFiles
<1>6. StateSound /\ SessionsSound
    BY <1>2, <1>5 DEF StateSound, SessionsSound, EmptyDb
<1> QED BY <1>1, <1>3, <1>4, <1>6 DEF StoreInv

LEMMA StoreInvStep == StoreInv /\ [StoreNext]_storeVars => StoreInv'
BY ShapeStep, KnownStep, SoundStep, SessionsStep DEF StoreInv

\* The types, the shape of the operations under way, and what ties the database,
\* the value files and the snapshots together hold in every reachable state.
THEOREM StoreInvariant == StoreSpec => []StoreInv
BY StoreInvStart, StoreInvStep, PTL DEF StoreSpec

\* Every variable of the store stays within its type.
THEOREM StoreTypeCorrect == StoreSpec => []StoreTypeOK
<1>1. StoreInv => StoreTypeOK
    BY DEF StoreInv
<1> QED BY <1>1, StoreInvariant, PTL

\* Every secret record has its value file, whatever operation is under way and
\* wherever the process stopped, a swap of restore() excepted.
THEOREM StoreSecretsReadable == StoreSpec => []SecretsReadable
<1>1. StoreInv => SecretsReadable
    BY OpOf DEF StoreInv, StateSound, SecretsReadable, Sound, SecretSound
<1> QED BY <1>1, StoreInvariant, PTL

\* Every whole backup is a consistent snapshot of rows and value files.
THEOREM StoreSnapshotsConsistent == StoreSpec => []SnapshotsConsistent
<1>1. StoreInv => SnapshotsConsistent
    BY DEF StoreInv, StateSound, SnapshotsConsistent, Sound
<1> QED BY <1>1, StoreInvariant, PTL

\* Between operations there are no value files but those of current versions.
THEOREM StoreOnlyCurrentFiles == StoreSpec => []OnlyCurrentFiles
<1>1. StoreInv => OnlyCurrentFiles
    BY DEF StoreInv, StateSound, OnlyCurrentFiles, Sound
<1> QED BY <1>1, StoreInvariant, PTL

\* While restore() replaces the state, a whole backup holds what it replaces.
THEOREM StoreSafetyCopyKept == StoreSpec => []SafetyCopyKept
<1>1. StoreInv => SafetyCopyKept
    BY DEF StoreInv
<1> QED BY <1>1, StoreInvariant, PTL

\* No session that was ended is valid again after a restore.
THEOREM StoreRevokedStayRevoked == StoreSpec => []RevokedStayRevoked
<1>1. StoreInv => RevokedStayRevoked
    BY DEF StoreInv, SessionsSound, RevokedStayRevoked
<1> QED BY <1>1, StoreInvariant, PTL

\* restore() installs both parts of a backup, or leaves both parts as they were.
THEOREM StoreRestoreAllOrNothing == StoreSpec => RestoreAllOrNothing
<1> DEFINE Whole ==
        Restoring /\ op' = Free /\ crashesLeft' = crashesLeft =>
            \/ db' = Before.db /\ files' = Before.files
            \/ /\ db' = [backups[op.source].db EXCEPT !.sessions = {}]
               /\ files' = backups[op.source].files
<1>1. StoreInv /\ [StoreNext]_storeVars => [Whole]_storeVars
    <2> SUFFICES ASSUME StoreInv, StoreNext, Restoring, op' = Free,
                        crashesLeft' = crashesLeft
                 PROVE  Whole
        BY DEF storeVars
    <2>0. op # Free /\ op \in RestoreOp /\ RestoreShape /\ ~Busy("secret")
          /\ ~Busy("backup")
        BY OpOf, OneOp, Special DEF StoreInv, StoreShape
    <2>1. ~(MoveDatabase \/ MoveSecrets \/ InstallDatabase \/ InstallSecrets)
        <3>1. Restoring' => op' # Free
            BY DEF Restoring, Busy
        <3> QED BY <3>1, SwapKeeps DEF StoreInv
    <2>2. ClearSessions \/ RestoreFails \/ Crash
        BY <2>0, <2>1
        DEF StoreNext, SecretStep, CreateSecret, RotateSecret, DeleteSecret, WriteFile,
            WriteFails, CommitSecret, CommitFails, RemoveFile, Login, Logout, NotSecrets,
            BeginBackup, BackupStep, SnapshotDatabase, CopySecrets, BackupFails,
            PublishBackup, TrimBackup, TrimFails, EndBackup, BeginDeleteBackup,
            DeleteBackup, Doing
    <2>3. CASE ClearSessions
        BY <2>0, <2>3 DEF ClearSessions, Doing, RestoreShape
    <2>4. CASE RestoreFails
        BY <2>4 DEF RestoreFails, Before
    <2>5. ~Crash
        BY StoreAssumption DEF Crash, StoreInv, StoreTypeOK
    <2> QED BY <2>2, <2>3, <2>4, <2>5
<1> QED BY <1>1, StoreInvariant, PTL DEF StoreSpec, RestoreAllOrNothing

-----------------------------------------------------------------------------
(* The scheduler.                                                          *)

\* An INSERT or UPDATE of one row, under the maintenance lock.
RowStep ==
    /\ op = Free
    /\ UNCHANGED RestOfStore
    /\ \E p \in Periods, state \in {"open", "success", "failed"} : SetRow(p, state)

\* The process stops while the store is at rest.
QuietStop == op = Free /\ deleting = Nothing /\ Crash

LEMMA Fresh ==
    /\ \A d \in 1..Days : d \in Periods
    /\ \A c \in Callers : c \in Periods
    /\ Nothing \notin Periods
    /\ Scheduler \in Runners /\ Callers \subseteq Runners
    /\ \A c \in Callers : c # Scheduler
    /\ Days \in Nat
BY RunsAssumption DEF Runners, Scheduler

\* What a step of the scheduler is to the store.
LEMMA StoreMoves ==
    ASSUME RunsTypeOK, RunShape, [Next]_vars
    PROVE  [StoreNext]_storeVars \/ RowStep \/ QuietStop
<1>1. CASE RunDue
    <2>1. today \in Periods
        BY <1>1, Fresh DEF RunDue, RunsTypeOK
    <2> QED BY <1>1, <2>1 DEF RunDue, RowStep
<1>2. CASE \E c \in Callers : RunNow(c)
    BY <1>2, Fresh DEF RunNow, RowStep
<1>3. CASE \E r \in Runners : RunCreate(r)
    <2>1. \E store \in Stores, b \in BackupIds \cup {Nothing} : BeginBackup(store, b)
        BY <1>3 DEF RunCreate, Stores
    <2> QED BY <2>1 DEF StoreNext
<1>4. CASE \E r \in Runners : Finish(r)
    <2>1. PICK r \in Runners : Finish(r)
        BY <1>4
    <2>2. runner[r].period \in Periods /\ runner[r].step \in {"success", "failed"}
        BY <2>1 DEF Finish, RunShape, Active
    <2>3. CASE UNCHANGED db
        BY <2>1, <2>3 DEF Finish, RestOfStore, storeVars
    <2>4. CASE SetRow(runner[r].period, runner[r].step)
        BY <2>1, <2>2, <2>4 DEF Finish, RowStep
    <2> QED BY <2>1, <2>3, <2>4 DEF Finish
<1>5. CASE StoreStep
    <2>1. ASSUME NEW b \in BackupIds \cup {Nothing}, BeginBackup("api", b)
          PROVE  StoreNext
        BY <2>1 DEF StoreNext, Stores
    <2> QED BY <1>5, <2>1 DEF StoreStep, StoreNext
<1>6. CASE Restart
    BY <1>6 DEF Restart, StoreNext, QuietStop
<1>7. CASE UNCHANGED storeVars
    BY <1>7
<1>8. CASE UNCHANGED vars
    BY <1>8 DEF vars
<1> QED
    BY <1>1, <1>2, <1>3, <1>4, <1>5, <1>6, <1>7, <1>8
    DEF Next, NextPeriod, RunDueRaises, RefuseRunNow, RunStep, RunCreateFails, SkipMirror,
        BeginMirror, CopyBackup, PublishMirror, MirrorFails, FinishRaises

\* What depends on the other tables of the database stays as it is.
LEMMA RowKeepsStore ==
    ASSUME StoreInv, RowStep
    PROVE  /\ StoreInv' /\ db \in Db /\ db' \in Db
           /\ db'.secrets = db.secrets /\ db'.sessions = db.sessions
<1>1. PICK p \in Periods, state \in {"open", "success", "failed"} : SetRow(p, state)
    BY DEF RowStep
<1>2. op = Free /\ UNCHANGED RestOfStore /\ op' = Free
    BY DEF RowStep, RestOfStore
<1>3. ~Restoring /\ ~Busy("secret") /\ ~Busy("backup")
    BY <1>2 DEF Restoring, Busy
<1>4. ~Restoring' /\ ~Busy("secret")' /\ ~Busy("backup")'
    BY <1>2 DEF Restoring, Busy
<1>5. db \in Db
    BY <1>3 DEF StoreInv, StoreShape
<1>6. /\ db' \in Db
      /\ db'.secrets = db.secrets /\ db'.sessions = db.sessions
    BY <1>1, <1>5 DEF SetRow, Db
<1>7. StoreTypeOK'
    BY <1>2, <1>6 DEF StoreInv, StoreTypeOK, RestOfStore
<1>8. StoreShape' /\ SafetyCopyKept'
    BY <1>2, <1>3, <1>4, <1>6
    DEF StoreInv, StoreShape, SafetyCopyKept, RestOfStore, Exists
<1>9. AllKnown'
    BY <1>2, <1>3, <1>4, <1>5, <1>6, Special
    DEF StoreInv, AllKnown, Known, HasRow, RestOfStore, Exists
<1>10. Sound(db, files, interrupted) => Sound(db', files', interrupted')
    BY <1>2, <1>6 DEF Sound, Readable, Tidy, HasRow, RestOfStore
<1>11. StateSound'
    BY <1>2, <1>3, <1>4, <1>10 DEF StoreInv, StateSound, RestOfStore, Exists
<1>12. SessionsSound'
    BY <1>2, <1>3, <1>4, <1>6 DEF StoreInv, SessionsSound, RestOfStore
<1> QED BY <1>5, <1>6, <1>7, <1>8, <1>9, <1>11, <1>12 DEF StoreInv

LEMMA QuietKeepsStore ==
    ASSUME StoreInv, QuietStop
    PROVE  StoreInv' /\ db' = db
<1>1. op = Free /\ op' = Free /\ deleting' = deleting /\ ~Restoring
    BY DEF QuietStop, Crash, Restoring, Busy
<1>2. db \in Db /\ files \in Files
    BY <1>1 DEF StoreInv, StoreShape
<1>3. /\ db' = db /\ files' = files
      /\ UNCHANGED <<backups, issued, made, revoked, interrupted, broken>>
    <2>1. db' = db
        BY <1>2, Special DEF QuietStop, Crash
    <2>2. files' = files
        BY <1>1, <1>2, Special DEF QuietStop, Crash, Doing, Busy
    <2>3. UNCHANGED <<backups, issued, made, revoked, interrupted>>
        BY <1>1 DEF QuietStop, Crash, Busy
    <2>4. broken \in BOOLEAN /\ ~Swapping
        BY <1>1 DEF StoreInv, StoreTypeOK, Swapping
    <2>5. broken' = broken
        BY <2>4 DEF QuietStop, Crash
    <2> QED BY <2>1, <2>2, <2>3, <2>5
<1>4. crashesLeft' \in 0..CrashLimit
    BY StoreAssumption DEF QuietStop, Crash, StoreInv, StoreTypeOK
<1>5. ~Restoring /\ ~Busy("secret") /\ ~Busy("backup")
    BY <1>1 DEF Restoring, Busy
<1>6. ~Restoring' /\ ~Busy("secret")' /\ ~Busy("backup")'
    BY <1>1 DEF Restoring, Busy
<1>7. StoreTypeOK'
    BY <1>1, <1>3, <1>4 DEF StoreInv, StoreTypeOK
<1>8. StoreShape' /\ SafetyCopyKept'
    BY <1>3, <1>5, <1>6 DEF StoreInv, StoreShape, SafetyCopyKept, Exists
<1>9. AllKnown'
    BY <1>3, <1>5, <1>6 DEF StoreInv, AllKnown, Exists
<1>10. StateSound' /\ SessionsSound'
    BY <1>1, <1>3, <1>5, <1>6 DEF StoreInv, StateSound, SessionsSound, Exists
<1> QED BY <1>3, <1>7, <1>8, <1>9, <1>10 DEF StoreInv

LEMMA StoreKept ==
    ASSUME StoreInv, RunsTypeOK, RunShape, [Next]_vars
    PROVE  StoreInv'
BY StoreMoves, StoreInvStep, RowKeepsStore, QuietKeepsStore
-----------------------------------------------------------------------------

Steps == {"idle", "begun", "create", "mirror", "copy", "publish", "success", "failed",
          "done", "refused", "dead"}

\* What the types say of one runner.
RunnerOK(q) ==
    /\ Active(q) => runner[q].period \in Periods
    /\ runner[q].step \in {"create", "mirror", "copy", "publish"} =>
           runner[q].backup \in BackupIds
    /\ ~Active(q) /\ runner[q].step # "dead" =>
           runner[q].period = Nothing /\ runner[q].backup = Nothing

LEMMA RunnersOK ==
    ASSUME RunsTypeOK, RunShape
    PROVE  \A q \in Runners : RunnerOK(q)
BY DEF RunsTypeOK, RunShape, RunnerOK

\* The runner r is as given, and the others stay as they are.
Becomes(r, step, period, backup, copied) ==
    /\ runner' \in [Runners -> Runner]
    /\ runner'[r].step = step
    /\ runner'[r].period = period
    /\ runner'[r].backup = backup
    /\ runner'[r].copied = copied
    /\ \A q \in Runners : q # r => runner'[q] = runner[q]

LEMMA RecordsTyped ==
    ASSUME NEW x \in Runner
    PROVE  /\ x.step \in Steps
           /\ x.period \in Periods \cup {Nothing}
           /\ x.backup \in BackupIds \cup {Nothing}
           /\ x.copied \in {"none", "part", "whole"}
BY DEF Runner, Steps

LEMMA ToBecomes ==
    ASSUME RunsTypeOK, NEW r \in Runners, NEW step \in Steps, To(r, step)
    PROVE  Becomes(r, step, runner[r].period, runner[r].backup, runner[r].copied)
<1>0. runner \in [Runners -> Runner] /\ runner[r] \in Runner
    BY DEF RunsTypeOK
<1> DEFINE one == [runner[r] EXCEPT !.step = step]
<1>1. /\ one \in Runner /\ one.step = step /\ one.period = runner[r].period
      /\ one.backup = runner[r].backup /\ one.copied = runner[r].copied
    BY <1>0 DEF Runner, Steps
<1> HIDE DEF one
<1>2. runner' = [runner EXCEPT ![r] = one]
    BY DEF To, one
<1> QED BY <1>0, <1>1, <1>2 DEF Becomes

LEMMA PeriodBecomes ==
    ASSUME RunsTypeOK, NEW r \in Runners, NEW step \in Steps, NEW v \in Periods,
           runner' = [runner EXCEPT ![r].step = step, ![r].period = v]
    PROVE  Becomes(r, step, v, runner[r].backup, runner[r].copied)
<1>0. runner \in [Runners -> Runner] /\ runner[r] \in Runner
    BY DEF RunsTypeOK
<1> DEFINE one == [runner[r] EXCEPT !.step = step]
           two == [one EXCEPT !.period = v]
<1>1. /\ one \in Runner /\ one.step = step
      /\ one.backup = runner[r].backup /\ one.copied = runner[r].copied
    BY <1>0 DEF Runner, Steps
<1> HIDE DEF one
<1>2. /\ two \in Runner /\ two.step = step /\ two.period = v
      /\ two.backup = one.backup /\ two.copied = one.copied
    BY <1>1 DEF Runner
<1> HIDE DEF two
<1>3. runner' = [runner EXCEPT ![r] = two]
    BY <1>0 DEF one, two
<1> QED BY <1>0, <1>1, <1>2, <1>3 DEF Becomes

LEMMA BackupBecomes ==
    ASSUME RunsTypeOK, NEW r \in Runners, NEW step \in Steps, NEW v \in BackupIds,
           runner' = [runner EXCEPT ![r].step = step, ![r].backup = v]
    PROVE  Becomes(r, step, runner[r].period, v, runner[r].copied)
<1>0. runner \in [Runners -> Runner] /\ runner[r] \in Runner
    BY DEF RunsTypeOK
<1> DEFINE one == [runner[r] EXCEPT !.step = step]
           two == [one EXCEPT !.backup = v]
<1>1. /\ one \in Runner /\ one.step = step
      /\ one.period = runner[r].period /\ one.copied = runner[r].copied
    BY <1>0 DEF Runner, Steps
<1> HIDE DEF one
<1>2. /\ two \in Runner /\ two.step = step /\ two.backup = v
      /\ two.period = one.period /\ two.copied = one.copied
    BY <1>1 DEF Runner
<1> HIDE DEF two
<1>3. runner' = [runner EXCEPT ![r] = two]
    BY <1>0 DEF one, two
<1> QED BY <1>0, <1>1, <1>2, <1>3 DEF Becomes

LEMMA CopiedBecomes ==
    ASSUME RunsTypeOK, NEW r \in Runners, NEW step \in Steps, NEW v \in {"part", "whole"},
           runner' = [runner EXCEPT ![r].step = step, ![r].copied = v]
    PROVE  Becomes(r, step, runner[r].period, runner[r].backup, v)
<1>0. runner \in [Runners -> Runner] /\ runner[r] \in Runner
    BY DEF RunsTypeOK
<1> DEFINE one == [runner[r] EXCEPT !.step = step]
           two == [one EXCEPT !.copied = v]
<1>1. /\ one \in Runner /\ one.step = step
      /\ one.period = runner[r].period /\ one.backup = runner[r].backup
    BY <1>0 DEF Runner, Steps
<1> HIDE DEF one
<1>2. /\ two \in Runner /\ two.step = step /\ two.copied = v
      /\ two.period = one.period /\ two.backup = one.backup
    BY <1>1 DEF Runner
<1> HIDE DEF two
<1>3. runner' = [runner EXCEPT ![r] = two]
    BY <1>0 DEF one, two
<1> QED BY <1>0, <1>1, <1>2, <1>3 DEF Becomes

\* A run that waits for its backup goes on when the store is done with one.
LEMMA FollowMoves ==
    ASSUME RunsTypeOK, FollowBackup
    PROVE  /\ runner' \in [Runners -> Runner]
           /\ \A q \in Runners :
                  /\ runner'[q].period = runner[q].period
                  /\ runner'[q].backup = runner[q].backup
                  /\ runner'[q].copied = runner[q].copied
                  /\ \/ runner'[q].step = runner[q].step
                     \/ /\ runner[q].step = "create"
                        /\ runner'[q].step \in {"mirror", "failed"}
<1>1. \A q \in Runners :
          /\ runner'[q] \in Runner
          /\ runner'[q].period = runner[q].period
          /\ runner'[q].backup = runner[q].backup
          /\ runner'[q].copied = runner[q].copied
          /\ \/ runner'[q].step = runner[q].step
             \/ runner[q].step = "create" /\ runner'[q].step \in {"mirror", "failed"}
    <2> SUFFICES ASSUME NEW q \in Runners
                 PROVE  /\ runner'[q] \in Runner
                        /\ runner'[q].period = runner[q].period
                        /\ runner'[q].backup = runner[q].backup
                        /\ runner'[q].copied = runner[q].copied
                        /\ \/ runner'[q].step = runner[q].step
                           \/ /\ runner[q].step = "create"
                              /\ runner'[q].step \in {"mirror", "failed"}
        OBVIOUS
    <2>1. runner[q] \in Runner
        BY DEF RunsTypeOK
    <2>2. \/ runner'[q] = runner[q]
          \/ /\ runner[q].step = "create"
             /\ runner'[q] = [runner[q] EXCEPT !.step = "mirror"]
          \/ /\ runner[q].step = "create"
             /\ runner'[q] = [runner[q] EXCEPT !.step = "failed"]
        BY DEF FollowBackup
    <2> QED BY <2>1, <2>2 DEF Runner
<1>2. runner' = [q \in Runners |-> runner'[q]]
    BY DEF FollowBackup
<1>3. runner' \in [Runners -> Runner]
    BY <1>1, <1>2
<1> QED BY <1>1, <1>3

LEMMA IdleTyped ==
    /\ Idle \in Runner /\ [Idle EXCEPT !.step = "done"] \in Runner
    /\ Idle.step = "idle" /\ [Idle EXCEPT !.step = "done"].step = "done"
    /\ Idle.period = Nothing /\ [Idle EXCEPT !.step = "done"].period = Nothing
    /\ Idle.backup = Nothing /\ [Idle EXCEPT !.step = "done"].backup = Nothing
BY DEF Idle, Runner

\* Whatever has ended, or been stopped, holds nothing.
LEMMA RestartMoves ==
    ASSUME Restart
    PROVE  /\ runner' \in [Runners -> Runner]
           /\ \A q \in Runners :
                  /\ runner'[q].step \in {"idle", "done"}
                  /\ runner'[q].period = Nothing
                  /\ runner'[q].backup = Nothing
<1>1. runner' = [r \in Runners |->
                     IF r = Scheduler \/ runner[r].step = "idle" THEN Idle
                     ELSE [Idle EXCEPT !.step = "done"]]
    BY DEF Restart
<1> HIDE DEF Idle
<1>2. \A q \in Runners : runner'[q] \in {Idle, [Idle EXCEPT !.step = "done"]}
    BY <1>1
<1>3. runner' \in [Runners -> Runner]
    BY <1>1, IdleTyped
<1> QED BY <1>2, <1>3, IdleTyped

LEMMA FinishMoves ==
    ASSUME RunsTypeOK, NEW r \in Runners, Finish(r)
    PROVE  /\ runner' \in [Runners -> Runner]
           /\ runner'[r].step \in {"idle", "done"}
           /\ runner'[r].period = Nothing
           /\ runner'[r].backup = Nothing
           /\ \A q \in Runners : q # r => runner'[q] = runner[q]
<1>1. runner' = [runner EXCEPT ![r] = Ended(r)]
    BY DEF Finish
<1>2. Ended(r) \in {Idle, [Idle EXCEPT !.step = "done"]}
    BY DEF Ended
<1>3. /\ Ended(r) \in Runner /\ Ended(r).step \in {"idle", "done"}
      /\ Ended(r).period = Nothing /\ Ended(r).backup = Nothing
    BY <1>2, IdleTyped
<1> QED BY <1>1, <1>3 DEF RunsTypeOK
-----------------------------------------------------------------------------

\* The rest of RunsTypeOK.
PlainTypes ==
    /\ today \in 0..Days
    /\ external \in [BackupIds -> {"none", "part", "whole"}]
    /\ begun \in [1..Days -> Nat]
    /\ restored \in BOOLEAN

\* A step of one runner that leaves its record typed.
LEMMA OneRunner ==
    ASSUME RunsTypeOK, RunShape, NEW r \in Runners,
           NEW step, NEW period, NEW backup, NEW copied,
           Becomes(r, step, period, backup, copied),
           step \notin {"idle", "done", "refused", "dead"} => period \in Periods,
           step \in {"create", "mirror", "copy", "publish"} => backup \in BackupIds,
           step \in {"idle", "done", "refused"} =>
               period = Nothing /\ backup = Nothing
    PROVE  runner' \in [Runners -> Runner] /\ \A q \in Runners : RunnerOK(q)'
<1>1. runner' \in [Runners -> Runner]
    BY DEF Becomes
<1>2. runner'[r].step \in Steps
    BY <1>1, RecordsTyped
<1>3. RunnerOK(r)'
    BY <1>2 DEF RunnerOK, Active, Becomes, Steps
<1>4. ASSUME NEW q \in Runners, q # r
      PROVE  RunnerOK(q)'
    BY <1>4, RunnersOK DEF RunnerOK, Active, Becomes
<1> QED BY <1>1, <1>3, <1>4

LEMMA RunTypes ==
    ASSUME StoreInv, RunsTypeOK, RunShape, [Next]_vars
    PROVE  RunsTypeOK' /\ RunShape'
<1> SUFFICES /\ runner' \in [Runners -> Runner]
             /\ PlainTypes'
             /\ \A q \in Runners : RunnerOK(q)'
    BY DEF RunsTypeOK, PlainTypes, RunShape, RunnerOK
<1>t. runner \in [Runners -> Runner] /\ PlainTypes /\ \A q \in Runners : RunnerOK(q)
    BY RunnersOK DEF RunsTypeOK, PlainTypes
<1>r. \A q \in Runners : runner[q] \in Runner
    BY <1>t
<1>1. CASE UNCHANGED runner /\ UNCHANGED <<external, begun, restored>> /\ today' \in 0..Days
    BY <1>t, <1>1 DEF PlainTypes, RunnerOK, Active
<1>2. CASE NextPeriod
    <2>1. today' \in 0..Days
        BY <1>t, <1>2, Fresh DEF NextPeriod, PlainTypes
    <2> QED BY <1>1, <1>2, <2>1 DEF NextPeriod
<1>3. CASE RunDue
    <2>1. today \in 1..Days /\ today \in Periods /\ Scheduler \in Runners
        BY <1>t, <1>3, Fresh DEF RunDue, PlainTypes
    <2>2. Becomes(Scheduler, "begun", today, runner[Scheduler].backup,
                  runner[Scheduler].copied)
        BY <1>3, <2>1, PeriodBecomes DEF RunDue, Steps
    <2>3. runner' \in [Runners -> Runner] /\ \A q \in Runners : RunnerOK(q)'
        BY <2>1, <2>2, OneRunner
    <2>4. begun' \in [1..Days -> Nat]
        BY <1>t, <1>3, <2>1 DEF RunDue, PlainTypes
    <2> QED BY <1>t, <1>3, <2>3, <2>4 DEF RunDue, PlainTypes
<1>4. CASE \E c \in Callers : RunNow(c)
    <2>1. PICK c \in Callers : RunNow(c)
        BY <1>4
    <2>2. c \in Periods /\ c \in Runners
        BY Fresh
    <2>3. Becomes(c, "begun", c, runner[c].backup, runner[c].copied)
        BY <2>1, <2>2, PeriodBecomes DEF RunNow, Steps
    <2>4. runner' \in [Runners -> Runner] /\ \A q \in Runners : RunnerOK(q)'
        BY <2>2, <2>3, OneRunner
    <2> QED BY <1>t, <2>1, <2>4 DEF RunNow, PlainTypes
<1>5. CASE \E r \in Runners : RunCreate(r)
    <2>1. PICK r \in Runners : RunCreate(r)
        BY <1>5
    <2>2. issued + 1 \in BackupIds
        BY <2>1, StoreAssumption
        DEF RunCreate, BeginBackup, StoreInv, StoreTypeOK, BackupIds
    <2>3. runner[r].period \in Periods
        BY <2>1 DEF RunCreate, RunShape, Active
    <2>4. Becomes(r, "create", runner[r].period, issued + 1, runner[r].copied)
        BY <2>1, <2>2, BackupBecomes DEF RunCreate, Steps
    <2>5. runner' \in [Runners -> Runner] /\ \A q \in Runners : RunnerOK(q)'
        BY <2>2, <2>3, <2>4, OneRunner
    <2> QED BY <1>t, <2>1, <2>5 DEF RunCreate, PlainTypes
<1>6. ASSUME NEW r \in Runners, NEW step \in {"copy", "success", "failed", "dead", "refused"},
             To(r, step),
             step = "copy" => runner[r].step = "mirror",
             step = "refused" => runner[r].step = "idle",
             step \in {"copy", "success", "failed"} => Active(r)
      PROVE  runner' \in [Runners -> Runner] /\ \A q \in Runners : RunnerOK(q)'
    <2>1. step \in Steps
        BY DEF Steps
    <2>2. Becomes(r, step, runner[r].period, runner[r].backup, runner[r].copied)
        BY <1>6, <2>1, ToBecomes
    <2>3. step \in {"copy", "success", "failed"} => runner[r].period \in Periods
        BY <1>6 DEF RunShape
    <2>4. step = "copy" => runner[r].backup \in BackupIds
        BY <1>6 DEF RunShape
    <2>5. step = "refused" => runner[r].period = Nothing /\ runner[r].backup = Nothing
        BY <1>6, <1>t DEF RunnerOK, Active
    <2> QED BY <2>2, <2>3, <2>4, <2>5, OneRunner
<1>7. CASE RunDueRaises
    <2>1. runner' \in [Runners -> Runner] /\ \A q \in Runners : RunnerOK(q)'
        BY <1>6, <1>7, Fresh DEF RunDueRaises
    <2> QED BY <1>t, <1>7, <2>1 DEF RunDueRaises, PlainTypes
<1>8. CASE \E c \in Callers : RefuseRunNow(c)
    <2>1. PICK c \in Callers : RefuseRunNow(c)
        BY <1>8
    <2>2. runner' \in [Runners -> Runner] /\ \A q \in Runners : RunnerOK(q)'
        BY <1>6, <2>1, Fresh DEF RefuseRunNow
    <2> QED BY <1>t, <2>1, <2>2 DEF RefuseRunNow, PlainTypes
<1>9. ASSUME NEW r \in Runners,
             \/ RunCreateFails(r) \/ SkipMirror(r) \/ BeginMirror(r) \/ MirrorFails(r)
             \/ FinishRaises(r)
      PROVE  /\ runner' \in [Runners -> Runner] /\ PlainTypes'
             /\ \A q \in Runners : RunnerOK(q)'
    <2>1. Active(r) /\ UNCHANGED <<today, external, begun, restored>>
        BY <1>9
        DEF Active, RunCreateFails, SkipMirror, BeginMirror, MirrorFails, FinishRaises
    <2>2. \E step \in {"copy", "success", "failed", "dead"} :
              To(r, step) /\ (step = "copy" => runner[r].step = "mirror")
        BY <1>9 DEF RunCreateFails, SkipMirror, BeginMirror, MirrorFails, FinishRaises
    <2>3. runner' \in [Runners -> Runner] /\ \A q \in Runners : RunnerOK(q)'
        BY <1>6, <2>1, <2>2
    <2> QED BY <1>t, <2>1, <2>3 DEF PlainTypes
<1>10. ASSUME NEW r \in Runners, CopyBackup(r)
       PROVE  /\ runner' \in [Runners -> Runner] /\ PlainTypes'
              /\ \A q \in Runners : RunnerOK(q)'
    <2> DEFINE c == IF backups[runner[r].backup].whole THEN "whole" ELSE "part"
    <2>1. runner[r].period \in Periods /\ runner[r].backup \in BackupIds
        BY <1>10 DEF CopyBackup, RunShape, Active
    <2>2. c \in {"part", "whole"} /\ "publish" \in Steps
        BY DEF Steps
    <2>3. runner' = [runner EXCEPT ![r].step = "publish", ![r].copied = c]
        BY <1>10 DEF CopyBackup
    <2> HIDE DEF c
    <2>4. Becomes(r, "publish", runner[r].period, runner[r].backup, c)
        BY <2>2, <2>3, CopiedBecomes
    <2>5. runner' \in [Runners -> Runner] /\ \A q \in Runners : RunnerOK(q)'
        BY <2>1, <2>4, OneRunner
    <2> QED BY <1>t, <1>10, <2>5 DEF CopyBackup, PlainTypes
<1>11. ASSUME NEW r \in Runners, PublishMirror(r)
       PROVE  /\ runner' \in [Runners -> Runner] /\ PlainTypes'
              /\ \A q \in Runners : RunnerOK(q)'
    <2>1. runner' \in [Runners -> Runner] /\ \A q \in Runners : RunnerOK(q)'
        BY <1>6, <1>11 DEF PublishMirror, Active
    <2>2. runner[r].copied \in {"none", "part", "whole"}
        BY <1>r, RecordsTyped
    <2>3. external' \in [BackupIds -> {"none", "part", "whole"}]
        BY <1>t, <1>11, <2>2 DEF PublishMirror, PlainTypes
    <2> QED BY <1>t, <1>11, <2>1, <2>3 DEF PublishMirror, PlainTypes
<1>12. ASSUME NEW r \in Runners, Finish(r)
       PROVE  /\ runner' \in [Runners -> Runner] /\ PlainTypes'
              /\ \A q \in Runners : RunnerOK(q)'
    <2>1. runner' \in [Runners -> Runner] /\ RunnerOK(r)'
        BY <1>12, FinishMoves DEF RunnerOK, Active
    <2>2. ASSUME NEW q \in Runners, q # r
          PROVE  RunnerOK(q)'
        BY <1>12, <1>t, <2>2, FinishMoves DEF RunnerOK, Active
    <2> QED BY <1>t, <1>12, <2>1, <2>2 DEF Finish, PlainTypes
<1>13. CASE StoreStep
    <2>1. FollowBackup /\ UNCHANGED <<today, external, begun>>
        BY <1>13 DEF StoreStep
    <2>2. restored' \in BOOLEAN
        BY <1>13 DEF StoreStep
    <2>3. ASSUME NEW q \in Runners
          PROVE  RunnerOK(q)'
        BY <1>t, <2>1, FollowMoves DEF RunnerOK, Active
    <2> QED BY <1>t, <2>1, <2>2, <2>3, FollowMoves DEF PlainTypes
<1>14. CASE Restart
    <2>1. ASSUME NEW q \in Runners
          PROVE  RunnerOK(q)'
        BY <1>14, RestartMoves DEF RunnerOK, Active
    <2>2. restored' \in BOOLEAN
        BY <1>14 DEF Restart
    <2> QED BY <1>t, <1>14, <2>1, <2>2, RestartMoves DEF Restart, PlainTypes
<1>15. CASE UNCHANGED vars
    BY <1>t, <1>1, <1>15 DEF vars, runVars, PlainTypes
<1> QED
    BY <1>2, <1>3, <1>4, <1>5, <1>7, <1>8, <1>9, <1>10, <1>11, <1>12, <1>13, <1>14, <1>15
    DEF Next, RunStep
-----------------------------------------------------------------------------

\* What the store does, but for the stops of the process.
StoreWork ==
    \/ SecretStep
    \/ \E i \in Sessions : Login(i) \/ Logout(i)
    \/ \E store \in Stores, b \in BackupIds \cup {Nothing} : BeginBackup(store, b)
    \/ BackupStep

\* A restore has taken rows away or brought rows back.
RowsReplaced == Doing("restore", "sessions") /\ op' = Free /\ db' # op.oldDb

\* Nothing else of the store changes the rows of the runs.
LEMMA RowsKept ==
    ASSUME StoreInv, StoreWork, ~RowsReplaced
    PROVE  Rows' = Rows
<1>t. StoreTypeOK /\ StoreShape /\ SafetyCopyKept
    BY DEF StoreInv
<1>d. ~Restoring => db \in Db
    BY <1>t DEF StoreShape
<1>1. CASE SecretStep
    <2>1. ~Restoring' /\ ~Restoring
        BY <1>1, <1>t, OpOf, OneOp
        DEF SecretStep, CreateSecret, RotateSecret, DeleteSecret, WriteFile, WriteFails,
            CommitSecret, CommitFails, RemoveFile, Doing, Busy, Restoring, SecretOp
    <2>2. db'.runs = db.runs
        BY <1>1, <1>d, <2>1
        DEF SecretStep, CreateSecret, RotateSecret, DeleteSecret, WriteFile, WriteFails,
            CommitSecret, CommitFails, RemoveFile, Db
    <2> QED BY <2>1, <2>2 DEF Rows
<1>2. ASSUME NEW i \in Sessions, Login(i) \/ Logout(i)
      PROVE  Rows' = Rows
    <2>1. ~Restoring /\ ~Restoring'
        BY <1>2 DEF Login, Logout, Restoring, Busy
    <2>2. db'.runs = db.runs
        BY <1>2, <1>d, <2>1 DEF Login, Logout, Db
    <2> QED BY <2>1, <2>2 DEF Rows
<1>3. CASE ClearSessions
    <2>1. Restoring /\ RestoreShape /\ op' = Free /\ db' = op.oldDb
        BY <1>3, <1>t DEF ClearSessions, Doing, Restoring, StoreShape, RowsReplaced
    <2>2. op.oldDb # Nothing
        BY <1>3, <2>1, Special DEF ClearSessions, Doing, RestoreShape
    <2>3. Before.db = db' /\ ~Restoring'
        BY <2>1, <2>2 DEF Before, Restoring, Busy
    <2> QED BY <2>1, <2>3 DEF Rows
<1>4. CASE RestoreFails
    BY <1>4 DEF RestoreFails, Before, Restoring, Busy, Rows
<1>5. CASE MoveDatabase \/ MoveSecrets \/ InstallDatabase \/ InstallSecrets
    BY <1>5, <1>t, SwapKeeps DEF Rows
<1>6. CASE EndBackup
    <2>1. ~Restoring /\ db' = db
        BY <1>6, OneOp DEF EndBackup, Doing
    <2>2. Restoring' => Before'.db = db
        BY <1>6, <2>1 DEF EndBackup, Restoring, Busy, Before
    <2> QED BY <2>1, <2>2 DEF Rows
<1>7. ASSUME \/ \E store \in Stores, b \in BackupIds \cup {Nothing} :
                    BeginBackup(store, b)
             \/ SnapshotDatabase \/ CopySecrets \/ BackupFails \/ PublishBackup
             \/ \E b \in BackupIds : TrimBackup(b) \/ TrimFails(b)
      PROVE  Rows' = Rows
    <2>1. ~Restoring /\ db' = db
        BY <1>7, OneOp
        DEF BeginBackup, SnapshotDatabase, CopySecrets, BackupFails, PublishBackup,
            TrimBackup, TrimFails, Doing, Restoring, Busy
    <2>2. op' = Free \/ op'.kind = "backup"
        <3>1. Busy("backup") => op \in BackupOp
            BY <1>t, OpOf
        <3>2. CASE SnapshotDatabase \/ CopySecrets \/ PublishBackup
            BY <3>1, <3>2 DEF SnapshotDatabase, CopySecrets, PublishBackup, Doing, BackupOp
        <3>3. ASSUME NEW b \in BackupIds, TrimBackup(b)
              PROVE  op'.kind = "backup"
            BY <3>1, <3>3 DEF TrimBackup, Doing, BackupOp
        <3> QED BY <1>7, <3>2, <3>3 DEF BeginBackup, BackupFails, TrimFails
    <2>3. ~Restoring'
        BY <2>2 DEF Restoring, Busy
    <2> QED BY <2>1, <2>3 DEF Rows
<1>8. CASE DeleteBackup \/ \E b \in BackupIds : BeginDeleteBackup(b)
    BY <1>8 DEF DeleteBackup, BeginDeleteBackup, Restoring, Busy, Before, Rows
<1> QED
    BY <1>1, <1>2, <1>3, <1>4, <1>5, <1>6, <1>7, <1>8 DEF StoreWork, BackupStep

\* A stop of the process before a swap leaves the rows alone.
LEMMA StopKeepsRows ==
    ASSUME StoreInv, Crash, ~Swapping
    PROVE  Rows' = Rows
<1>1. db \in Db /\ (Restoring => Before.db = db)
    BY DEF Swapping, StoreInv, StoreShape, RestoreShape, Before
<1>2. db' = db /\ ~Restoring'
    BY <1>1, Special DEF Crash, Restoring, Busy
<1> QED BY <1>1, <1>2 DEF Rows

LEMMA SetRowSets ==
    ASSUME StoreInv, RunsTypeOK, op = Free, UNCHANGED RestOfStore,
           NEW p \in Periods, NEW state, SetRow(p, state)
    PROVE  /\ Rows'[p] = state
           /\ \A q \in Periods : q # p => Rows'[q] = Rows[q]
           /\ Rows = db.runs
<1>1. ~Restoring /\ ~Restoring'
    BY DEF RestOfStore, Restoring, Busy
<1>2. db \in Db
    BY <1>1 DEF StoreInv, StoreShape
<1>3. /\ db'.runs = [db.runs EXCEPT ![p] = state]
      /\ db.runs \in [Periods -> {"none", "open", "success", "failed"}]
    BY <1>2 DEF SetRow, Db
<1> QED BY <1>1, <1>3 DEF Rows

LEMMA StillRows ==
    ASSUME UNCHANGED storeVars
    PROVE  Rows' = Rows /\ crashesLeft' = crashesLeft
BY DEF storeVars, Rows, Restoring, Busy, Before

LEMMA WorkKeepsCrashes ==
    ASSUME StoreWork
    PROVE  crashesLeft' = crashesLeft
<1>1. CASE SecretStep \/ \E i \in Sessions : Login(i) \/ Logout(i)
    BY <1>1
    DEF SecretStep, CreateSecret, RotateSecret, DeleteSecret, WriteFile, WriteFails,
        CommitSecret, CommitFails, RemoveFile, Login, Logout, NotSecrets
<1>2. CASE \/ \E store \in Stores, b \in BackupIds \cup {Nothing} : BeginBackup(store, b)
           \/ BackupStep
    BY <1>2
    DEF BeginBackup, BackupStep, SnapshotDatabase, CopySecrets, BackupFails, PublishBackup,
        TrimBackup, TrimFails, EndBackup, MoveDatabase, MoveSecrets, InstallDatabase,
        InstallSecrets, ClearSessions, RestoreFails, BeginDeleteBackup, DeleteBackup,
        NotBackups
<1> QED BY <1>1, <1>2 DEF StoreWork

\* A step of the scheduler or of the store, as the rows see it.
RowsSame == Rows' = Rows /\ begun' = begun

LEMMA RowsMoves ==
    ASSUME StoreInv, RunsTypeOK, RunShape, [Next]_vars, ~restored'
    PROVE  /\ ~restored
           /\ RowsSame \/ RunDue \/ (\E c \in Callers : RunNow(c))
                       \/ (\E r \in Runners : Finish(r))
<1>1. CASE \E r \in Runners : RunCreate(r)
    <2>1. PICK r \in Runners : RunCreate(r)
        BY <1>1
    <2>2. BeginBackup("scheduler", Nothing) /\ op = Free
        BY <2>1 DEF RunCreate, BeginBackup
    <2>3. StoreWork /\ ~RowsReplaced
        BY <2>2 DEF StoreWork, Stores, RowsReplaced, Doing, Busy
    <2> QED BY <2>1, <2>3, RowsKept DEF RunCreate, RowsSame
<1>2. CASE StoreStep
    <2>1. StoreWork /\ ~RowsReplaced /\ ~restored /\ begun' = begun
        BY <1>2 DEF StoreStep, StoreWork, Stores, RowsReplaced
    <2> QED BY <2>1, RowsKept DEF RowsSame
<1>3. CASE Restart
    BY <1>3, StopKeepsRows DEF Restart, RowsSame
<1>4. CASE RunDue \/ (\E c \in Callers : RunNow(c)) \/ (\E r \in Runners : Finish(r))
    <2>1. restored' = restored
        BY <1>4 DEF RunDue, RunNow, Finish
    <2> QED BY <1>4, <2>1
<1>5. CASE UNCHANGED <<storeVars, begun, restored>>
    BY <1>5, StillRows DEF RowsSame
<1>6. CASE UNCHANGED vars
    BY <1>5, <1>6 DEF vars, runVars
<1> QED
    BY <1>1, <1>2, <1>3, <1>4, <1>5, <1>6
    DEF Next, NextPeriod, RunDueRaises, RefuseRunNow, RunStep, RunCreateFails, SkipMirror,
        BeginMirror, CopyBackup, PublishMirror, MirrorFails, FinishRaises

LEMMA BegunStep ==
    ASSUME StoreInv, RunsTypeOK, RunShape, BegunHaveRows, [Next]_vars
    PROVE  BegunHaveRows'
<1> SUFFICES ASSUME ~restored', NEW p \in 1..Days
             PROVE  begun'[p] = 0 \/ (begun'[p] = 1 /\ Rows'[p] # "none")
    BY DEF BegunHaveRows
<1>0. ~restored /\ p \in Periods /\ begun \in [1..Days -> Nat]
    BY RowsMoves, Fresh DEF RunsTypeOK
<1>p. begun[p] = 0 \/ (begun[p] = 1 /\ Rows[p] # "none")
    BY <1>0 DEF BegunHaveRows
<1>1. CASE RowsSame
    BY <1>p, <1>1 DEF RowsSame
<1>2. CASE RunDue
    <2>1. op = Free /\ UNCHANGED RestOfStore /\ SetRow(today, "open") /\ today \in 1..Days
        BY <1>2 DEF RunDue, RunsTypeOK
    <2>2. /\ Rows'[today] = "open" /\ Rows[today] = "none"
          /\ \A q \in Periods : q # today => Rows'[q] = Rows[q]
        BY <1>2, <2>1, Fresh, SetRowSets DEF RunDue
    <2>3. begun'[p] = IF p = today THEN begun[p] + 1 ELSE begun[p]
        BY <1>0, <1>2 DEF RunDue
    <2> QED BY <1>0, <1>p, <2>2, <2>3
<1>3. ASSUME NEW c \in Callers, RunNow(c)
      PROVE  begun'[p] = 0 \/ (begun'[p] = 1 /\ Rows'[p] # "none")
    <2>1. op = Free /\ UNCHANGED RestOfStore /\ SetRow(c, "open") /\ begun' = begun
        BY <1>3 DEF RunNow
    <2>2. /\ Rows'[c] = "open"
          /\ \A q \in Periods : q # c => Rows'[q] = Rows[q]
        BY <2>1, Fresh, SetRowSets
    <2> QED BY <1>0, <1>p, <2>1, <2>2
<1>4. ASSUME NEW r \in Runners, Finish(r)
      PROVE  begun'[p] = 0 \/ (begun'[p] = 1 /\ Rows'[p] # "none")
    <2>1. /\ op = Free /\ UNCHANGED RestOfStore /\ begun' = begun
          /\ runner[r].period \in Periods /\ runner[r].step \in {"success", "failed"}
        BY <1>4 DEF Finish, RunShape, Active
    <2>2. CASE UNCHANGED db
        BY <1>p, <2>1, <2>2, StillRows DEF RestOfStore, storeVars
    <2>3. CASE SetRow(runner[r].period, runner[r].step)
        <3>1. /\ Rows'[runner[r].period] = runner[r].step
              /\ \A q \in Periods : q # runner[r].period => Rows'[q] = Rows[q]
            BY <2>1, <2>3, SetRowSets
        <3> QED BY <1>0, <1>p, <2>1, <3>1
    <2> QED BY <1>4, <2>2, <2>3 DEF Finish
<1> QED BY <1>1, <1>2, <1>3, <1>4, RowsMoves
-----------------------------------------------------------------------------

\* The row of a run is followed by the runner q.
Follows(q, p) == (Active(q) \/ runner[q].step = "dead") /\ runner[q].period = p

\* A runner that is under way, or dead, stays so but for Finish and a restart.
LEMMA FollowersStay ==
    ASSUME RunsTypeOK, RunShape, [Next]_vars, ~Restart, NEW q \in Runners, ~Finish(q),
           NEW p \in Periods, Follows(q, p)
    PROVE  Follows(q, p)'
<1>a. Active(q) \/ runner[q].step = "dead"
    BY DEF Follows
<1>b. runner \in [Runners -> Runner]
    BY DEF RunsTypeOK
<1>1. ASSUME NEW r \in Runners, NEW step \in {"copy", "success", "failed", "dead"},
             To(r, step)
      PROVE  Follows(q, p)'
    <2>1. Becomes(r, step, runner[r].period, runner[r].backup, runner[r].copied)
        BY <1>1, ToBecomes DEF Steps
    <2> QED BY <2>1 DEF Becomes, Follows, Active
<1>2. ASSUME NEW r \in Runners, q # r,
             \/ RunCreate(r) \/ RunNow(r) \/ Finish(r) \/ CopyBackup(r)
             \/ r = Scheduler /\ RunDue
             \/ RefuseRunNow(r)
      PROVE  Follows(q, p)'
    <2>1. runner'[q] = runner[q]
        BY <1>b, <1>2 DEF RunCreate, RunNow, Finish, CopyBackup, RunDue, RefuseRunNow, To
    <2> QED BY <2>1 DEF Follows, Active
<1>3. CASE RunDue
    BY <1>a, <1>2, <1>3, Fresh DEF RunDue, Active
<1>4. ASSUME NEW c \in Callers, RunNow(c) \/ RefuseRunNow(c)
      PROVE  Follows(q, p)'
    BY <1>a, <1>2, <1>4, Fresh DEF RunNow, RefuseRunNow, Active
<1>5. ASSUME NEW r \in Runners, RunCreate(r)
      PROVE  Follows(q, p)'
    <2>1. CASE q = r
        <3>1. runner'[r].step = "create" /\ runner'[r].period = runner[r].period
            BY <1>b, <1>5 DEF RunCreate, Runner
        <3> QED BY <2>1, <3>1 DEF Follows, Active
    <2> QED BY <1>2, <1>5, <2>1
<1>6. ASSUME NEW r \in Runners, CopyBackup(r)
      PROVE  Follows(q, p)'
    <2>1. CASE q = r
        <3>1. runner'[r].step = "publish" /\ runner'[r].period = runner[r].period
            BY <1>b, <1>6 DEF CopyBackup, Runner
        <3> QED BY <2>1, <3>1 DEF Follows, Active
    <2> QED BY <1>2, <1>6, <2>1
<1>7. ASSUME NEW r \in Runners, Finish(r)
      PROVE  Follows(q, p)'
    BY <1>2, <1>7
<1>8. CASE RunDueRaises
    BY <1>1, <1>8, Fresh DEF RunDueRaises
<1>9. ASSUME NEW r \in Runners,
             \/ RunCreateFails(r) \/ SkipMirror(r) \/ BeginMirror(r) \/ PublishMirror(r)
             \/ MirrorFails(r) \/ FinishRaises(r)
      PROVE  Follows(q, p)'
    <2>1. \E step \in {"copy", "success", "failed", "dead"} : To(r, step)
        BY <1>9
        DEF RunCreateFails, SkipMirror, BeginMirror, PublishMirror, MirrorFails,
            FinishRaises
    <2> QED BY <1>1, <2>1
<1>10. CASE StoreStep
    <2>1. FollowBackup
        BY <1>10 DEF StoreStep
    <2> QED BY <2>1, FollowMoves DEF Follows, Active
<1>11. CASE NextPeriod \/ UNCHANGED vars
    BY <1>11 DEF NextPeriod, vars, runVars, Follows, Active
<1> QED
    BY <1>3, <1>4, <1>5, <1>6, <1>7, <1>8, <1>9, <1>10, <1>11 DEF Next, RunStep

LEMMA CrashesCount ==
    ASSUME StoreInv, [Next]_vars
    PROVE  IF Restart THEN crashesLeft' # CrashLimit ELSE crashesLeft' = crashesLeft
<1>1. CASE Restart
    <2>1. crashesLeft \in 0..CrashLimit /\ crashesLeft' = crashesLeft - 1 /\ CrashLimit \in Nat
        BY <1>1, StoreAssumption DEF Restart, Crash, StoreInv, StoreTypeOK
    <2> QED BY <1>1, <2>1
<1>2. CASE StoreStep
    <2>1. StoreWork
        BY <1>2 DEF StoreStep, StoreWork, Stores
    <2> QED BY <1>1, <2>1, WorkKeepsCrashes
<1>3. CASE \E r \in Runners : RunCreate(r)
    <2>1. crashesLeft' = crashesLeft
        BY <1>3 DEF RunCreate, BeginBackup, NotBackups
    <2> QED BY <1>1, <2>1
<1>4. CASE RunDue \/ (\E c \in Callers : RunNow(c)) \/ (\E r \in Runners : Finish(r))
    <2>1. crashesLeft' = crashesLeft
        BY <1>4 DEF RunDue, RunNow, Finish, RestOfStore
    <2> QED BY <1>1, <2>1
<1>5. CASE UNCHANGED storeVars
    BY <1>1, <1>5 DEF storeVars
<1>6. CASE UNCHANGED vars
    BY <1>5, <1>6 DEF vars
<1> QED
    BY <1>1, <1>2, <1>3, <1>4, <1>5, <1>6
    DEF Next, NextPeriod, RunDueRaises, RefuseRunNow, RunStep, RunCreateFails, SkipMirror,
        BeginMirror, CopyBackup, PublishMirror, MirrorFails, FinishRaises

LEMMA OpenStep ==
    ASSUME StoreInv, RunsTypeOK, RunShape, OpenRowsFollowed, [Next]_vars
    PROVE  OpenRowsFollowed'
<1> SUFFICES ASSUME ~restored', crashesLeft' = CrashLimit, NEW p \in Periods,
                    Rows'[p] = "open"
             PROVE  \E q \in Runners : Follows(q, p)'
    BY DEF OpenRowsFollowed, HasRun, Follows, Active
<1>0. ~restored /\ ~Restart /\ crashesLeft = CrashLimit
    BY RowsMoves, CrashesCount
<1>p. Rows[p] = "open" => \E q \in Runners : Follows(q, p)
    BY <1>0 DEF OpenRowsFollowed, HasRun, Follows
<1>b. runner \in [Runners -> Runner]
    BY DEF RunsTypeOK
<1>1. ASSUME Rows[p] = "open", \A r \in Runners : Finish(r) => runner[r].period # p
      PROVE  \E q \in Runners : Follows(q, p)'
    <2>1. PICK q \in Runners : Follows(q, p)
        BY <1>1, <1>p
    <2>2. ~Finish(q)
        BY <1>1, <2>1 DEF Follows
    <2> QED BY <1>0, <2>1, <2>2, FollowersStay
<1>2. CASE RunDue
    <2>1. op = Free /\ UNCHANGED RestOfStore /\ SetRow(today, "open") /\ today \in Periods
        BY <1>2, Fresh DEF RunDue, RunsTypeOK
    <2>2. \A q \in Periods : q # today => Rows'[q] = Rows[q]
        BY <2>1, SetRowSets
    <2>3. CASE p = today
        <3>1. Becomes(Scheduler, "begun", today, runner[Scheduler].backup,
                      runner[Scheduler].copied)
            BY <1>2, <2>1, Fresh, PeriodBecomes DEF RunDue, Steps
        <3> QED BY <2>3, <3>1, Fresh DEF Becomes, Follows, Active
    <2>4. ASSUME NEW r \in Runners, Finish(r)
          PROVE  runner[r].period # p
        <3>1. restored' = restored /\ begun' = begun /\ begun' # begun
            BY <1>2, <2>4 DEF RunDue, Finish, RunsTypeOK
        <3> QED BY <3>1
    <2> QED BY <1>1, <2>2, <2>3, <2>4
<1>3. ASSUME NEW c \in Callers, RunNow(c)
      PROVE  \E q \in Runners : Follows(q, p)'
    <2>1. op = Free /\ UNCHANGED RestOfStore /\ SetRow(c, "open") /\ c \in Periods
          /\ c \in Runners
        BY <1>3, Fresh DEF RunNow
    <2>2. \A q \in Periods : q # c => Rows'[q] = Rows[q]
        BY <2>1, SetRowSets
    <2>3. Becomes(c, "begun", c, runner[c].backup, runner[c].copied)
        BY <1>3, <2>1, PeriodBecomes DEF RunNow, Steps
    <2>4. CASE p = c
        BY <2>1, <2>3, <2>4 DEF Becomes, Follows, Active
    <2>5. ASSUME NEW r \in Runners, Finish(r)
          PROVE  FALSE
        <3>1. runner'[r].step \in {"idle", "done"} /\ runner[r].step \in {"success", "failed"}
            BY <2>5, FinishMoves DEF Finish
        <3>2. r = c \/ runner'[r] = runner[r]
            BY <2>3 DEF Becomes
        <3>3. r # c
            BY <1>3, <3>1 DEF RunNow
        <3> QED BY <3>1, <3>2, <3>3
    <2> QED BY <1>1, <2>2, <2>4, <2>5
<1>4. ASSUME NEW r \in Runners, Finish(r)
      PROVE  \E q \in Runners : Follows(q, p)'
    <2>1. /\ op = Free /\ UNCHANGED RestOfStore
          /\ runner[r].period \in Periods /\ runner[r].step \in {"success", "failed"}
        BY <1>4 DEF Finish, RunShape, Active
    <2>2. Rows[p] = "open" /\ runner[r].period # p
        <3>1. CASE UNCHANGED db
            <4>1. Rows' = Rows /\ Rows = db.runs
                BY <2>1, <3>1, StillRows
                DEF RestOfStore, storeVars, Rows, Restoring, Busy
            <4>2. db.runs[runner[r].period] # "open"
                <5>1. CASE db.runs[runner[r].period] = "none"
                    BY <5>1
                <5>2. CASE db.runs[runner[r].period] # "none"
                    <6>1. SetRow(runner[r].period, runner[r].step)
                        BY <1>4, <5>2 DEF Finish
                    <6>2. Rows'[runner[r].period] = runner[r].step
                        BY <2>1, <6>1, SetRowSets
                    <6> QED BY <2>1, <4>1, <6>2
                <5> QED BY <5>1, <5>2
            <4> QED BY <4>1, <4>2
        <3>2. CASE SetRow(runner[r].period, runner[r].step)
            <4>1. /\ Rows'[runner[r].period] = runner[r].step
                  /\ \A q \in Periods : q # runner[r].period => Rows'[q] = Rows[q]
                BY <2>1, <3>2, SetRowSets
            <4> QED BY <2>1, <4>1
        <3> QED BY <1>4, <3>1, <3>2 DEF Finish
    <2>3. ASSUME NEW q \in Runners, Finish(q)
          PROVE  q = r
        <3>1. runner'[q].step \in {"idle", "done"} /\ runner[q].step \in {"success", "failed"}
            BY <2>3, FinishMoves DEF Finish
        <3>2. q = r \/ runner'[q] = runner[q]
            BY <1>4, FinishMoves
        <3> QED BY <3>1, <3>2
    <2> QED BY <1>1, <2>2, <2>3
<1>5. CASE RowsSame /\ ~(\E r \in Runners : Finish(r))
    BY <1>1, <1>5 DEF RowsSame
<1> QED BY <1>2, <1>3, <1>4, <1>5, RowsMoves
-----------------------------------------------------------------------------

\* What a step means for the backup b: only the one in hand becomes whole, and
\* no other comes into hand than one with a new name.
LEMMA BackupMoves ==
    ASSUME StoreInv, StoreWork \/ Crash, NEW b \in BackupIds
    PROVE  /\ issued' \in {issued, issued + 1}
           /\ NotInHand(b) /\ b <= issued => NotInHand(b)'
           /\ Exists(b)' => Exists(b) \/ (~NotInHand(b) /\ NotInHand(b)')
           /\ Exists(b)' /\ backups'[b].whole =>
                  ~NotInHand(b) \/ (Exists(b) /\ backups[b].whole)
<1>t. /\ StoreTypeOK /\ backups \in [BackupIds -> Backup \cup {NoBackup}]
      /\ issued \in Nat /\ b \in Nat
    BY DEF StoreInv, StoreTypeOK, BackupIds
<1>o. Busy("backup") => op \in BackupOp /\ ~Restoring /\ ~Busy("secret") /\ op # Free
    BY <1>t, OpOf, OneOp DEF Busy
<1>q. ASSUME op' = Free \/ op' = op \/ op'.kind # "backup", UNCHANGED <<backups, issued>>
      PROVE  /\ issued' \in {issued, issued + 1}
             /\ NotInHand(b) /\ b <= issued => NotInHand(b)'
             /\ Exists(b)' => Exists(b) \/ (~NotInHand(b) /\ NotInHand(b)')
             /\ Exists(b)' /\ backups'[b].whole =>
                    ~NotInHand(b) \/ (Exists(b) /\ backups[b].whole)
    BY <1>q DEF NotInHand, Busy, Exists
<1>1. CASE SecretStep
    <2>1. UNCHANGED <<backups, issued>>
        BY <1>1
        DEF SecretStep, CreateSecret, RotateSecret, DeleteSecret, WriteFile, WriteFails,
            CommitSecret, CommitFails, RemoveFile, NotSecrets
    <2>2. Busy("secret") => op \in SecretOp
        BY <1>t, OpOf
    <2>3. op' = Free \/ op'.kind = "secret"
        BY <1>1, <2>2
        DEF SecretStep, CreateSecret, RotateSecret, DeleteSecret, WriteFile, WriteFails,
            CommitSecret, CommitFails, RemoveFile, Doing, SecretOp
    <2> QED BY <1>q, <2>1, <2>3
<1>2. CASE \E i \in Sessions : Login(i) \/ Logout(i)
    BY <1>2, <1>q DEF Login, Logout, NotSecrets
<1>3. ASSUME NEW store \in Stores, NEW x \in BackupIds \cup {Nothing},
             BeginBackup(store, x)
      PROVE  /\ issued' \in {issued, issued + 1}
             /\ NotInHand(b) /\ b <= issued => NotInHand(b)'
             /\ Exists(b)' => Exists(b) \/ (~NotInHand(b) /\ NotInHand(b)')
             /\ Exists(b)' /\ backups'[b].whole =>
                    ~NotInHand(b) \/ (Exists(b) /\ backups[b].whole)
    <2>1. issued' = issued + 1 /\ backups' = backups /\ op'.id = issued + 1
        BY <1>3 DEF BeginBackup
    <2>2. b <= issued => op'.id # b
        BY <1>t, <2>1
    <2> QED BY <2>1, <2>2 DEF NotInHand, Exists
<1>4. CASE SnapshotDatabase \/ CopySecrets
    <2>1. /\ UNCHANGED <<backups, issued>> /\ Busy("backup") /\ op.step # "trim"
          /\ \/ op' = [op EXCEPT !.step = "copy", !.db = db]
             \/ op' = [op EXCEPT !.step = "publish", !.files = files]
        BY <1>4 DEF SnapshotDatabase, CopySecrets, Doing
    <2>2. op'.id = op.id
        BY <1>o, <2>1 DEF BackupOp
    <2> QED BY <2>1, <2>2 DEF NotInHand, Exists
<1>5. CASE BackupFails
    BY <1>5, <1>q DEF BackupFails
<1>6. CASE PublishBackup
    <2>1. /\ Busy("backup") /\ op.step = "publish" /\ issued' = issued
          /\ op' = [op EXCEPT !.step = "trim", !.excess = Excess(Protected(op))]
          /\ backups' = [backups EXCEPT ![op.id] =
                            [db |-> op.db, files |-> op.files, whole |-> TRUE]]
        BY <1>6 DEF PublishBackup, Doing
    <2>2. op'.step = "trim"
        BY <1>o, <2>1 DEF BackupOp
    <2>3. b # op.id => backups'[b] = backups[b]
        BY <1>t, <2>1
    <2>4. b = op.id => ~NotInHand(b)
        BY <2>1 DEF NotInHand
    <2> QED BY <2>1, <2>2, <2>3, <2>4 DEF NotInHand, Exists
<1>7. ASSUME NEW x \in BackupIds, Exists(x), Dwindle(x), issued' = issued,
             NotInHand(b) => NotInHand(b)'
      PROVE  /\ issued' \in {issued, issued + 1}
             /\ NotInHand(b) /\ b <= issued => NotInHand(b)'
             /\ Exists(b)' => Exists(b) \/ (~NotInHand(b) /\ NotInHand(b)')
             /\ Exists(b)' /\ backups'[b].whole =>
                    ~NotInHand(b) \/ (Exists(b) /\ backups[b].whole)
    <2>1. backups[x] \in Backup
        BY <1>7, <1>t DEF Exists
    <2>2. backups' = [backups EXCEPT ![x] =
                         IF backups[x].whole THEN [backups[x] EXCEPT !.whole = FALSE]
                         ELSE NoBackup]
        BY <1>7 DEF Dwindle
    <2>3. [backups[x] EXCEPT !.whole = FALSE].whole = FALSE
        BY <2>1 DEF Backup
    <2>4. b # x => backups'[b] = backups[b]
        BY <1>t, <2>2
    <2>5. b = x => Exists(b) /\ (~Exists(b)' \/ ~backups'[b].whole)
        BY <1>7, <1>t, <2>2, <2>3 DEF Exists
    <2> QED BY <1>7, <2>4, <2>5 DEF Exists
<1>8. ASSUME NEW x \in BackupIds, TrimBackup(x)
      PROVE  /\ issued' \in {issued, issued + 1}
             /\ NotInHand(b) /\ b <= issued => NotInHand(b)'
             /\ Exists(b)' => Exists(b) \/ (~NotInHand(b) /\ NotInHand(b)')
             /\ Exists(b)' /\ backups'[b].whole =>
                    ~NotInHand(b) \/ (Exists(b) /\ backups[b].whole)
    <2>1. Busy("backup") /\ op.step = "trim" /\ Exists(x) /\ Dwindle(x) /\ issued' = issued
        BY <1>8 DEF TrimBackup, Doing
    <2>2. op' = op \/ op' = [op EXCEPT !.excess = op.excess \ {x}]
        BY <1>8 DEF TrimBackup
    <2>3. op'.step = "trim"
        BY <1>o, <2>1, <2>2 DEF BackupOp
    <2> QED BY <1>7, <2>1, <2>3 DEF NotInHand
<1>9. CASE \E x \in BackupIds : TrimFails(x)
    BY <1>9, <1>q DEF TrimFails
<1>10. CASE EndBackup
    BY <1>10, <1>q DEF EndBackup
<1>11. CASE \/ MoveDatabase \/ MoveSecrets \/ InstallDatabase \/ InstallSecrets
            \/ ClearSessions \/ RestoreFails
    <2>1. UNCHANGED <<backups, issued>>
        BY <1>11
        DEF MoveDatabase, MoveSecrets, InstallDatabase, InstallSecrets, ClearSessions,
            RestoreFails
    <2>2. CASE ClearSessions \/ RestoreFails
        BY <1>q, <2>1, <2>2 DEF ClearSessions, RestoreFails
    <2>3. CASE MoveDatabase \/ MoveSecrets \/ InstallDatabase \/ InstallSecrets
        <3>1. Restoring'
            BY <1>t, <2>3, SwapKeeps DEF StoreInv
        <3> QED BY <1>q, <2>1, <3>1 DEF Restoring, Busy
    <2> QED BY <1>11, <2>2, <2>3
<1>12. CASE \E x \in BackupIds : BeginDeleteBackup(x)
    BY <1>12, <1>q DEF BeginDeleteBackup
<1>13. CASE DeleteBackup
    <2>1. op' = op /\ issued' = issued /\ deleting \in BackupIds
        BY <1>13, <1>t DEF DeleteBackup, StoreTypeOK
    <2>2. CASE Exists(deleting)
        <3>1. Dwindle(deleting)
            BY <1>13, <2>2 DEF DeleteBackup
        <3> QED BY <1>7, <2>1, <2>2, <3>1 DEF NotInHand, Busy
    <2>3. CASE ~Exists(deleting)
        BY <1>13, <1>q, <2>1, <2>3 DEF DeleteBackup
    <2> QED BY <2>2, <2>3
<1>14. CASE Crash
    BY <1>14, <1>q DEF Crash
<1> QED
    BY <1>1, <1>2, <1>3, <1>4, <1>5, <1>6, <1>8, <1>9, <1>10, <1>11, <1>12, <1>13, <1>14
    DEF StoreWork, BackupStep

\* A backup that is spent stays so, and one that is there is not in hand.
LEMMA SpentStays ==
    ASSUME StoreInv, StoreWork \/ Crash, NEW b \in BackupIds
    PROVE  /\ Spent(b) => Spent(b)'
           /\ (Exists(b) => NotInHand(b)) => (Exists(b)' => NotInHand(b)')
<1>1. issued \in Nat /\ b \in Nat /\ (Exists(b) => b <= issued)
    BY DEF StoreInv, StoreTypeOK, StoreShape, BackupIds
<1>2. Spent(b) => Spent(b)'
    <2>1. ASSUME Spent(b)
          PROVE  b <= issued' /\ NotInHand(b)'
        BY <1>1, <2>1, BackupMoves DEF Spent
    <2>2. ASSUME Spent(b), Exists(b)', backups'[b].whole
          PROVE  FALSE
        BY <2>2, BackupMoves DEF Spent
    <2> QED BY <2>1, <2>2 DEF Spent, Exists
<1>3. ASSUME Exists(b) => NotInHand(b), Exists(b)'
      PROVE  NotInHand(b)'
    BY <1>1, <1>3, BackupMoves
<1> QED BY <1>2, <1>3

LEMMA SpentSame ==
    ASSUME UNCHANGED <<op, backups, issued>>, NEW b
    PROVE  /\ Spent(b)' <=> Spent(b)
           /\ (Exists(b) => NotInHand(b)) => (Exists(b)' => NotInHand(b)')
BY DEF Spent, Exists, NotInHand, Busy

LEMMA StoreMovesBackups ==
    ASSUME RunsTypeOK, RunShape, [Next]_vars
    PROVE  StoreWork \/ Crash \/ UNCHANGED <<op, backups, issued>>
<1>1. CASE StoreNext
    BY <1>1 DEF StoreNext, StoreWork
<1>2. CASE UNCHANGED storeVars
    BY <1>2 DEF storeVars
<1>3. CASE RowStep
    BY <1>3 DEF RowStep, RestOfStore
<1>4. CASE QuietStop
    BY <1>4 DEF QuietStop
<1> QED BY <1>1, <1>2, <1>3, <1>4, StoreMoves

\* Who publishes, and who publishes after the step.
LEMMA PublishersMove ==
    ASSUME RunsTypeOK, RunShape, [Next]_vars, NEW r \in Runners,
           runner'[r].step = "publish"
    PROVE  \/ CopyBackup(r)
           \/ /\ runner[r].step = "publish"
              /\ runner'[r].copied = runner[r].copied
              /\ runner'[r].backup = runner[r].backup
<1>b. runner \in [Runners -> Runner]
    BY DEF RunsTypeOK
<1>1. ASSUME NEW q \in Runners, NEW step \in {"copy", "success", "failed", "dead", "refused"},
             To(q, step)
      PROVE  runner'[r] = runner[r]
    <2>1. Becomes(q, step, runner[q].period, runner[q].backup, runner[q].copied)
        BY <1>1, ToBecomes DEF Steps
    <2> QED BY <2>1 DEF Becomes
<1>2. CASE RunDue
    <2>1. runner'[Scheduler].step = "begun"
        BY <1>b, <1>2, Fresh DEF RunDue, Runner
    <2>2. r # Scheduler => runner'[r] = runner[r]
        BY <1>b, <1>2 DEF RunDue
    <2> QED BY <2>1, <2>2
<1>3. ASSUME NEW c \in Callers, RunNow(c)
      PROVE  runner'[r] = runner[r]
    <2>1. runner'[c].step = "begun"
        BY <1>b, <1>3, Fresh DEF RunNow, Runner
    <2>2. r # c => runner'[r] = runner[r]
        BY <1>b, <1>3 DEF RunNow
    <2> QED BY <2>1, <2>2
<1>4. ASSUME NEW q \in Runners, RunCreate(q)
      PROVE  runner'[r] = runner[r]
    <2>1. runner'[q].step = "create"
        BY <1>b, <1>4 DEF RunCreate, Runner
    <2>2. r # q => runner'[r] = runner[r]
        BY <1>b, <1>4 DEF RunCreate
    <2> QED BY <2>1, <2>2
<1>5. ASSUME NEW q \in Runners, CopyBackup(q), q # r
      PROVE  runner'[r] = runner[r]
    BY <1>b, <1>5 DEF CopyBackup
<1>6. ASSUME NEW q \in Runners, Finish(q)
      PROVE  runner'[r] = runner[r]
    BY <1>6, FinishMoves
<1>7. ASSUME NEW q \in Runners,
             \/ RunCreateFails(q) \/ SkipMirror(q) \/ BeginMirror(q) \/ PublishMirror(q)
             \/ MirrorFails(q) \/ FinishRaises(q)
      PROVE  runner'[r] = runner[r]
    <2>1. \E step \in {"copy", "success", "failed", "dead"} : To(q, step)
        BY <1>7
        DEF RunCreateFails, SkipMirror, BeginMirror, PublishMirror, MirrorFails,
            FinishRaises
    <2> QED BY <1>1, <2>1
<1>8. CASE RunDueRaises \/ \E c \in Callers : RefuseRunNow(c)
    BY <1>1, <1>8, Fresh DEF RunDueRaises, RefuseRunNow
<1>9. CASE StoreStep
    BY <1>9, FollowMoves DEF StoreStep
<1>10. CASE Restart
    BY <1>10, RestartMoves
<1>11. CASE NextPeriod \/ UNCHANGED vars
    BY <1>11 DEF NextPeriod, vars, runVars
<1> QED
    BY <1>2, <1>3, <1>4, <1>5, <1>6, <1>7, <1>8, <1>9, <1>10, <1>11 DEF Next, RunStep

LEMMA PartsStep ==
    ASSUME StoreInv, RunsTypeOK, RunShape, PartsSpent, [Next]_vars
    PROVE  PartsSpent'
<1>s. \A b \in BackupIds : /\ Spent(b) => Spent(b)'
                           /\ (Exists(b) => NotInHand(b)) => (Exists(b)' => NotInHand(b)')
    BY StoreMovesBackups, SpentStays, SpentSame
<1>1. \A b \in BackupIds : Exists(b)' => NotInHand(b)'
    BY <1>s DEF PartsSpent
<1>2. ASSUME NEW b \in BackupIds, external'[b] = "part"
      PROVE  Spent(b)'
    <2>1. CASE external' = external
        BY <1>2, <1>s, <2>1 DEF PartsSpent
    <2>2. ASSUME NEW r \in Runners, PublishMirror(r)
          PROVE  Spent(b)
        <3>1. /\ external' = [external EXCEPT ![runner[r].backup] = runner[r].copied]
              /\ runner[r].step = "publish"
              /\ external \in [BackupIds -> {"none", "part", "whole"}]
            BY <2>2 DEF PublishMirror, RunsTypeOK
        <3>2. \/ external[b] = "part"
              \/ b = runner[r].backup /\ runner[r].copied = "part"
            BY <1>2, <3>1
        <3> QED BY <3>1, <3>2 DEF PartsSpent
    <2>3. (\E r \in Runners : PublishMirror(r)) \/ external' = external
        BY DEF Next, NextPeriod, RunDue, RunDueRaises, RunNow, RefuseRunNow, RunStep,
               RunCreate, RunCreateFails, SkipMirror, BeginMirror, CopyBackup, MirrorFails,
               Finish, FinishRaises, StoreStep, Restart, vars, runVars
    <2> QED BY <1>s, <2>1, <2>2, <2>3
<1>3. ASSUME NEW r \in Runners, runner'[r].step = "publish", runner'[r].copied = "part"
      PROVE  Spent(runner[r].backup)'
    <2>b. ASSUME NEW b \in BackupIds, Spent(b), b = runner'[r].backup
          PROVE  Spent(runner[r].backup)'
        <3>1. Spent(b)'
            BY <1>s, <2>b
        <3> QED BY <2>b, <3>1 DEF Spent, Exists, NotInHand
    <2>1. CASE CopyBackup(r)
        <3>1. /\ Exists(runner[r].backup) /\ runner[r].backup \in BackupIds
              /\ UNCHANGED storeVars
            BY <2>1 DEF CopyBackup, RunShape
        <3>2. /\ runner'[r].backup = runner[r].backup
              /\ runner'[r].copied = IF backups[runner[r].backup].whole THEN "whole"
                                     ELSE "part"
            BY <2>1 DEF CopyBackup, RunsTypeOK, Runner
        <3>3. Spent(runner[r].backup)
            BY <1>3, <3>1, <3>2 DEF Spent, PartsSpent, StoreInv, StoreShape
        <3> QED BY <2>b, <3>1, <3>2, <3>3
    <2>2. CASE /\ runner[r].step = "publish"
               /\ runner'[r].copied = runner[r].copied
               /\ runner'[r].backup = runner[r].backup
        <3>1. Spent(runner[r].backup) /\ runner[r].backup \in BackupIds
            BY <1>3, <2>2 DEF PartsSpent, RunShape
        <3> QED BY <2>b, <2>2, <3>1
    <2> QED BY <1>3, <2>1, <2>2, PublishersMove
<1> QED BY <1>1, <1>2, <1>3 DEF PartsSpent

-----------------------------------------------------------------------------

LEMMA RunsInvStart == RunsInit => RunsInv
<1> SUFFICES ASSUME RunsInit PROVE RunsInv
    OBVIOUS
<1>1. StoreInit /\ StoreInv
    BY StoreInvStart DEF RunsInit
<1>2. /\ runner = [r \in Runners |-> Idle] /\ today = 0
      /\ external = [b \in BackupIds |-> "none"] /\ begun = [p \in 1..Days |-> 0]
      /\ restored = FALSE
    BY DEF RunsInit
<1>3. \A r \in Runners :
          runner[r].step = "idle" /\ runner[r].period = Nothing /\ runner[r].backup = Nothing
    BY <1>2 DEF Idle
<1>4. RunsTypeOK
    <2>1. runner \in [Runners -> Runner]
        BY <1>2, IdleTyped
    <2>2. today \in 0..Days
        BY <1>2, Fresh
    <2> QED BY <1>2, <1>3, <2>1, <2>2 DEF RunsTypeOK
<1>5. RunShape
    BY <1>3 DEF RunShape, Active
<1>6. BegunHaveRows
    BY <1>2 DEF BegunHaveRows
<1>7. OpenRowsFollowed
    <2>1. ~Restoring
        BY <1>1 DEF StoreInit, Restoring, Busy
    <2>2. \A p \in Periods : Rows[p] = "none"
        BY <1>1, <2>1 DEF StoreInit, EmptyDb, Rows
    <2> QED BY <2>2 DEF OpenRowsFollowed
<1>8. PartsSpent
    <2>1. ~Busy("backup")
        BY <1>1 DEF StoreInit, Busy
    <2> QED BY <1>2, <1>3, <2>1 DEF PartsSpent, NotInHand
<1> QED BY <1>1, <1>4, <1>5, <1>6, <1>7, <1>8 DEF RunsInv

LEMMA RunsInvStep == RunsInv /\ [Next]_vars => RunsInv'
BY StoreKept, RunTypes, BegunStep, OpenStep, PartsStep DEF RunsInv

\* The runs, their rows and the copies they publish stay tied together in every
\* reachable state of scheduler and store.
THEOREM RunsInvariant == Spec => []RunsInv
BY RunsInvStart, RunsInvStep, PTL DEF Spec

\* Every variable of the scheduler stays within its type.
THEOREM RunsTypeCorrect == Spec => []RunsTypeOK
<1>1. RunsInv => RunsTypeOK
    BY DEF RunsInv
<1> QED BY <1>1, RunsInvariant, PTL

\* A period gets one run, across restarts of the process and manual runs, as
\* long as no restore takes its row away (the primary key of run_due).
THEOREM RunsOncePerPeriod == Spec => []OncePerPeriod
<1>1. RunsInv => OncePerPeriod
    BY DEF RunsInv, BegunHaveRows, OncePerPeriod
<1> QED BY <1>1, RunsInvariant, PTL

\* Without a stop of the process or a restore, an open row belongs to a run that
\* is under way or whose thread died of an error in _finish.
THEOREM RunsOpenRowsHaveRuns == Spec => []OpenRowsHaveRuns
<1>1. RunsInv => OpenRowsHaveRuns
    <2> SUFFICES ASSUME RunsInv, ~restored, ~Swapping, crashesLeft = CrashLimit,
                        NEW p \in OpenRows(db)
                 PROVE  HasRun(p)
        BY DEF OpenRowsHaveRuns, HasRun
    <2>1. p \in Periods /\ db.runs[p] = "open"
        BY DEF OpenRows
    <2>2. Rows = db.runs
        BY DEF Rows, Before, Swapping, RunsInv, StoreInv, StoreShape, RestoreShape
    <2> QED BY <2>1, <2>2 DEF RunsInv, OpenRowsFollowed
<1> QED BY <1>1, RunsInvariant, PTL

\* A copy outside is whole unless its backup was being removed as it was copied,
\* wherever the process stopped (mirror copies under a temporary name).
THEOREM RunsExternalCopiesWhole == Spec => []ExternalCopiesWhole
<1>1. RunsInv => ExternalCopiesWhole
    BY DEF RunsInv, PartsSpent, Spent, ExternalCopiesWhole
<1> QED BY <1>1, RunsInvariant, PTL

=============================================================================
