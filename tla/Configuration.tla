--------------------------- MODULE Configuration ---------------------------
(***************************************************************************)
(* The configuration in memory (config.py), the file it is read from, which *)
(* an operator edits and api/config_service.py replaces, and the settings  *)
(* of the database that are laid over it.  Each of the two ConfigService    *)
(* instances (the API's and the router's) remembers the signature of the    *)
(* file it loaded last; the thread of the backup scheduler reloads without *)
(* asking.  Every read, load and write is a step of its own.               *)
(***************************************************************************)
EXTENDS Naturals, FiniteSets

CONSTANTS
    Services,     \* instances of ConfigService, each with a lock and a signature
    Web,          \* the one that replaces the file
    MaxEdits,     \* bound: edits of the operator
    MaxReplaces,  \* bound: replacements by the program
    MaxSaves      \* bound: saved settings

ASSUME ConfigurationAssumption ==
    /\ Web \in Services
    /\ {MaxEdits, MaxReplaces, MaxSaves} \subseteq Nat
    /\ {"scheduler", "saver", "replacer"} \cap Services = {}

VARIABLES
    file,         \* config.yaml
    used,         \* Config._disk_data: the file as the program uses it
    overlay,      \* Config._runtime_overlay: the settings it uses
    rows,         \* the settings of the database
    loaded,       \* loaded[s]: _last_loaded_signature
    tasks,        \* what each thread is doing
    edits, replaces

vars == <<file, used, overlay, rows, loaded, tasks, edits, replaces>>

-----------------------------------------------------------------------------

MaxTexts == MaxEdits + MaxReplaces + 1

\* What a file says; "invalid" is YAML that validate_config refuses.
Health == {"valid", "invalid", "unparsable"}
Content == [text : 1..MaxTexts, health : Health]

\* Every write gives the file a new signature (modification time and size).
File == [signature : 1..(MaxTexts + MaxReplaces), content : Content]

Threads == Services \cup {"scheduler", "saver", "replacer"}

Task == [step : {"idle", "signed", "checked", "read", "source", "overlay", "saved",
                 "write", "written", "restore", "restored", "sign", "dead"},
         signature : Nat,       \* the local signature of refresh
         content : Content,     \* what reload has read, or replace has to restore
         value : 0..MaxSaves,   \* the overlay that was read
         sync : BOOLEAN]        \* refresh was called by synchronize

Free(content) == [step |-> "idle", signature |-> 0, content |-> content,
                  value |-> 0, sync |-> FALSE]

Good == [text |-> 1, health |-> "valid"]
Idle == Free(Good)

Init ==
    /\ file = [signature |-> 1, content |-> Good]
    /\ used = Good
    /\ overlay = 0
    /\ rows = 0
    /\ loaded = [s \in Services |-> 1]
    /\ tasks = [t \in Threads |-> Idle]
    /\ edits = 0
    /\ replaces = 0

At(t, step) == tasks[t].step = step
Done(t) == tasks' = [tasks EXCEPT ![t] = Idle]
To(t, step) == tasks' = [tasks EXCEPT ![t].step = step]

\* What was read is no longer needed.
Forget(t, step) ==
    tasks' = [tasks EXCEPT ![t] = [Idle EXCEPT !.step = step, !.sync = tasks[t].sync]]

\* What the file says next is new; nobody writes the same text twice.
NewText == edits + replaces + 2
Written(content) == [signature |-> file.signature + 1, content |-> content]

\* The operator saves an edit, good or bad.
Edit(health) ==
    /\ edits < MaxEdits
    /\ edits' = edits + 1
    /\ file' = Written([text |-> NewText, health |-> health])
    /\ UNCHANGED <<used, overlay, rows, loaded, tasks, replaces>>

-----------------------------------------------------------------------------
(* ConfigService.refresh, under the lock of the service; alone, or at the  *)
(* beginning of synchronize, under _SYNC_LOCK.                             *)

SyncFree == \A s \in Services : ~tasks[s].sync

\* The replacement of the file holds the lock of its service.
LockFree(s) == s = Web => At("replacer", "idle")

\* Every request and every event begins with it.
Sign(s, sync) ==
    /\ At(s, "idle")
    /\ sync => SyncFree
    /\ LockFree(s)
    /\ \/ /\ file.signature # loaded[s]
          /\ tasks' = [tasks EXCEPT ![s].step = "signed", ![s].sync = sync,
                                    ![s].signature = file.signature]
       \/ /\ file.signature = loaded[s]
          /\ sync
          /\ tasks' = [tasks EXCEPT ![s].step = "source", ![s].sync = TRUE]
    /\ UNCHANGED <<file, used, overlay, rows, loaded, edits, replaces>>

\* The file is read and validated; a bad one is refused with its errors.
Check(s) ==
    /\ At(s, "signed")
    /\ IF file.content.health = "valid" THEN To(s, "checked") ELSE Done(s)
    /\ UNCHANGED <<file, used, overlay, rows, loaded, edits, replaces>>

\* Config.reload reads it again, before it takes the lock of the configuration.
ReadFile(t, next) ==
    tasks' = [tasks EXCEPT ![t].step = next, ![t].content = file.content]

Read(s) ==
    /\ At(s, "checked")
    /\ IF file.content.health = "unparsable" THEN Done(s) ELSE ReadFile(s, "read")
    /\ UNCHANGED <<file, used, overlay, rows, loaded, edits, replaces>>

Load(s) ==
    /\ At(s, "read")
    /\ used' = tasks[s].content
    /\ loaded' = [loaded EXCEPT ![s] = tasks[s].signature]
    /\ IF tasks[s].sync THEN Forget(s, "source") ELSE Done(s)
    /\ UNCHANGED <<file, overlay, rows, edits, replaces>>

\* Mutant: synchronize takes the settings from the configuration in use.
SourceInUse(s) ==
    /\ At(s, "source")
    /\ IF file.content.health = "valid"
       THEN tasks' = [tasks EXCEPT ![s].step = "overlay", ![s].value = overlay]
       ELSE Done(s)
    /\ UNCHANGED <<file, used, overlay, rows, loaded, edits, replaces>>

\* synchronize looks at the text once more, and reads the settings ...
Source(s) ==
    /\ At(s, "source")
    /\ IF file.content.health = "valid"
       THEN tasks' = [tasks EXCEPT ![s].step = "overlay", ![s].value = rows]
       ELSE Done(s)
    /\ UNCHANGED <<file, used, overlay, rows, loaded, edits, replaces>>

\* ... that apply_runtime_overlay lays over the file.
Overlay(t) ==
    /\ At(t, "overlay")
    /\ overlay' = tasks[t].value
    /\ Done(t)
    /\ UNCHANGED <<file, used, rows, loaded, edits, replaces>>

-----------------------------------------------------------------------------
(* An administrator saves a setting: a row, then the overlay.              *)

Save ==
    /\ At("saver", "idle") /\ rows < MaxSaves
    /\ rows' = rows + 1
    /\ To("saver", "saved")
    /\ UNCHANGED <<file, used, overlay, loaded, edits, replaces>>

ReadSaved ==
    /\ At("saver", "saved")
    /\ tasks' = [tasks EXCEPT !["saver"].step = "overlay", !["saver"].value = rows]
    /\ UNCHANGED <<file, used, overlay, rows, loaded, edits, replaces>>

-----------------------------------------------------------------------------
(* ConfigService.replace.                                                  *)

\* The file is read and copied, the candidate validated.
BeginReplace ==
    /\ At("replacer", "idle") /\ replaces < MaxReplaces
    /\ tasks[Web].step \in {"idle", "source", "overlay"}
    /\ file.content.health = "valid"
    /\ ReadFile("replacer", "write")
    /\ UNCHANGED <<file, used, overlay, rows, loaded, edits, replaces>>

WriteFile ==
    /\ At("replacer", "write")
    /\ file' = Written([text |-> NewText, health |-> "valid"])
    /\ replaces' = replaces + 1
    /\ To("replacer", "written")
    /\ UNCHANGED <<used, overlay, rows, loaded, edits>>

\* Reload: what it reads may be an edit made meanwhile, which it does not
\* validate; one that is not YAML has the file restored.
ReloadWritten ==
    /\ At("replacer", "written")
    /\ IF file.content.health = "unparsable"
       THEN To("replacer", "restore")
       ELSE ReadFile("replacer", "read")
    /\ UNCHANGED <<file, used, overlay, rows, loaded, edits, replaces>>

Restore ==
    /\ At("replacer", "restore")
    /\ file' = Written(tasks["replacer"].content)
    /\ To("replacer", "restored")
    /\ UNCHANGED <<used, overlay, rows, loaded, edits, replaces>>

\* A second error leaves replace() as it is.
ReloadRestored ==
    /\ At("replacer", "restored")
    /\ IF file.content.health = "unparsable"
       THEN Done("replacer")
       ELSE ReadFile("replacer", "read")
    /\ UNCHANGED <<file, used, overlay, rows, loaded, edits, replaces>>

LoadWritten ==
    /\ At("replacer", "read")
    /\ used' = tasks["replacer"].content
    /\ Forget("replacer", "sign")
    /\ UNCHANGED <<file, overlay, rows, loaded, edits, replaces>>

\* The signature is that of the file now, whatever was loaded.
SignWritten ==
    /\ At("replacer", "sign")
    /\ loaded' = [loaded EXCEPT ![Web] = file.signature]
    /\ Done("replacer")
    /\ UNCHANGED <<file, used, overlay, rows, edits, replaces>>

Replace ==
    \/ WriteFile \/ ReloadWritten \/ Restore \/ ReloadRestored
    \/ LoadWritten \/ SignWritten

-----------------------------------------------------------------------------
(* BackupScheduler.run_due begins with a reload of its own.                *)

\* Mutant: the scheduler asks a service whether the file has changed.
ScheduleChanged ==
    /\ At("scheduler", "idle")
    /\ file.content.health # "unparsable"
    /\ file.signature # loaded[Web]
    /\ ReadFile("scheduler", "read")
    /\ UNCHANGED <<file, used, overlay, rows, loaded, edits, replaces>>

Schedule ==
    /\ At("scheduler", "idle")
    /\ file.content.health # "unparsable"
    /\ ReadFile("scheduler", "read")
    /\ UNCHANGED <<file, used, overlay, rows, loaded, edits, replaces>>

\* A time of day that validation would have refused ends the thread.
LoadSchedule ==
    /\ At("scheduler", "read")
    /\ used' = tasks["scheduler"].content
    /\ \/ Done("scheduler")
       \/ tasks["scheduler"].content.health = "invalid" /\ Forget("scheduler", "dead")
    /\ UNCHANGED <<file, overlay, rows, loaded, edits, replaces>>

-----------------------------------------------------------------------------

Refresh(s) ==
    \/ \E sync \in BOOLEAN : Sign(s, sync)
    \/ Check(s) \/ Read(s) \/ Load(s) \/ Source(s) \/ Overlay(s)

Next ==
    \/ \E health \in Health : Edit(health)
    \/ \E s \in Services : Refresh(s)
    \/ Save \/ ReadSaved \/ Overlay("saver")
    \/ BeginReplace \/ Replace
    \/ Schedule \/ LoadSchedule

\* Requests and events, each of which synchronizes, keep coming; what was begun
\* is ended; the scheduler comes round every thirty seconds.
Spec ==
    /\ Init /\ [][Next]_vars
    /\ \A s \in Services :
           /\ SF_vars(Sign(s, TRUE))
           /\ WF_vars(Check(s) \/ Read(s) \/ Load(s) \/ Source(s) \/ Overlay(s))
    /\ WF_vars(ReadSaved \/ Overlay("saver"))
    /\ WF_vars(Replace)
    /\ WF_vars(Schedule \/ LoadSchedule)

-----------------------------------------------------------------------------

ConfigurationTypeOK ==
    /\ file \in File
    /\ used \in Content
    /\ overlay \in 0..MaxSaves
    /\ rows \in 0..MaxSaves
    /\ loaded \in [Services -> 1..(MaxTexts + MaxReplaces)]
    /\ tasks \in [Threads -> Task]
    /\ edits \in 0..MaxEdits
    /\ replaces \in 0..MaxReplaces

\* "Valid external YAML edits appear in the WebUI and runtime automatically"
\* (docs/releases/v2.1.0.md), whatever reloads overtake each other: in the end
\* the program uses the file as it is, if it is good, unless a bad one has ended
\* the thread of the scheduler, the only one that reloads unasked.
EditsTakeEffect ==
    <>[](file.content.health = "valid" => used = file.content \/ At("scheduler", "dead"))

\* A setting that was saved is in force in the end, although the overlay is read
\* and applied in two steps that an older one may overtake.
SettingsTakeEffect == <>[](file.content.health = "valid" => overlay = rows)

\* "Invalid external YAML never replaces the last known-good runtime state"
\* (CHANGELOG.md).
LastKnownGood == used.health = "valid"

=============================================================================
