------------------------------ MODULE Backups ------------------------------
(***************************************************************************)
(* Backups of a running library and their restore: backend/backup and the  *)
(* backup worker of main.go.  The databases are copied in one transaction  *)
(* each, the uploaded files one by one, while books come and go.  Either   *)
(* process may fail or stop between any two steps.                         *)
(*                                                                         *)
(* A file is known by its book.  An upload writes the file before the      *)
(* record and a deletion removes the record before the file; both are      *)
(* modelled in BookFlow.  A backup is made within a day.                   *)
(***************************************************************************)
EXTENDS ClientEvents, FiniteSets

CONSTANTS
    BookIds,
    MaxBackups,      \* bound: how many are begun
    RetentionDays,   \* BACKUP_RETENTION_DAYS; 0 keeps all
    LastDay          \* bound: the clock stops there

ASSUME BackupsAssumption == MaxBackups \in Nat /\ RetentionDays \in Nat /\ LastDay \in Nat

VARIABLES
    volumes,   \* each book of the library: "none", "written", "stored", "dropped" or "gone"
    backups,   \* the directories under BACKUP_DIR
    create,    \* Create: its step, its directory, what is still to copy or to remove
    restore,   \* Restore: its step, its source, what it has copied, its answer
    target,    \* the files Restore writes: main database, sessions, uploads
    day        \* time.Now()

backupVars == <<volumes, backups, create, restore, target, day, events>>
libraryVars == <<volumes, day>>

Records == {b \in BookIds : volumes[b] = "stored"}
Uploads == {b \in BookIds : volumes[b] \in {"written", "stored", "dropped"}}
NoBackup == [state |-> "none", main |-> {}, sessions |-> FALSE, uploads |-> {}, sealed |-> FALSE,
             damaged |-> FALSE, born |-> 0]
NoTarget == [there |-> {}, main |-> {}, uploads |-> {}]
NoRestore == [step |-> "idle", from |-> 0, main |-> {}, uploads |-> {}, found |-> NoTarget,
              spoiled |-> FALSE, answer |-> "none"]

BackupsInit ==
    /\ volumes \in [BookIds -> {"none", "stored"}]
    /\ backups = [n \in 1 .. MaxBackups |-> NoBackup]
    /\ create = [step |-> "idle", n |-> 0, left |-> {}]
    /\ restore = NoRestore
    /\ target \in {NoTarget, [NoTarget EXCEPT !.there = {"main"}]}
    /\ day = 0

-----------------------------------------------------------------------------
(* The library meanwhile (external: BookFlow). *)
LibraryMoves(b) ==
    /\ volumes' = [volumes EXCEPT ![b] =
                      CASE @ = "none" -> "written" [] @ = "written" -> "stored"
                        [] @ = "stored" -> "dropped" [] OTHER -> "gone"]
    /\ volumes[b] # "gone"
    /\ UNCHANGED <<backups, create, restore, target, day>>

DayPasses ==
    /\ day < LastDay /\ create.step = "idle"
    /\ day' = day + 1
    /\ UNCHANGED <<volumes, backups, create, restore, target>>

-----------------------------------------------------------------------------
(* Create, from the worker: when the process starts and at every interval. *)
restoreVars == <<restore, target>>

CreateStarts ==
    /\ create.step = "idle" /\ create.n < MaxBackups
    /\ create' = [step |-> "main", n |-> create.n + 1, left |-> {}]
    /\ backups' = [backups EXCEPT ![create.n + 1].state = "temporary"]
    /\ UNCHANGED <<libraryVars, restoreVars>>

(* db.BackupTo: one read transaction. *)
BackupMain ==
    /\ create.step = "main"
    /\ create' = [create EXCEPT !.step = "sessions"]
    /\ backups' = [backups EXCEPT ![create.n].main = Records]
    /\ UNCHANGED <<libraryVars, restoreVars>>

BackupSessions ==
    /\ create.step = "sessions"
    /\ create' = [create EXCEPT !.step = "walk"]
    /\ backups' = [backups EXCEPT ![create.n].sessions = TRUE]
    /\ UNCHANGED <<libraryVars, restoreVars>>

(* copyTree reads the directory once; a file that has gone since ends the backup. *)
WalkUploads ==
    /\ create.step = "walk"
    /\ create' = [create EXCEPT !.step = "copy", !.left = Uploads]
    /\ UNCHANGED <<libraryVars, backups, restoreVars>>

CopyUpload(b) ==
    /\ create.step = "copy" /\ b \in create.left /\ b \in Uploads
    /\ create' = [create EXCEPT !.left = @ \ {b}]
    /\ backups' = [backups EXCEPT ![create.n].uploads = @ \cup {b}]
    /\ UNCHANGED <<libraryVars, restoreVars>>

(* buildManifest, and Verify of what was written. *)
Seal ==
    /\ create.step = "copy" /\ create.left = {}
    /\ create' = [create EXCEPT !.step = "publish"]
    /\ backups' = [backups EXCEPT ![create.n].sealed = TRUE, ![create.n].born = day]
    /\ UNCHANGED <<libraryVars, restoreVars>>

OlderThanRetention ==
    {n \in 1 .. MaxBackups : backups[n].state \in {"published", "crumbling"} /\ day - backups[n].born > RetentionDays}

\* Mutant: expired backups are removed before the new one has its name.
SweepFirst ==
    /\ create.step = "copy" /\ create.left = {}
    /\ create' = [create EXCEPT !.step = IF RetentionDays = 0 THEN "idle" ELSE "remove", !.left = OlderThanRetention]
    /\ UNCHANGED <<libraryVars, backups, restoreVars>>

(* os.Rename gives the directory its name; removeExpired lists what is too old. *)
PublishBackup ==
    /\ create.step = "publish"
    /\ backups' = [backups EXCEPT ![create.n].state = "published"]
    /\ create' = [create EXCEPT !.step = IF RetentionDays = 0 THEN "idle" ELSE "remove", !.left = OlderThanRetention]
    /\ UNCHANGED <<libraryVars, restoreVars>>

(* os.RemoveAll: files first, which makes the directory new again, the directory last. *)
RemoveExpired(n) ==
    /\ create.step = "remove" /\ n \in create.left
    /\ IF backups[n].state = "published"
       THEN /\ backups' = [backups EXCEPT ![n].state = "crumbling", ![n].born = day]
            /\ restore' = [restore EXCEPT !.spoiled = @ \/ restore.from = n]
            /\ UNCHANGED create
       ELSE /\ backups' = [backups EXCEPT ![n].state = "removed"]
            /\ create' = [create EXCEPT !.left = @ \ {n}]
            /\ UNCHANGED restore
    /\ UNCHANGED <<libraryVars, target>>

CreateEnds ==
    /\ create.step = "remove" /\ create.left = {}
    /\ create' = [create EXCEPT !.step = "idle"]
    /\ UNCHANGED <<libraryVars, backups, restoreVars>>

(* A step fails: the deferred RemoveAll takes the temporary directory away. *)
CreateFails ==
    /\ create.step # "idle"
    /\ create' = [create EXCEPT !.step = "idle", !.left = {}]
    /\ backups' = [backups EXCEPT ![create.n].state = IF @ = "temporary" THEN "removed" ELSE @]
    /\ UNCHANGED <<libraryVars, restoreVars>>

(* The server stops: the temporary directory, or half a removed one, stays. *)
ServerStops ==
    /\ create.step # "idle"
    /\ create' = [create EXCEPT !.step = "idle", !.left = {}]
    /\ UNCHANGED <<libraryVars, backups, restoreVars>>

(* The disk damages a backup (external). *)
Damage(n) ==
    /\ backups[n].state = "published" /\ ~backups[n].damaged
    /\ backups' = [backups EXCEPT ![n].damaged = TRUE]
    /\ restore' = [restore EXCEPT !.spoiled = @ \/ restore.from = n]
    /\ UNCHANGED <<libraryVars, create, target>>

-----------------------------------------------------------------------------
(* Verify: every digest of the manifest, and both databases open.  A directory *)
(* that never got its name passes too.                                         *)
Verify(n) == backups[n].state \in {"temporary", "published"} /\ backups[n].sealed /\ ~backups[n].damaged

createVars == <<backups, create>>

(* Restore checks the backup and that all three targets are absent. *)
RestoreStarts(n) ==
    /\ restore.step = "idle" /\ backups[n].state # "none"
    /\ restore' = [NoRestore EXCEPT !.from = n, !.found = target,
                     !.step = IF Verify(n) /\ target = NoTarget THEN "databases" ELSE "idle",
                     !.answer = IF Verify(n) /\ target = NoTarget THEN "none" ELSE "failed"]
    /\ UNCHANGED <<libraryVars, createVars, target>>

RestoreDatabases ==
    /\ restore.step = "databases" /\ backups[restore.from].state \in {"temporary", "published", "crumbling"}
    /\ restore' = [restore EXCEPT !.step = "uploads", !.main = backups[restore.from].main]
    /\ UNCHANGED <<libraryVars, createVars, target>>

(* copyTree copies what it finds: of a directory that is being removed, some. *)
RestoreUploads ==
    LET from == backups[restore.from]
    IN  /\ restore.step = "uploads" /\ from.state \in {"temporary", "published", "crumbling"}
        /\ \E some \in IF from.state = "crumbling" THEN SUBSET from.uploads ELSE {from.uploads} :
             restore' = [restore EXCEPT !.step = "renameMain", !.uploads = some]
        /\ UNCHANGED <<libraryVars, createVars, target>>

RenameMain ==
    /\ restore.step = "renameMain"
    /\ target' = [target EXCEPT !.there = @ \cup {"main"}, !.main = restore.main]
    /\ restore' = [restore EXCEPT !.step = "renameSessions"]
    /\ UNCHANGED <<libraryVars, createVars>>

RenameSessions ==
    /\ restore.step = "renameSessions"
    /\ target' = [target EXCEPT !.there = @ \cup {"sessions"}]
    /\ restore' = [restore EXCEPT !.step = "renameUploads"]
    /\ UNCHANGED <<libraryVars, createVars>>

RenameUploads ==
    /\ restore.step = "renameUploads"
    /\ target' = [target EXCEPT !.there = @ \cup {"uploads"}, !.uploads = restore.uploads]
    /\ restore' = [restore EXCEPT !.step = "idle", !.answer = "ok"]
    /\ UNCHANGED <<libraryVars, createVars>>

\* Mutant: what was renamed stays when a later step fails.
RestoreFailsKeeping ==
    /\ restore.step # "idle"
    /\ restore' = [restore EXCEPT !.step = "idle", !.answer = "failed"]
    /\ UNCHANGED <<libraryVars, createVars, target>>

(* A step fails: what was renamed is removed again, the copies too. *)
RestoreFails ==
    /\ restore.step # "idle"
    /\ restore' = [restore EXCEPT !.step = "idle", !.answer = "failed"]
    /\ target' = NoTarget
    /\ UNCHANGED <<libraryVars, createVars>>

(* The command is killed: what was renamed stays. *)
RestoreStops ==
    /\ restore.step # "idle"
    /\ restore' = [restore EXCEPT !.step = "idle", !.answer = "stopped"]
    /\ UNCHANGED <<libraryVars, createVars, target>>

(* The operator moves the old data away. *)
ClearTarget ==
    /\ restore.step = "idle" /\ target # NoTarget
    /\ target' = NoTarget
    /\ restore' = NoRestore
    /\ UNCHANGED <<libraryVars, createVars>>

BackupsNext ==
    \/ External /\ ((\E b \in BookIds : LibraryMoves(b)) \/ CreateStarts)
    \/ Internal /\ (DayPasses \/ BackupMain \/ BackupSessions \/ WalkUploads \/ (\E b \in BookIds : CopyUpload(b)) \/ Seal)
    \/ Internal /\ (PublishBackup \/ (\E n \in 1 .. MaxBackups : RemoveExpired(n)) \/ CreateEnds)
    \/ External /\ (CreateFails \/ ServerStops \/ \E n \in 1 .. MaxBackups : Damage(n) \/ RestoreStarts(n))
    \/ Internal /\ (RestoreDatabases \/ RestoreUploads \/ RenameMain \/ RenameSessions \/ RenameUploads)
    \/ External /\ (RestoreFails \/ RestoreStops \/ ClearTarget)

(***************************************************************************)
(* Properties                                                              *)
(***************************************************************************)

(* What has the name of a backup is one, wherever Create failed or stopped: *)
(* both databases and a manifest, and of every book on record the file,     *)
(* unless the book was deleted while the backup was made.                   *)
PublishedWhole ==
    \A n \in 1 .. MaxBackups : backups[n].state = "published" =>
        /\ backups[n].sealed /\ backups[n].sessions
        /\ \A b \in backups[n].main \ backups[n].uploads : volumes[b] \in {"dropped", "gone"}

(* A restore that succeeds has brought back all of one backup, one that   *)
(* fails leaves what it found, and what was there is never overwritten,   *)
(* not even what an earlier restore left when it was killed.              *)
RestoredWhole ==
    /\ restore.answer = "ok" /\ ~restore.spoiled =>
         target = [there |-> {"main", "sessions", "uploads"}, main |-> backups[restore.from].main,
                   uploads |-> backups[restore.from].uploads]
    /\ restore.answer = "failed" => target = restore.found
    /\ restore.found # NoTarget => target = restore.found

(* A backup is removed only when a newer one is there. *)
NewestStays ==
    [][\A n \in 1 .. MaxBackups : backups[n].state = "published" /\ backups'[n].state # "published" =>
         \E m \in 1 .. MaxBackups : m > n /\ backups'[m].state = "published"]_backupVars

BackupsSafe == [](PublishedWhole /\ RestoredWhole) /\ NewestStays
=============================================================================
