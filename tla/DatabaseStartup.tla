--------------------------- MODULE DatabaseStartup ---------------------------
(***************************************************************************)
(* The history file cubby.db, its rolling backup cubby.db.bak and its key, *)
(* from the start of the application to its end: quarantine and restore,   *)
(* the storage key, the migrations, the merge of duplicates, and the       *)
(* hourly refresh of the backup beside a session that writes               *)
(* (src-tauri/src/database.rs, crypto.rs; lib.rs: run_app; commands.rs:    *)
(* migrate_encrypted_storage, migrate_clip_format_model).                  *)
(*                                                                         *)
(* The application can end between any two steps.  SQLite makes each       *)
(* statement outside of a transaction, and each transaction, atomic.       *)
(***************************************************************************)
EXTENDS Naturals, FiniteSets

CONSTANTS
    Clips,          \* uuids; some may hold the same content
    Contents,
    ContentOf,
    Images,         \* the clips that are images
    FileClips,      \* the clips that are references to files, of an older version
    Keys,           \* storage keys; one is generated per first start
    Absent, Torn,
    InitialRows,    \* what an older version has left
    RichBackup,     \* 100 clips
    MaxWrites, MaxStepFailures, MaxCrashes, MaxDays, MaxFileDamage

ASSUME DatabaseAssumption ==
    /\ IsFiniteSet(Clips) /\ ContentOf \in [Clips -> Contents]
    /\ Images \subseteq Clips /\ FileClips \subseteq Clips \ Images
    /\ Absent # Torn /\ Absent \notin Keys
    /\ {RichBackup, MaxWrites, MaxStepFailures, MaxCrashes, MaxDays, MaxFileDamage} \subseteq Nat

Gone == [gone |-> TRUE]
Row == [key : Keys \cup {Absent},   \* Absent: not encrypted
        hash : 0 .. 2,              \* plain, keyed, keyed over all formats
        deleted : BOOLEAN, pinned : BOOLEAN,
        original : {"none", "blob", "older", "file"}]
Rows == [Clips -> Row \cup {Gone}]
History == [rows : Rows,
            tables : BOOLEAN,       \* the schema is there
            encrypted : BOOLEAN,    \* storage_encryption_version
            hashed : BOOLEAN,       \* clip_format_model_version
            unique : BOOLEAN]       \* idx_clips_hash_unique

\* What an older version has left, not encrypted: originals were kept in the table, or
\* in files of another name.
ASSUME OlderAssumption ==
    /\ Absent \notin History /\ Torn \notin History
    /\ InitialRows \subseteq Rows
    /\ \A rows \in InitialRows, c \in Clips : rows[c] # Gone =>
          rows[c].original # "file" /\ rows[c].key = Absent

VARIABLES
    main,       \* cubby.db
    sidecar,    \* whether it has a -wal or -shm file
    bak,        \* cubby.db.bak
    fresh,      \* whether the backup is less than 24 hours old
    files,      \* the clips whose {uuid}.cubby exists
    older,      \* the clips whose file of an older version exists
    storageKey, \* storage.key
    app,        \* the application: where its start is
    refresh,    \* the refresh of the backup under way
    expected,   \* history: the contents the user has not deleted
    told,       \* history: a rewrite of the history has reached the log
    brought,    \* history: clips whose row a restore has brought back
    counts

startupVars == <<main, sidecar, bak, fresh, files, older, storageKey, app, refresh, expected, told,
                 brought, counts>>
storage == <<main, sidecar, bak, fresh, files, older, storageKey>>
startupHistory == <<expected, told, brought>>

\* lost: the notices of a start that ended before the logger was there.
Off(lost) == [pc |-> "off", lost |-> lost]
Idle == [pc |-> "idle"]

StartupPc == {"assess", "refresh", "quarantine", "sidecar", "restore", "copy", "open",
            "key", "install", "migrate", "encrypt", "hash", "unique", "unlink", "up"}

AppType == [pc : StartupPc, lost : BOOLEAN, key : Keys \cup {Absent}, todo : SUBSET Clips,
            notices : BOOLEAN, retry : BOOLEAN]
RefreshType == [pc : {"count", "copy", "install", "recover"},
                copy : History \cup {Absent, Torn}, deleted : BOOLEAN, uncounted : BOOLEAN]

\* The type invariant.
StartupTypeOK ==
    /\ main \in History \cup {Absent, Torn} /\ bak \in History \cup {Absent, Torn}
    /\ sidecar \in BOOLEAN /\ fresh \in BOOLEAN
    /\ files \subseteq Clips /\ older \subseteq Clips /\ storageKey \in Keys \cup {Absent}
    /\ app \in [pc : {"off"}, lost : BOOLEAN] \cup AppType
    /\ refresh \in {Idle} \cup RefreshType
    /\ expected \subseteq Contents /\ told \in BOOLEAN
    /\ brought \subseteq Clips
    /\ counts \in [writes : 0 .. MaxWrites, failures : 0 .. MaxStepFailures,
                   crashes : 0 .. MaxCrashes, days : 0 .. MaxDays, damage : 0 .. MaxFileDamage]

Has(h, c) == h.rows[c] # Gone
VisibleClips(h) == { c \in Clips : Has(h, c) /\ ~h.rows[c].deleted }
Visible(h) == { ContentOf[c] : c \in VisibleClips(h) }

Legacy(rows) ==
    [rows |-> rows, tables |-> TRUE, encrypted |-> FALSE, hashed |-> FALSE, unique |-> FALSE]
Empty == [Legacy([c \in Clips |-> Gone]) EXCEPT !.tables = FALSE]

StartupInit ==
    /\ main \in { Legacy(rows) : rows \in InitialRows }
    /\ sidecar = FALSE /\ bak = Absent /\ fresh = FALSE
    /\ files = {} /\ storageKey = Absent
    /\ older = { c \in Clips : Has(main, c) /\ main.rows[c].original = "older" }
    /\ app = Off(FALSE) /\ refresh = Idle
    /\ expected = Visible(main)
    /\ told = FALSE /\ brought = {}
    /\ counts = [writes |-> 0, failures |-> 0, crashes |-> 0, days |-> 0, damage |-> 0]

Counting == [pc |-> "count", copy |-> Absent, deleted |-> FALSE, uncounted |-> FALSE]

At(pc) == app.pc = pc
Go(pc) == app' = [app EXCEPT !.pc = pc]
StepFails == counts.failures < MaxStepFailures /\ counts' = [counts EXCEPT !.failures = @ + 1]
StepWorks == UNCHANGED counts
Stops == app' = Off(app.lost \/ app.notices)

----------------------------------------------------------------------------
(* Database::new: prepare_database_file.                                   *)

Launch ==
    /\ At("off")
    /\ app' = [lost |-> app.lost, pc |-> IF main = Absent THEN "open" ELSE "assess",
               key |-> Absent, todo |-> {}, notices |-> FALSE, retry |-> FALSE]
    /\ UNCHANGED <<storage, refresh, startupHistory, counts>>

\* assess_database_file: only a check that found damage leads to a quarantine.  A
\* check that cannot be made, five times, ends the start and touches nothing.
Assess ==
    /\ At("assess")
    /\ \/ main = Torn /\ Go("quarantine") /\ StepWorks /\ UNCHANGED refresh
       \/ /\ main # Torn /\ StepWorks
          /\ Go("refresh")
          /\ refresh' = IF bak # Absent /\ fresh THEN Idle
                        ELSE Counting
       \/ Stops /\ StepFails /\ UNCHANGED refresh
    /\ UNCHANGED <<storage, startupHistory>>

\* The start waits for its refresh, and goes on if it has failed.
AfterRefresh ==
    /\ At("refresh") /\ refresh = Idle
    /\ Go("open")
    /\ UNCHANGED <<storage, refresh, startupHistory, counts>>

\* quarantine_database_files: the file, and then its sidecars.
QuarantineMain ==
    /\ At("quarantine")
    /\ \/ /\ main' = Absent /\ StepWorks
          /\ app' = [app EXCEPT !.pc = "sidecar", !.notices = TRUE]
       \/ UNCHANGED main /\ Stops /\ StepFails
    /\ UNCHANGED <<sidecar, bak, fresh, files, older, storageKey, refresh, startupHistory>>

QuarantineSidecar ==
    /\ At("sidecar")
    /\ \/ sidecar' = FALSE /\ Go("restore") /\ StepWorks
       \/ sidecar /\ Stops /\ StepFails /\ UNCHANGED sidecar
    /\ UNCHANGED <<main, bak, fresh, files, older, storageKey, refresh, startupHistory>>

\* restore_from_rolling_backup: the backup is checked first, and copied.
Restore ==
    /\ At("restore")
    /\ \/ bak \in {Absent, Torn} /\ Go("open") /\ StepWorks
       \/ bak \notin {Absent, Torn} /\ Go("copy") /\ StepWorks
       \/ bak # Absent /\ Go("open") /\ StepFails
    /\ UNCHANGED <<storage, refresh, startupHistory>>

RestoreCopy ==
    /\ At("copy")
    /\ \/ /\ main' = bak /\ StepWorks
          /\ brought' = brought \cup { c \in Clips : Has(bak, c) }
       \/ main' \in {Absent, Torn} /\ StepFails /\ UNCHANGED brought
    /\ Go("open")
    /\ UNCHANGED <<sidecar, bak, fresh, files, older, storageKey, refresh, expected, told>>

----------------------------------------------------------------------------
(* Database::new: the connection and the key.                              *)

Open ==
    /\ At("open")
    /\ IF main = Torn THEN Stops /\ UNCHANGED main
       ELSE /\ main' = IF main = Absent THEN Empty ELSE main
            /\ Go("key")
    /\ StepWorks
    /\ UNCHANGED <<sidecar, bak, fresh, files, older, storageKey, refresh, startupHistory>>

\* CryptoManager::load_or_create.
LoadKey ==
    /\ At("key")
    /\ CASE storageKey # Absent ->
              app' = [app EXCEPT !.pc = "migrate", !.key = storageKey]
         [] storageKey = Absent /\ main.encrypted -> Stops
         [] OTHER -> \E k \in Keys : app' = [app EXCEPT !.pc = "install", !.key = k]
    /\ UNCHANGED <<storage, refresh, startupHistory, counts>>

\* install_storage_key_file: a hard link, or a rename that does not replace; a key
\* that another first start has put there meanwhile is loaded instead.
InstallKey ==
    /\ At("install")
    /\ \/ storageKey = Absent /\ storageKey' = app.key /\ Go("migrate") /\ StepWorks
       \/ /\ storageKey # Absent /\ UNCHANGED storageKey /\ StepWorks
          /\ app' = [app EXCEPT !.pc = "migrate", !.key = storageKey]
       \/ UNCHANGED storageKey /\ Stops /\ StepFails
    /\ UNCHANGED <<main, sidecar, bak, fresh, files, older, refresh, startupHistory>>

\* Another first start, before the check for a single instance.
RivalInstallsKey ==
    /\ storageKey = Absent /\ At("install")
    /\ \E k \in Keys \ {app.key} : storageKey' = k
    /\ UNCHANGED <<main, sidecar, bak, fresh, files, older, app, refresh, startupHistory, counts>>

----------------------------------------------------------------------------
(* The migrations.                                                         *)

SetRow(c, r) == main' = [main EXCEPT !.rows[c] = r]
All(h) == { c \in Clips : Has(h, c) }

\* Database::migrate: the schema; references to files are removed and reported.
Migrate ==
    /\ At("migrate")
    /\ LET removed == All(main) \cap FileClips
       IN \/ /\ main' = [main EXCEPT !.tables = TRUE, !.rows = [c \in Clips |->
                            IF c \in removed THEN Gone ELSE @[c]]]
             /\ expected' = IF removed = {} THEN expected ELSE
                               expected \ { ContentOf[c] : c \in removed }
             /\ app' = [app EXCEPT !.pc = "encrypt", !.todo = All(main) \ removed,
                                   !.notices = @ \/ removed # {}]
             /\ StepWorks
          \/ Stops /\ StepFails /\ UNCHANGED <<main, expected>>
    /\ UNCHANGED <<sidecar, bak, fresh, files, older, storageKey, refresh, told, brought>>

\* Mutant: the version is noted before the rows are done.
EncryptMarkFirst ==
    /\ At("encrypt")
    /\ \/ \E c \in app.todo :
             /\ main.rows[c].key = Absent
             /\ main' = [main EXCEPT !.rows[c].key = app.key, !.rows[c].hash = 1,
                                     !.encrypted = TRUE]
             /\ app' = [app EXCEPT !.todo = @ \ {c}]
       \/ /\ \A c \in app.todo : main.rows[c].key # Absent
          /\ main' = [main EXCEPT !.encrypted = TRUE]
          /\ app' = [app EXCEPT !.pc = "hash", !.todo = All(main)]
    /\ StepWorks
    /\ UNCHANGED <<sidecar, bak, fresh, files, older, storageKey, refresh, startupHistory>>

\* Where an original is kept now.
Live(c) == \/ main.rows[c].original = "blob"
           \/ main.rows[c].original = "file" /\ c \in files

\* image_bytes_for_encryption_migration: a file that is there, the table, or the content
\* of a row that is not encrypted.
HasPayload(c) == Live(c) \/ main.rows[c].key = Absent

\* migrate_encrypted_storage: one transaction per clip, the version at the end.  The
\* original of an image is written to its file before, and the file of an older version
\* is removed after, if that works and the file is in the folder of the application.  An
\* image that is nowhere to be found ends every start.
Encrypt ==
    /\ At("encrypt")
    /\ \/ /\ ~main.encrypted
          /\ \E c \in app.todo :
                IF c \in Images /\ ~HasPayload(c)
                THEN Stops /\ StepWorks /\ UNCHANGED <<main, files, older>>
                ELSE
                /\ files' = IF c \in Images THEN files \cup {c} ELSE files
                /\ \/ /\ SetRow(c, [main.rows[c] EXCEPT
                                !.key = app.key, !.hash = 1,
                                !.original = IF c \in Images THEN "file" ELSE @])
                      /\ older' \in IF c \in Images THEN {older, older \ {c}} ELSE {older}
                      /\ app' = [app EXCEPT !.todo = @ \ {c}] /\ StepWorks
                   \/ Stops /\ StepFails /\ UNCHANGED <<main, older>>
       \/ /\ main.encrypted \/ app.todo = {}
          /\ main' = [main EXCEPT !.encrypted = TRUE]
          /\ app' = [app EXCEPT !.pc = "hash", !.todo = All(main)]
          /\ StepWorks /\ UNCHANGED <<files, older>>
    /\ UNCHANGED <<sidecar, bak, fresh, storageKey, refresh, startupHistory>>

\* migrate_clip_format_model: each row on its own, again.
Rehash ==
    /\ At("hash")
    /\ \/ /\ ~main.hashed
          /\ \E c \in app.todo :
                \/ /\ main' = [main EXCEPT !.rows[c].hash = 2]
                   /\ app' = [app EXCEPT !.todo = @ \ {c}] /\ StepWorks
                \/ Stops /\ StepFails /\ UNCHANGED main
       \/ /\ main.hashed \/ app.todo = {}
          /\ main' = [main EXCEPT !.hashed = TRUE]
          /\ Go("unique") /\ StepWorks
    /\ UNCHANGED <<sidecar, bak, fresh, files, older, storageKey, refresh, startupHistory>>

\* enforce_content_hash_uniqueness.  Any copy may have
\* the lowest id.
Copies(c) == { d \in All(main) : /\ ContentOf[d] = ContentOf[c]
                                 /\ main.rows[d].hash = main.rows[c].hash }

\* Mutant: a deleted copy may survive a visible one.
AnySurvivor(c) == Copies(c) # {}

\* The survivor: a visible copy if there is one; the pin and a readable original of
\* the others pass to it.
IsSurvivor(c) == \A d \in Copies(c) : main.rows[d].deleted \/ ~main.rows[c].deleted

Merged(c) ==
    LET adopts == ~Live(c) /\ \E d \in Copies(c) : Live(d)
        from == CHOOSE d \in Copies(c) : Live(d)
    IN [main.rows[c] EXCEPT
           !.pinned = \E d \in Copies(c) : main.rows[d].pinned,
           !.original = IF adopts THEN main.rows[from].original ELSE @]

Adopters(keep) == { c \in keep : /\ ~Live(c)
                                 /\ \E d \in Copies(c) : Live(d) /\ main.rows[d].original = "file" }

\* Mutant: the files of the others are gone before their rows.
UniqueUnlinkFirst ==
    /\ At("unique")
    /\ \E keep \in SUBSET All(main) :
          /\ \A c \in All(main) : Cardinality(keep \cap Copies(c)) = 1
          /\ files' = files \ (All(main) \ keep)
    /\ Go("unlink") /\ StepFails
    /\ UNCHANGED <<main, sidecar, bak, fresh, older, storageKey, refresh, startupHistory>>

\* The files of adopted originals are copied in the transaction, those of the rows it
\* removes are unlinked after it.  A failure leaves the rows as they were.
Unique ==
    /\ At("unique")
    /\ \E keep \in SUBSET All(main) :
          /\ \A c \in All(main) : Cardinality(keep \cap Copies(c)) = 1
          /\ \A c \in keep : IsSurvivor(c)
          /\ files' = files \cup Adopters(keep)
          /\ \/ /\ main' = [main EXCEPT
                     !.rows = [c \in Clips |-> IF c \in keep THEN Merged(c) ELSE Gone],
                     !.unique = TRUE]
                /\ app' = [app EXCEPT !.pc = "unlink",
                            !.todo = { c \in All(main) \ keep : main.rows[c].original = "file" }]
                /\ StepWorks
             \/ /\ UNCHANGED main /\ StepFails
                /\ app' = [app EXCEPT !.pc = "unlink", !.todo = {}]
    /\ UNCHANGED <<sidecar, bak, fresh, older, storageKey, refresh, startupHistory>>

\* After the transaction, if that works; then the logger is there and the notices are flushed.
Unlink ==
    /\ At("unlink")
    /\ \/ \E c \in app.todo :
             /\ files' \in {files, files \ {c}}
             /\ app' = [app EXCEPT !.todo = @ \ {c}]
             /\ UNCHANGED told
       \/ /\ app.todo = {} /\ Go("up")
          /\ told' = (told \/ app.notices)
          /\ UNCHANGED files
    /\ UNCHANGED <<main, sidecar, bak, fresh, older, storageKey, refresh, expected,
                   brought, counts>>

----------------------------------------------------------------------------
(* perform_rolling_backup_refresh, of the start or of the hourly task.     *)

\* start_rolling_backup_scheduler: RollingBackupScheduler::tick_using.
Tick ==
    /\ At("up") /\ refresh = Idle
    /\ app.retry \/ bak = Absent \/ ~fresh
    /\ refresh' = Counting
    /\ UNCHANGED <<storage, app, startupHistory, counts>>

NumClips(h) == Cardinality(VisibleClips(h))
Refused == /\ bak \notin {Absent, Torn}
           /\ NumClips(bak) >= RichBackup
           /\ NumClips(main) * 10 < NumClips(bak)

\* count_clips_in_file: without tables there is nothing to count.
Countable == main.tables /\ bak # Torn /\ bak.tables

Retry(again) == app' = [app EXCEPT !.retry = again]

\* Mutant: the number of clips is not looked at.
CountNothing ==
    /\ refresh.pc = "count"
    /\ refresh' = [refresh EXCEPT !.pc = "copy"]
    /\ UNCHANGED <<storage, app, startupHistory, counts>>

\* If one of the two numbers is not known, the file is copied.
CountClips ==
    /\ refresh.pc = "count"
    /\ \/ /\ bak # Absent /\ Countable /\ Refused
          /\ refresh' = Idle /\ Retry(FALSE) /\ StepWorks
       \/ /\ bak # Absent => Countable /\ ~Refused
          /\ refresh' = [refresh EXCEPT !.pc = "copy"]
          /\ StepWorks /\ UNCHANGED app
       \/ /\ bak # Absent
          /\ refresh' = [refresh EXCEPT !.pc = "copy", !.uncounted = TRUE]
          /\ IF Countable THEN StepFails ELSE StepWorks
          /\ UNCHANGED app
    /\ UNCHANGED <<storage, startupHistory>>

\* copy_backup_snapshot takes no lock: a write while the copy is made may tear it.
CopyMain ==
    /\ refresh.pc = "copy"
    /\ \/ /\ refresh' = [refresh EXCEPT !.pc = "install",
                            !.copy = IF @ = Torn THEN Torn ELSE main]
          /\ StepWorks /\ UNCHANGED app
       \/ refresh' = Idle /\ Retry(TRUE) /\ StepFails
    /\ UNCHANGED <<storage, startupHistory>>

Installed == /\ bak' = refresh.copy /\ fresh' = TRUE
             /\ refresh' = Idle /\ Retry(FALSE) /\ StepWorks

\* On FAT a replace that fails may have deleted the old backup.
Install ==
    /\ refresh.pc = "install"
    /\ \/ Installed
       \/ /\ bak' \in {bak, Absent} /\ StepFails
          /\ refresh' = [refresh EXCEPT !.pc = "recover"]
          /\ UNCHANGED <<fresh, app>>
    /\ UNCHANGED <<main, sidecar, files, older, storageKey, startupHistory>>

\* recover_or_discard_replace_temp.
RecoverBackup ==
    /\ refresh.pc = "recover"
    /\ \/ bak = Absent /\ Installed
       \/ /\ IF bak # Absent THEN StepWorks ELSE StepFails
          /\ refresh' = Idle /\ Retry(TRUE)
          /\ UNCHANGED <<bak, fresh>>
    /\ UNCHANGED <<main, sidecar, files, older, storageKey, startupHistory>>

----------------------------------------------------------------------------
(* The session, and what happens to it.                                    *)

CountWrite == counts.writes < MaxWrites /\ counts' = [counts EXCEPT !.writes = @ + 1]

WrittenDuringCopy(deletes) ==
    IF refresh = Idle THEN refresh' = Idle
    ELSE \E torn \in BOOLEAN :
            refresh' = [refresh EXCEPT
                           !.copy = IF refresh.pc = "copy" /\ torn THEN Torn ELSE @,
                           !.deleted = @ \/ deletes]

\* A capture stores a new clip; deletion and clearing.
Capture(c) ==
    /\ At("up") /\ CountWrite
    /\ c \notin FileClips /\ ~Has(main, c)
    /\ \A d \in All(main) : ContentOf[d] # ContentOf[c]
    /\ SetRow(c, [key |-> app.key, hash |-> 2, deleted |-> FALSE, pinned |-> FALSE,
                  original |-> IF c \in Images THEN "file" ELSE "none"])
    /\ files' = IF c \in Images THEN files \cup {c} ELSE files
    /\ expected' = expected \cup {ContentOf[c]}
    /\ brought' = brought \ {c}
    /\ WrittenDuringCopy(FALSE)
    /\ UNCHANGED <<sidecar, bak, fresh, older, storageKey, app, told>>

DeleteAll ==
    /\ At("up") /\ CountWrite
    /\ All(main) # {}
    /\ main' = [main EXCEPT !.rows = [c \in Clips |-> Gone]]
    /\ \E unlinked \in SUBSET { c \in All(main) : main.rows[c].original = "file" } :
          files' = files \ unlinked
    /\ expected' = {}
    /\ WrittenDuringCopy(TRUE)
    /\ UNCHANGED <<sidecar, bak, fresh, older, storageKey, app, told, brought>>

\* The application ends, at any point.
Crash ==
    /\ ~At("off")
    /\ counts.crashes < MaxCrashes
    /\ counts' = [counts EXCEPT !.crashes = @ + 1]
    /\ app' = Off(app.lost \/ (app.notices /\ ~At("up"))) /\ refresh' = Idle
    /\ main' \in IF At("copy") THEN {Absent, Torn} ELSE {main}
    /\ UNCHANGED <<sidecar, bak, fresh, files, older, storageKey, expected, told, brought>>

\* The disk damages the file between two runs.
DamageMain ==
    /\ At("off") /\ main \notin {Absent, Torn}
    /\ counts.damage < MaxFileDamage
    /\ counts' = [counts EXCEPT !.damage = @ + 1]
    /\ main' = Torn /\ sidecar' \in BOOLEAN
    /\ UNCHANGED <<bak, fresh, files, older, storageKey, app, refresh, startupHistory>>

Day ==
    /\ fresh /\ counts.days < MaxDays
    /\ counts' = [counts EXCEPT !.days = @ + 1]
    /\ fresh' = FALSE
    /\ UNCHANGED <<main, sidecar, bak, files, older, storageKey, app, refresh, startupHistory>>

Start ==
    \/ Launch \/ Assess \/ AfterRefresh \/ QuarantineMain \/ QuarantineSidecar \/ Restore
    \/ RestoreCopy \/ Open \/ LoadKey \/ InstallKey \/ RivalInstallsKey
    \/ Migrate \/ Encrypt \/ Rehash \/ Unique \/ Unlink

Refresh == Tick \/ CountClips \/ CopyMain \/ Install \/ RecoverBackup

StartupNext ==
    \/ Start \/ Refresh
    \/ \E c \in Clips : Capture(c)
    \/ DeleteAll \/ Crash \/ DamageMain \/ Day

StartupSpec == StartupInit /\ [][StartupNext]_startupVars

----------------------------------------------------------------------------
(* Properties.                                                             *)

Whole(h) == h \notin {Absent, Torn}

\* Whenever the application is up, everything the user had and has not deleted is
\* there to see, or the log says that the history was rewritten
\* (startup_recovery_log).  The exception is a start that rewrote the history and
\* ended before the logger was there: its notices are gone, and the next one finds
\* the restored file, or none and takes that for a first start.
NothingLostSilently ==
    At("up") => expected \subseteq Visible(main) \/ told \/ app.lost

\* A file that is marked as migrated is migrated to the last row, also one that
\* a restore has brought back, wherever a start ended.
MarkedIsDone ==
    \A h \in { f \in {main, bak} : Whole(f) } : \A c \in Clips : Has(h, c) =>
        /\ h.encrypted => h.rows[c].key = storageKey
        /\ h.hashed => h.rows[c].hash = 2
        /\ h.unique => \A d \in Clips \ {c} : Has(h, d) => ContentOf[d] # ContentOf[c]

\* A row names an original that is there, its own file or that of an older version,
\* through the migration and the merge of duplicates, wherever a start ended.  A restored
\* backup may name what has been removed since.
NamedOriginalsExist ==
    Whole(main) =>
        \A c \in Clips : Has(main, c) =>
            /\ main.rows[c].original = "file" => c \in files \cup brought
            /\ main.rows[c].original = "older" => c \in older \cup brought

\* A rich backup is never replaced by one with less than a tenth of its clips
\* (should_skip_backup_refresh), with two exceptions: the user has deleted clips between
\* the count and the copy, or one of the two could not be counted.  The count can fail;
\* and there are no tables to count in a file that a start has made after a quarantine,
\* and has not got to migrate before it ended.
RichBackupKept ==
    [][ Whole(bak) /\ Whole(bak') /\ NumClips(bak) >= RichBackup
            => \/ NumClips(bak') * 10 >= NumClips(bak)
               \/ refresh.deleted \/ refresh.uncounted ]_bak

\* A storage key is never replaced by another: the rows of whoever installed it can
\* only be read with it.
KeyIsNeverReplaced == [][ storageKey # Absent => FALSE ]_storageKey

\* What everything else can be brought back with is never given away.
LastResortsKept == RichBackupKept /\ KeyIsNeverReplaced
=============================================================================
