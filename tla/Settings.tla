------------------------------ MODULE Settings ------------------------------
(***************************************************************************)
(* The preferences and their file (src-tauri/src/settings_manager.rs,      *)
(* settings_load.rs; settings_commands.rs: the commands that change them). *)
(*                                                                         *)
(* settings.json is replaced through settings.json.tmp.  On FAT a replace  *)
(* deletes before it renames, so the temp can be the only copy, and the    *)
(* next start has to take it over.  A file that cannot be read is set      *)
(* aside; then nothing may be deleted on the strength of defaults the user *)
(* never chose.  Commands read the preferences, change their copy and save *)
(* all of it.                                                              *)
(***************************************************************************)
EXTENDS Naturals, FiniteSets

CONSTANTS
    Apps,            \* applications that can be ignored
    BuiltIn,         \* the password managers seeded once
    Tasks,           \* commands that can run at once
    None, Bad,       \* no file; a file that does not parse
    MaxCommands, MaxFailures, MaxRestarts, MaxDamage   \* bounds

\* AppSettings, as far as it matters here: how long history is kept
\* (auto_delete_days), ignored_apps, and default_sensitive_apps_seeded.
Days == {"forever", "30"}
Prefs == [days : Days, apps : SUBSET Apps, seeded : BOOLEAN]
Content == Prefs \cup {None, Bad}

ASSUME SettingsAssumption ==
    /\ IsFiniteSet(Apps) /\ BuiltIn \subseteq Apps /\ IsFiniteSet(Tasks)
    /\ {MaxCommands, MaxFailures, MaxRestarts, MaxDamage} \subseteq Nat
    /\ None \notin Tasks \cup Prefs /\ Bad \notin Prefs \cup {None}

Default == [days |-> "30", apps |-> {}, seeded |-> FALSE]

\* safe_default_settings: nothing is deleted.
SafeDefault == [Default EXCEPT !.days = "forever"]

VARIABLES
    canonical,  \* settings.json
    temp,       \* settings.json.tmp
    legacy,     \* the settings file of an older release, in AppData
    sqlite,     \* what the settings table of an old database says
    memory,     \* SettingsManager.settings
    start,      \* SettingsManager::new
    saver,      \* the save under way; it holds the write lock
    tasks,      \* the commands under way
    valid,      \* history: what the file may hold, given the saves so far
    chosen,     \* history: the retention periods the user has chosen, or found
    wanted,     \* history: the applications the user has asked to ignore
    raced,      \* history: a command saved over another one's change
    spoiled,    \* history: the file was spoiled or not read, and none saved since
    bare,       \* history: a file was set aside, and none saved since
    misled,     \* history: a start took that for a first launch, or met no old table
    count

vars == <<canonical, temp, legacy, sqlite, memory, start, saver, tasks, valid, chosen,
          wanted, raced, spoiled, bare, misled, count>>
disk == <<canonical, temp, legacy, sqlite>>
history == <<valid, chosen, wanted, raced, spoiled, bare, misled>>

OnDisk == IF canonical # None THEN canonical ELSE temp

StartPc == {"read", "quarantine", "copy", "copying", "load", "quarantineFound", "seed",
            "persist", "saving", "run"}

NotSaving == [pc |-> "none"]

\* The type invariant.
TypeOK ==
    /\ canonical \in Content /\ temp \in Content /\ legacy \in Content
    /\ sqlite \in Prefs /\ memory \in Prefs
    /\ start \in [pc : StartPc, file : {"canonical", "temp", "legacy"},
                  unreadable : BOOLEAN, interrupted : BOOLEAN, seeding : BOOLEAN]
    /\ saver \in {NotSaving} \cup
          [pc : {"temp", "write", "replace", "recover"}, value : Prefs,
           task : Tasks \cup {None}]
    /\ tasks \in [Tasks -> {None} \cup
          [kind : {"prefs", "add", "remove"}, app : Apps \cup {None}, value : Prefs,
           stale : BOOLEAN]]
    /\ valid \subseteq Content /\ chosen \subseteq Days /\ wanted \subseteq Apps
    /\ {raced, spoiled, bare, misled} \subseteq BOOLEAN
    /\ count \in [commands : 0 .. MaxCommands, failures : 0 .. MaxFailures,
                  restarts : 0 .. MaxRestarts, damage : 0 .. MaxDamage]

Starting == [pc |-> "read", file |-> "canonical", unreadable |-> FALSE,
             interrupted |-> FALSE, seeding |-> FALSE]

\* A first launch, one after an update from an older release or database, or one
\* with a settings file.
Init ==
    /\ canonical \in {None, [Default EXCEPT !.days = "forever", !.seeded = TRUE]}
    /\ legacy \in {None, SafeDefault}
    /\ sqlite \in {Default, SafeDefault}
    /\ temp = None
    /\ memory = Default
    /\ start = Starting
    /\ saver = NotSaving
    /\ tasks = [t \in Tasks |-> None]
    /\ valid = {canonical}
    /\ chosen = {IF canonical # None THEN canonical.days
                 ELSE IF legacy # None THEN legacy.days ELSE sqlite.days}
    /\ wanted = {} /\ raced = FALSE /\ spoiled = FALSE /\ bare = FALSE
    /\ misled = FALSE
    /\ count = [commands |-> 0, failures |-> 0, restarts |-> 0, damage |-> 0]

Fails == count.failures < MaxFailures /\ count' = [count EXCEPT !.failures = @ + 1]
Works == UNCHANGED count

----------------------------------------------------------------------------
(* SettingsManager::new                                                    *)

Starts(pc) == start.pc = pc
Continue(pc) == start' = [start EXCEPT !.pc = pc]

\* read_settings_from_disk, by resolve_settings_disk_source: the file, else a temp
\* an interrupted replace has left, else whatever older releases have left.  A file
\* that is there and cannot be read counts as one that does not parse
\* (parse_settings_file).
Read ==
    /\ Starts("read")
    /\ \/ /\ OnDisk \in Prefs
          /\ memory' = OnDisk
          /\ start' = [start EXCEPT !.pc = "seed", !.interrupted = canonical = None]
          /\ Works /\ UNCHANGED spoiled
       \/ /\ OnDisk = None
          /\ Continue("copy")
          /\ Works /\ UNCHANGED <<memory, spoiled>>
       \/ /\ OnDisk # None
          /\ start' = [start EXCEPT !.pc = "quarantine", !.unreadable = TRUE,
                         !.interrupted = canonical = None,
                         !.file = IF canonical = None THEN "temp" ELSE "canonical"]
          /\ IF OnDisk \in Prefs THEN spoiled' = TRUE /\ Fails
             ELSE UNCHANGED spoiled /\ Works
          /\ UNCHANGED memory
    /\ UNCHANGED <<disk, saver, tasks, valid, chosen, wanted, raced, bare, misled>>

SetAside(f) == /\ canonical' = IF f = "canonical" THEN None ELSE canonical
               /\ temp' = IF f = "temp" THEN None ELSE temp
               /\ legacy' = IF f = "legacy" THEN None ELSE legacy

Unreadable == Starts("quarantine") \/ Starts("quarantineFound")

\* Once the settings file is set aside, older releases may have left another one; once
\* theirs is, there is no other.
AfterQuarantine == IF Starts("quarantine") THEN "copy" ELSE "seed"

\* Mutant: the preferences of a first launch take the place of unreadable ones.
QuarantineForDefaults ==
    /\ Unreadable
    /\ SetAside(start.file) /\ Works
    /\ memory' = Default
    /\ bare' = (canonical' = None /\ temp' = None)
    /\ Continue(AfterQuarantine)
    /\ UNCHANGED <<sqlite, saver, tasks, valid, chosen, wanted, raced, spoiled, misled>>

\* recover_from_unreadable_settings: safe defaults, for now.
Quarantine ==
    /\ Unreadable
    /\ \/ SetAside(start.file) /\ bare' = (canonical' = None /\ temp' = None) /\ Works
       \/ UNCHANGED <<canonical, temp, legacy, bare>> /\ Fails
    /\ memory' = SafeDefault
    /\ Continue(AfterQuarantine)
    /\ UNCHANGED <<sqlite, saver, tasks, valid, chosen, wanted, raced, spoiled, misled>>

\* resolve_settings_load_path: without a settings file the one of an older release
\* is copied, and read in its place if that fails.
Copy ==
    /\ Starts("copy")
    /\ IF canonical = None /\ legacy # None
       THEN canonical' = Bad /\ Continue("copying")
       ELSE UNCHANGED canonical /\ Continue("load")
    /\ UNCHANGED <<temp, legacy, sqlite, memory, saver, tasks, history, count>>

Copied ==
    /\ Starts("copying")
    /\ \/ canonical' = legacy /\ Continue("load") /\ Works
       \/ /\ canonical' \in {None, Bad}
          /\ start' = [start EXCEPT !.pc = "load", !.file = "legacy"] /\ Fails
    /\ UNCHANGED <<temp, legacy, sqlite, memory, saver, tasks, history>>

LoadPath == IF start.file = "legacy" THEN legacy ELSE canonical

\* migrate_from_sqlite.  A query of the old table that fails leaves the default.
MigrateFromSqlite ==
    /\ \/ memory' = sqlite /\ misled' = (misled \/ bare) /\ Works
       \/ memory' = [sqlite EXCEPT !.days = Default.days] /\ misled' = TRUE /\ Fails
    /\ Continue("seed")

\* What was found is loaded.  After an unreadable file (settings_from_load_path),
\* something that is not read either leaves the safe defaults; otherwise it is set
\* aside in turn, and if there is nothing at all the old database is next.
Load ==
    /\ Starts("load")
    /\ \/ /\ LoadPath \in Prefs
          /\ memory' = LoadPath /\ Continue("seed")
          /\ Works /\ UNCHANGED misled
       \/ /\ LoadPath # None
          /\ start' = IF start.unreadable THEN [start EXCEPT !.pc = "seed"]
                      ELSE [start EXCEPT !.pc = "quarantineFound", !.unreadable = TRUE]
          /\ IF LoadPath \in Prefs THEN Fails ELSE Works
          /\ UNCHANGED <<memory, misled>>
       \/ /\ LoadPath = None /\ start.unreadable
          /\ Continue("seed")
          /\ Works /\ UNCHANGED <<memory, misled>>
       \/ /\ LoadPath = None /\ ~start.unreadable
          /\ MigrateFromSqlite
    /\ UNCHANGED <<disk, saver, tasks, valid, chosen, wanted, raced, spoiled, bare>>

\* seed_default_sensitive_apps
Seed ==
    /\ Starts("seed")
    /\ memory' = IF memory.seeded THEN memory
                 ELSE [memory EXCEPT !.apps = @ \cup BuiltIn, !.seeded = TRUE]
    /\ start' = [start EXCEPT !.pc = "persist", !.seeding = ~memory.seeded]
    /\ UNCHANGED <<disk, saver, tasks, history, count>>

\* The preferences of this session are settled.
Settle == /\ valid' = {memory, OnDisk}
          /\ wanted' = memory.apps
          /\ Continue("run")

\* persist_after_load.  promote_interrupted_tmp comes first, and if it fails nothing
\* is written.  Then new preferences are saved, unless a temp would be in the way.
Persist ==
    /\ Starts("persist")
    /\ LET promotes == start.interrupted /\ ~start.unreadable /\ canonical = None
           missing  == canonical' = None IN
       \/ /\ IF promotes THEN canonical' = temp /\ temp' = None
             ELSE UNCHANGED <<canonical, temp>>
          /\ IF start.seeding \/ (missing /\ temp' = None)
             THEN /\ saver' = [pc |-> "temp", value |-> memory, task |-> None]
                  /\ valid' = valid \cup {memory}
                  /\ Continue("saving")
                  /\ UNCHANGED wanted
             ELSE UNCHANGED saver /\ Settle
          /\ Works
       \/ /\ promotes /\ Fails
          /\ Settle
          /\ UNCHANGED <<canonical, temp, saver>>
    /\ UNCHANGED <<legacy, sqlite, memory, tasks, chosen, raced, spoiled, bare, misled>>

----------------------------------------------------------------------------
(* SettingsManager::save                                                   *)

Saves(pc) == saver.pc = pc

\* A save ends.  One that worked is what everybody reads from now on.
Saved ==
    LET t == saver.task
        acts == t # None IN
    /\ memory' = saver.value
    /\ valid' = {saver.value}
    /\ raced' = (raced \/ (acts /\ tasks[t].stale))
    /\ wanted' = IF ~acts THEN memory'.apps
                 ELSE IF tasks[t].kind = "add" THEN wanted \cup {tasks[t].app}
                 ELSE IF tasks[t].kind = "remove" THEN wanted \ {tasks[t].app} ELSE wanted
    /\ spoiled' = FALSE /\ bare' = FALSE
    /\ saver' = NotSaving
    /\ tasks' = [u \in Tasks |-> IF u = t THEN None
                                 ELSE IF tasks[u] = None THEN None
                                 ELSE [tasks[u] EXCEPT !.stale = TRUE]]
    /\ IF acts THEN UNCHANGED start ELSE Continue("run")

SaveFailed ==
    /\ saver' = NotSaving
    /\ tasks' = [u \in Tasks |-> IF u = saver.task THEN None ELSE tasks[u]]
    /\ IF saver.task # None THEN UNCHANGED <<start, wanted>>
       ELSE Continue("run") /\ wanted' = memory.apps
    /\ valid' = valid \cup {OnDisk}
    /\ UNCHANGED <<memory, raced, spoiled, bare>>

\* write_settings_temp: without settings.json a temp that is there is not touched.
OpenTemp ==
    /\ Saves("temp")
    /\ \/ /\ canonical = None /\ temp # None
          /\ SaveFailed /\ Works /\ UNCHANGED temp
       \/ /\ SaveFailed /\ Fails /\ UNCHANGED temp
       \/ /\ ~(canonical = None /\ temp # None)
          /\ temp' = Bad
          /\ saver' = [saver EXCEPT !.pc = "write"] /\ Works
          /\ UNCHANGED <<memory, start, tasks, valid, wanted, raced, spoiled, bare>>
    /\ UNCHANGED <<canonical, legacy, sqlite, chosen, misled>>

\* A temp that could not be written beside no settings.json is removed, if that works.
WriteTemp ==
    /\ Saves("write")
    /\ \/ /\ temp' = saver.value
          /\ saver' = [saver EXCEPT !.pc = "replace"] /\ Works
          /\ UNCHANGED <<memory, start, tasks, valid, wanted, raced, spoiled, bare>>
       \/ /\ temp' \in IF canonical = None THEN {None, Bad} ELSE {Bad}
          /\ SaveFailed /\ Fails
    /\ UNCHANGED <<canonical, legacy, sqlite, chosen, misled>>

Replaced == canonical' = saver.value /\ temp' = None /\ Saved

\* replace_file_atomically; on FAT a replace that fails may have deleted the file.
Replace ==
    /\ Saves("replace")
    /\ \/ Replaced /\ Works
       \/ /\ canonical' \in {canonical, None}
          /\ saver' = [saver EXCEPT !.pc = "recover"] /\ Fails
          /\ UNCHANGED <<temp, memory, start, tasks, valid, wanted, raced, spoiled, bare>>
    /\ UNCHANGED <<legacy, sqlite, chosen, misled>>

\* Mutant: the temp is deleted whatever became of the file.
RecoverByDeleting ==
    /\ Saves("recover")
    /\ temp' = None /\ UNCHANGED canonical
    /\ SaveFailed /\ Works
    /\ UNCHANGED <<legacy, sqlite, chosen, misled>>

\* recover_dest_gone_replace, or the temp stays unless settings.json does; then it is
\* removed, if that works.
Recover ==
    /\ Saves("recover")
    /\ \/ canonical = None /\ Replaced /\ Works
       \/ /\ \/ canonical # None /\ temp' = None /\ Works
             \/ UNCHANGED temp /\ Fails
          /\ UNCHANGED canonical
          /\ SaveFailed
    /\ UNCHANGED <<legacy, sqlite, chosen, misled>>

----------------------------------------------------------------------------
(* Commands.  Each reads the preferences, which waits for a save under way, *)
(* and saves its copy later.                                                *)

Begin(t, kind, app, value) ==
    /\ Starts("run") /\ saver = NotSaving
    /\ tasks[t] = None
    /\ count.commands < MaxCommands
    /\ count' = [count EXCEPT !.commands = @ + 1]
    /\ tasks' = [tasks EXCEPT ![t] =
                   [kind |-> kind, app |-> app, value |-> value, stale |-> FALSE]]

\* Mutant: the list of ignored applications comes from the window.
PrepareFromWindow(d) == [days |-> d, apps |-> {}, seeded |-> memory.seeded]

\* prepare_settings_for_save keeps what the window does not edit.
Prepare(d) == [days |-> d, apps |-> memory.apps, seeded |-> memory.seeded]

SaveSettings(t, d) ==
    /\ Begin(t, "prefs", None, Prepare(d))
    /\ chosen' = chosen \cup {d}
    /\ UNCHANGED <<disk, memory, start, saver, valid, wanted, raced, spoiled, bare, misled>>

AddIgnoredApp(t, a) ==
    /\ a \notin memory.apps
    /\ Begin(t, "add", a, [memory EXCEPT !.apps = @ \cup {a}])
    /\ UNCHANGED <<disk, memory, start, saver, history>>

RemoveIgnoredApp(t, a) ==
    /\ a \in memory.apps
    /\ Begin(t, "remove", a, [memory EXCEPT !.apps = @ \ {a}])
    /\ UNCHANGED <<disk, memory, start, saver, history>>

\* The command saves: one at a time.
Save(t) ==
    /\ tasks[t] # None /\ saver = NotSaving
    /\ saver' = [pc |-> "temp", value |-> tasks[t].value, task |-> t]
    /\ valid' = valid \cup {tasks[t].value}
    /\ UNCHANGED <<disk, memory, start, tasks, chosen, wanted, raced, spoiled, bare, misled, count>>

----------------------------------------------------------------------------

\* The application ends anywhere and starts again.
Restart ==
    /\ count.restarts < MaxRestarts
    /\ count' = [count EXCEPT !.restarts = @ + 1]
    /\ start' = Starting
    /\ saver' = NotSaving
    /\ tasks' = [t \in Tasks |-> None]
    /\ UNCHANGED <<disk, memory, history>>

\* Power fails while the disk still has the file in its cache.
Damage ==
    /\ count.damage < MaxDamage
    /\ count.restarts < MaxRestarts
    /\ canonical # None
    /\ canonical' = Bad
    /\ count' = [count EXCEPT !.damage = @ + 1, !.restarts = @ + 1]
    /\ start' = Starting
    /\ saver' = NotSaving
    /\ tasks' = [t \in Tasks |-> None]
    /\ spoiled' = TRUE
    /\ UNCHANGED <<temp, legacy, sqlite, memory, valid, chosen, wanted, raced, bare, misled>>

Next ==
    \/ Read \/ Quarantine \/ Copy \/ Copied \/ Load \/ Seed \/ Persist
    \/ OpenTemp \/ WriteTemp \/ Replace \/ Recover
    \/ \E t \in Tasks :
          \/ \E d \in Days : SaveSettings(t, d)
          \/ \E a \in Apps : AddIgnoredApp(t, a) \/ RemoveIgnoredApp(t, a)
          \/ Save(t)
    \/ Restart \/ Damage

Spec == Init /\ [][Next]_vars

----------------------------------------------------------------------------
(* Properties.                                                             *)

\* What a start loads is what was saved last, or a save since that did not report
\* success, wherever the application ended and whichever call of a save or of a start
\* failed, with two exceptions: the file was damaged on the disk, or a start could not
\* read it, which is treated alike (SettingsManager::save, read_settings_from_disk,
\* parse_settings_file).
SavedSettingsSurvive ==
    Starts("seed") /\ ~spoiled /\ None \notin valid /\ Bad \notin valid
        => memory \in valid

\* History is never deleted after 30 days for a user who has not chosen that: a file
\* that does not parse or is not read leads to safe defaults.  There are two exceptions.
\* A start that follows one which set the file aside and did not get to save another
\* takes the missing file for a first launch (recover_from_unreadable_settings); and a
\* first launch whose query of the old settings table fails takes the default
\* (migrate_from_sqlite).
RetentionIsChosen ==
    start.pc \in {"seed", "persist", "saving", "run"} /\ memory.days = "30" =>
        "30" \in chosen \/ misled

\* An application the user has asked to ignore is ignored until the user removes it,
\* whatever else is changed, except by a command that read the preferences before
\* another one saved them.
IgnoredAppsStay ==
    Starts("run") /\ memory.apps # wanted => raced
=============================================================================
