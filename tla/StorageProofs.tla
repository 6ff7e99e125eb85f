---------------------------- MODULE StorageProofs ----------------------------
(***************************************************************************)
(* What becomes of what is stored: of the preferences, for every set of    *)
(* applications, every number of commands and failures, and any ends and   *)
(* damage; and of the history, its backup and its key, for every older     *)
(* history, and any number of starts, writes, failures, ends and damage.   *)
(***************************************************************************)
EXTENDS Settings, DatabaseStartup, FiniteSetTheorems, TLAPS

----------------------------------------------------------------------------
(* The preferences.                                                        *)

\* Where a start has not settled what it found, and where it has.
Looking == {"copy", "copying", "load"}
Loaded == {"seed", "persist", "saving", "run"}

\* The stores of older releases are read and never written.
Older == legacy \in {None, SafeDefault} /\ sqlite \in {Default, SafeDefault}

\* One save at a time: that of the start, or that of a command in a session, and a
\* command that adds an application knows which.
OneSaver ==
    /\ saver # NotSaving => \/ saver.task = None /\ Starts("saving")
                            \/ /\ saver.task \in Tasks /\ Starts("run")
                               /\ tasks[saver.task] # None
                               /\ saver.value = tasks[saver.task].value
    /\ \A t \in Tasks : tasks[t] # None =>
          /\ Starts("run")
          /\ tasks[t].kind = "add" => tasks[t].app \in Apps
    /\ Starts("saving") => saver # NotSaving

\* The temp of a save is its own until it replaces the file.
OwnTemp ==
    /\ saver.pc \in {"temp", "write", "replace", "recover"} => saver.value \in valid
    /\ saver.pc = "write" => temp = Bad
    /\ saver.pc \in {"replace", "recover"} => temp = saver.value

\* As long as nothing was lost before, the disk has what was saved, and a start
\* finds it.
Sound == ~spoiled /\ None \notin valid /\ Bad \notin valid

Survives ==
    Sound => /\ OnDisk \in valid
             /\ start.pc \notin {"quarantine", "copy", "copying", "load", "quarantineFound"}
             /\ Starts("seed") => memory \in valid

\* Thirty days are somebody's choice, wherever they are on their way to be loaded.
Meant(p) == p.days = "30" => "30" \in chosen \/ misled

AllMeant ==
    /\ canonical \in Prefs => Meant(canonical)
    /\ temp \in Prefs => Meant(temp)
    /\ start.pc \in Loaded \/ (start.pc \in Looking /\ start.unreadable) => Meant(memory)
    /\ saver # NotSaving => Meant(saver.value)
    /\ \A t \in Tasks : tasks[t] # None => Meant(tasks[t].value)

\* Without a file, and none set aside, this is a first launch: what is found in older
\* places is the user's choice.
FirstLaunch == (IF legacy # None THEN legacy.days ELSE sqlite.days) \in chosen

NothingYet ==
    /\ ~bare /\ OnDisk = None => FirstLaunch
    /\ ~bare /\ canonical = None /\ saver.pc = "write" => FirstLaunch
    /\ ~bare /\ temp = None /\ Starts("copying") => FirstLaunch
    /\ start.pc \in Looking /\ ~start.unreadable =>
          /\ temp = None
          /\ Starts("load") /\ canonical = None => legacy = None \/ start.file = "legacy"
    /\ Starts("read") => start = Starting
    /\ Starts("load") /\ start.file = "legacy" => legacy # None
    /\ Starts("copying") => legacy # None
    /\ Starts("copy") \/ Starts("copying") => start.file # "legacy"
    /\ Unreadable => start.unreadable
    /\ Starts("quarantine") => start.file # "legacy"

\* What a command will save is what it read, and its own change, unless it is stale.
Kept ==
    /\ Starts("run") /\ ~raced => memory.apps = wanted
    /\ \A t \in Tasks :
         tasks[t] # None /\ ~tasks[t].stale =>
           tasks[t].value.apps =
             IF tasks[t].kind = "add" THEN memory.apps \cup {tasks[t].app}
             ELSE IF tasks[t].kind = "remove" THEN memory.apps \ {tasks[t].app}
             ELSE memory.apps

IInv == TypeOK /\ Older /\ OneSaver /\ OwnTemp /\ Survives /\ AllMeant /\ NothingYet /\ Kept


----------------------------------------------------------------------------

\* What the constants promise.
LEMMA Basics ==
    /\ MaxCommands \in Nat /\ MaxFailures \in Nat /\ MaxRestarts \in Nat
    /\ MaxDamage \in Nat /\ BuiltIn \subseteq Apps
    /\ None \notin Tasks \cup Prefs /\ Bad \notin Prefs /\ Bad # None
BY SettingsAssumption

\* The preferences of a first launch, and the ones after an unreadable file.
LEMMA Defaults ==
    /\ Default \in Prefs /\ SafeDefault \in Prefs
    /\ SafeDefault.days = "forever" /\ Default.days = "30"
BY DEF Default, SafeDefault, Prefs, Days

\* The types of the three records.
StartType == [pc : StartPc, file : {"canonical", "temp", "legacy"},
              unreadable : BOOLEAN, interrupted : BOOLEAN, seeding : BOOLEAN]
SaverType == [pc : {"temp", "write", "replace", "recover"}, value : Prefs,
              task : Tasks \cup {None}]
TaskType == {None} \cup
    [kind : {"prefs", "add", "remove"}, app : Apps \cup {None}, value : Prefs,
     stale : BOOLEAN]

\* What a step of a start makes of its record is one again.
LEMMA StartUpdates ==
    ASSUME TypeOK
    PROVE  /\ start \in StartType
           /\ \A pc \in StartPc : [start EXCEPT !.pc = pc] \in StartType
           /\ \A pc \in StartPc, i \in BOOLEAN :
                 [start EXCEPT !.pc = pc, !.interrupted = i] \in StartType
           /\ \A pc \in StartPc, i \in BOOLEAN, f \in {"canonical", "temp", "legacy"} :
                 [start EXCEPT !.pc = pc, !.unreadable = TRUE, !.interrupted = i, !.file = f]
                    \in StartType
BY DEF TypeOK, StartType, StartPc

\* What Read leaves: preferences, nothing, or a file to be set aside.
LEMMA ReadOutcomes ==
    ASSUME TypeOK, Read
    PROVE  /\ start' \in StartType
           /\ \/ OnDisk \in Prefs /\ memory' = OnDisk /\ start'.pc = "seed"
                 /\ start'.file = start.file
              \/ OnDisk = None /\ memory' = memory /\ start'.pc = "copy"
                 /\ start'.file = start.file /\ start'.unreadable = start.unreadable
              \/ memory' = memory /\ start'.pc = "quarantine" /\ start'.unreadable
                 /\ start'.file # "legacy"
<1> DEFINE i == canonical = None
<1>1. i \in BOOLEAN
  OBVIOUS
<1>2. \/ /\ OnDisk \in Prefs /\ memory' = OnDisk
         /\ start' = [start EXCEPT !.pc = "seed", !.interrupted = i]
      \/ /\ OnDisk = None /\ memory' = memory
         /\ start' = [start EXCEPT !.pc = "copy"]
      \/ /\ memory' = memory /\ OnDisk # None
         /\ start' = [start EXCEPT !.pc = "quarantine", !.unreadable = TRUE,
                        !.interrupted = i, !.file = "temp"]
      \/ /\ memory' = memory /\ OnDisk # None
         /\ start' = [start EXCEPT !.pc = "quarantine", !.unreadable = TRUE,
                        !.interrupted = i, !.file = "canonical"]
  BY DEF Read, Works, Fails, Continue
<1> HIDE DEF i
<1>3. start \in StartType
  BY StartUpdates
<1>4. start' \in StartType
  BY <1>1, <1>2, StartUpdates DEF StartPc
<1> QED
  BY <1>1, <1>2, <1>3, <1>4 DEF StartType

\* A command under way, when another one has saved.
LEMMA Overtaken ==
    ASSUME TypeOK, NEW u \in Tasks, tasks[u] # None
    PROVE  /\ [tasks[u] EXCEPT !.stale = TRUE] \in TaskType
           /\ [tasks[u] EXCEPT !.stale = TRUE].stale = TRUE
<1>1. tasks[u] \in [kind : {"prefs", "add", "remove"}, app : Apps \cup {None},
                    value : Prefs, stale : BOOLEAN]
  BY DEF TypeOK
<1>2. [tasks[u] EXCEPT !.stale = TRUE] \in
          [kind : {"prefs", "add", "remove"}, app : Apps \cup {None}, value : Prefs,
           stale : BOOLEAN]
  BY <1>1
<1> QED
  BY <1>1, <1>2 DEF TaskType

\* Power fails: the counts stay within their bounds.
LEMMA DamageCounts ==
    ASSUME TypeOK, Damage
    PROVE  count' \in [commands : 0 .. MaxCommands, failures : 0 .. MaxFailures,
                       restarts : 0 .. MaxRestarts, damage : 0 .. MaxDamage]
<1>1. /\ count.restarts \in 0 .. MaxRestarts /\ count.damage \in 0 .. MaxDamage
      /\ count.commands \in 0 .. MaxCommands /\ count.failures \in 0 .. MaxFailures
      /\ DOMAIN count = {"commands", "failures", "restarts", "damage"}
  BY DEF TypeOK
<1>2. count.restarts + 1 \in 0 .. MaxRestarts /\ count.damage + 1 \in 0 .. MaxDamage
  BY <1>1, Basics DEF Damage
<1>3. count' = [commands |-> count.commands, failures |-> count.failures,
                restarts |-> count.restarts + 1, damage |-> count.damage + 1]
  BY <1>1 DEF Damage, TypeOK
<1> QED
  BY <1>1, <1>2, <1>3

\* The types after a save that worked.
LEMMA SavedTypes ==
    ASSUME TypeOK, OneSaver, saver # NotSaving, Saved
    PROVE  /\ tasks' \in [Tasks -> TaskType]
           /\ valid' \subseteq Content /\ wanted' \subseteq Apps /\ memory' \in Prefs
<1>1. saver \in SaverType
  BY DEF TypeOK, SaverType
<1>2. \A u \in Tasks : tasks'[u] \in TaskType
  <2> TAKE u \in Tasks
  <2>1. tasks'[u] = None \/ (tasks[u] # None /\ tasks'[u] = [tasks[u] EXCEPT !.stale = TRUE])
    BY DEF Saved
  <2> QED
    BY <2>1, Overtaken DEF TaskType
<1>3. tasks' \in [Tasks -> TaskType]
  BY <1>2 DEF Saved
<1>4. saver.value \in Prefs /\ memory' = saver.value /\ memory'.apps \subseteq Apps
  BY <1>1 DEF Saved, SaverType, Prefs
<1>5. wanted' \subseteq Apps
  <2>1. CASE saver.task = None
    BY <1>4, <2>1 DEF Saved
  <2>2. CASE saver.task # None
    BY <2>2 DEF Saved, OneSaver, TypeOK, NotSaving
  <2> QED
    BY <2>1, <2>2
<1> QED
  BY <1>3, <1>4, <1>5 DEF Saved, Content, TypeOK

\* After a save, what the commands under way have read is stale, and a command that
\* was not has saved what was wanted, and its own change.
LEMMA SavedKept ==
    ASSUME TypeOK, OneSaver, Kept, saver # NotSaving, Saved
    PROVE  Kept'
<1>1. ASSUME NEW u \in Tasks, tasks'[u] # None PROVE tasks'[u].stale = TRUE
  <2>1. tasks[u] # None /\ tasks'[u] = [tasks[u] EXCEPT !.stale = TRUE]
    BY <1>1 DEF Saved
  <2> QED
    BY <2>1, Overtaken
<1>2. ASSUME Starts("run")', ~raced' PROVE memory'.apps = wanted'
  <2>1. CASE saver.task = None
    BY <2>1 DEF Saved
  <2>2. CASE saver.task # None
    <3> DEFINE task == tasks[saver.task]
    <3>1. /\ saver.task \in Tasks /\ task # None /\ saver.value = task.value
          /\ Starts("run")
      BY <2>2 DEF OneSaver
    <3>2. ~raced /\ ~task.stale
      BY <1>2, <2>2 DEF Saved
    <3>3. memory.apps = wanted
      BY <3>1, <3>2 DEF Kept
    <3>4. memory'.apps = task.value.apps
      BY <3>1 DEF Saved
    <3>5. task.value.apps = IF task.kind = "add" THEN memory.apps \cup {task.app}
                            ELSE IF task.kind = "remove" THEN memory.apps \ {task.app}
                            ELSE memory.apps
      BY <3>1, <3>2 DEF Kept
    <3>6. wanted' = IF task.kind = "add" THEN wanted \cup {task.app}
                    ELSE IF task.kind = "remove" THEN wanted \ {task.app} ELSE wanted
      BY <2>2 DEF Saved
    <3> QED
      BY <3>3, <3>4, <3>5, <3>6
  <2> QED
    BY <2>1, <2>2
<1> QED
  BY <1>1, <1>2 DEF Kept

\* A save that failed changes nothing a command has read.
LEMMA FailedKept ==
    ASSUME TypeOK, OneSaver, Kept, saver # NotSaving, SaveFailed
    PROVE  Kept'
<1>1. ASSUME NEW u \in Tasks, tasks'[u] # None PROVE tasks'[u] = tasks[u]
  BY <1>1 DEF SaveFailed
<1>2. ASSUME Starts("run")', ~raced' PROVE memory'.apps = wanted'
  BY <1>2 DEF SaveFailed, Kept, OneSaver, Starts
<1> QED
  BY <1>1, <1>2 DEF Kept, SaveFailed

\* Nor does a step that leaves the preferences alone.
LEMMA SameKept ==
    ASSUME Kept, UNCHANGED <<memory, wanted, tasks, raced, start>>
    PROVE  Kept'
BY DEF Kept, Starts

----------------------------------------------------------------------------

\* The types.
LEMMA TypeStep ==
  ASSUME TypeOK, Older, OneSaver, [Next]_vars
  PROVE  TypeOK'
<1>1. CASE Read
  <2>1. canonical' \in Content /\ temp' \in Content /\ legacy' \in Content
    BY <1>1, Basics, Defaults
    DEF TypeOK, Content, Read, Works, Fails, Continue, Starts, OnDisk, disk, history
  <2>2. sqlite' \in Prefs /\ memory' \in Prefs
    BY <1>1, Basics, Defaults
    DEF TypeOK, Prefs, Read, Works, Fails, Continue, Starts, OnDisk, disk, history
  <2>3. start' \in StartType
    BY <1>1, ReadOutcomes
  <2>4. saver' \in {NotSaving} \cup SaverType
    BY <1>1, Basics, Defaults
    DEF TypeOK, SaverType, Read, Works, Fails, Continue, Starts, OnDisk, disk, history
  <2>5. tasks' \in [Tasks -> TaskType]
    BY <1>1, Basics, Defaults
    DEF TypeOK, TaskType, Read, Works, Fails, Continue, Starts, OnDisk, disk, history
  <2>6. valid' \subseteq Content /\ chosen' \subseteq Days /\ wanted' \subseteq Apps
    BY <1>1, Basics
    DEF TypeOK, Content, Prefs, Read, Works, Fails, Continue, Starts, OnDisk, disk, history
  <2>7. {raced, spoiled, bare, misled}' \subseteq BOOLEAN
    BY <1>1, Basics DEF TypeOK, Read, Works, Fails, Continue, Starts, OnDisk, disk, history
  <2>8. count' \in [commands : 0 .. MaxCommands, failures : 0 .. MaxFailures,
                       restarts : 0 .. MaxRestarts, damage : 0 .. MaxDamage]
    BY <1>1, Basics DEF TypeOK, Read, Works, Fails, Continue, Starts, OnDisk, disk, history
  <2> QED
    BY <2>1, <2>2, <2>3, <2>4, <2>5, <2>6, <2>7, <2>8 DEF TypeOK, StartType, SaverType,
         TaskType
<1>2. CASE Quarantine
  <2>1. canonical' \in Content /\ temp' \in Content /\ legacy' \in Content
    BY <1>2, Basics, Defaults
    DEF TypeOK, Content, Quarantine, Unreadable, AfterQuarantine, Starts, SetAside, Works,
        Fails, Continue
  <2>2. sqlite' \in Prefs /\ memory' \in Prefs
    BY <1>2, Basics, Defaults
    DEF TypeOK, Prefs, Quarantine, Unreadable, AfterQuarantine, Starts, SetAside, Works, Fails,
        Continue
  <2>3. start' \in StartType
    BY <1>2, Basics
    DEF TypeOK, StartType, StartPc, Quarantine, Unreadable, AfterQuarantine, Starts, SetAside,
        Works, Fails, Continue
  <2>4. saver' \in {NotSaving} \cup SaverType
    BY <1>2, Basics, Defaults
    DEF TypeOK, SaverType, Quarantine, Unreadable, AfterQuarantine, Starts, SetAside, Works,
        Fails, Continue
  <2>5. tasks' \in [Tasks -> TaskType]
    BY <1>2, Basics, Defaults
    DEF TypeOK, TaskType, Quarantine, Unreadable, AfterQuarantine, Starts, SetAside, Works,
        Fails, Continue
  <2>6. valid' \subseteq Content /\ chosen' \subseteq Days /\ wanted' \subseteq Apps
    BY <1>2, Basics
    DEF TypeOK, Content, Prefs, Quarantine, Unreadable, AfterQuarantine, Starts, SetAside,
        Works, Fails, Continue
  <2>7. {raced, spoiled, bare, misled}' \subseteq BOOLEAN
    BY <1>2, Basics
    DEF TypeOK, Quarantine, Unreadable, AfterQuarantine, Starts, SetAside, Works, Fails,
        Continue
  <2>8. count' \in [commands : 0 .. MaxCommands, failures : 0 .. MaxFailures,
                       restarts : 0 .. MaxRestarts, damage : 0 .. MaxDamage]
    BY <1>2, Basics
    DEF TypeOK, Quarantine, Unreadable, AfterQuarantine, Starts, SetAside, Works, Fails,
        Continue
  <2> QED
    BY <2>1, <2>2, <2>3, <2>4, <2>5, <2>6, <2>7, <2>8 DEF TypeOK, StartType, SaverType,
         TaskType
<1>3. CASE Copy
  BY <1>3, Basics DEF TypeOK, Content, Prefs, StartPc, Days, Copy, Starts, Continue,
       history
<1>4. CASE Copied
  <2>1. canonical' \in Content /\ temp' \in Content /\ legacy' \in Content
    BY <1>4, Basics, Defaults DEF TypeOK, Content, Copied, Starts, Continue, Works, Fails,
         history
  <2>2. sqlite' \in Prefs /\ memory' \in Prefs
    BY <1>4, Basics, Defaults DEF TypeOK, Prefs, Copied, Starts, Continue, Works, Fails,
         history
  <2>3. start' \in StartType
    BY <1>4, Basics DEF TypeOK, StartType, StartPc, Copied, Starts, Continue, Works, Fails,
         history
  <2>4. saver' \in {NotSaving} \cup SaverType
    BY <1>4, Basics, Defaults DEF TypeOK, SaverType, Copied, Starts, Continue, Works, Fails,
         history
  <2>5. tasks' \in [Tasks -> TaskType]
    BY <1>4, Basics, Defaults DEF TypeOK, TaskType, Copied, Starts, Continue, Works, Fails,
         history
  <2>6. valid' \subseteq Content /\ chosen' \subseteq Days /\ wanted' \subseteq Apps
    BY <1>4, Basics DEF TypeOK, Content, Prefs, Copied, Starts, Continue, Works, Fails,
         history
  <2>7. {raced, spoiled, bare, misled}' \subseteq BOOLEAN
    BY <1>4, Basics DEF TypeOK, Copied, Starts, Continue, Works, Fails, history
  <2>8. count' \in [commands : 0 .. MaxCommands, failures : 0 .. MaxFailures,
                       restarts : 0 .. MaxRestarts, damage : 0 .. MaxDamage]
    BY <1>4, Basics DEF TypeOK, Copied, Starts, Continue, Works, Fails, history
  <2> QED
    BY <2>1, <2>2, <2>3, <2>4, <2>5, <2>6, <2>7, <2>8 DEF TypeOK, StartType, SaverType,
         TaskType
<1>5. CASE Load
  <2>1. canonical' \in Content /\ temp' \in Content /\ legacy' \in Content
    BY <1>5, Basics, Defaults
    DEF TypeOK, Content, Load, MigrateFromSqlite, Works, Fails, Starts, LoadPath, Continue, disk
  <2>2. sqlite' \in Prefs /\ memory' \in Prefs
    BY <1>5, Basics, Defaults
    DEF TypeOK, Prefs, Load, MigrateFromSqlite, Works, Fails, Starts, LoadPath, Continue, disk
  <2>3. start' \in StartType
    <3>1. \/ start' = [start EXCEPT !.pc = "seed"]
          \/ start' = [start EXCEPT !.pc = "quarantineFound", !.unreadable = TRUE]
      BY <1>5 DEF Load, Works, Fails, MigrateFromSqlite, Continue
    <3>2. start \in StartType
      BY DEF TypeOK, StartType
    <3> QED
      BY <3>1, <3>2 DEF StartType, StartPc, Continue
  <2>4. saver' \in {NotSaving} \cup SaverType
    BY <1>5, Basics, Defaults
    DEF TypeOK, SaverType, Load, MigrateFromSqlite, Works, Fails, Starts, LoadPath, Continue,
        disk
  <2>5. tasks' \in [Tasks -> TaskType]
    BY <1>5, Basics, Defaults
    DEF TypeOK, TaskType, Load, MigrateFromSqlite, Works, Fails, Starts, LoadPath, Continue,
        disk
  <2>6. valid' \subseteq Content /\ chosen' \subseteq Days /\ wanted' \subseteq Apps
    BY <1>5, Basics
    DEF TypeOK, Content, Prefs, Load, MigrateFromSqlite, Works, Fails, Starts, LoadPath,
        Continue, disk
  <2>7. {raced, spoiled, bare, misled}' \subseteq BOOLEAN
    BY <1>5, Basics
    DEF TypeOK, Load, MigrateFromSqlite, Works, Fails, Starts, LoadPath, Continue, disk
  <2>8. count' \in [commands : 0 .. MaxCommands, failures : 0 .. MaxFailures,
                       restarts : 0 .. MaxRestarts, damage : 0 .. MaxDamage]
    BY <1>5, Basics
    DEF TypeOK, Load, MigrateFromSqlite, Works, Fails, Starts, LoadPath, Continue, disk
  <2> QED
    BY <2>1, <2>2, <2>3, <2>4, <2>5, <2>6, <2>7, <2>8 DEF TypeOK, StartType, SaverType,
         TaskType
<1>6. CASE Seed
  <2>1. canonical' \in Content /\ temp' \in Content /\ legacy' \in Content
    BY <1>6, Basics, Defaults DEF TypeOK, Content, Seed, Starts, disk, history
  <2>2. sqlite' \in Prefs /\ memory' \in Prefs
    BY <1>6, Basics, Defaults DEF TypeOK, Prefs, Seed, Starts, disk, history
  <2>3. start' \in StartType
    BY <1>6, Basics DEF TypeOK, StartType, StartPc, Seed, Starts, disk, history
  <2>4. saver' \in {NotSaving} \cup SaverType
    BY <1>6, Basics, Defaults DEF TypeOK, SaverType, Seed, Starts, disk, history
  <2>5. tasks' \in [Tasks -> TaskType]
    BY <1>6, Basics, Defaults DEF TypeOK, TaskType, Seed, Starts, disk, history
  <2>6. valid' \subseteq Content /\ chosen' \subseteq Days /\ wanted' \subseteq Apps
    BY <1>6, Basics DEF TypeOK, Content, Prefs, Seed, Starts, disk, history
  <2>7. {raced, spoiled, bare, misled}' \subseteq BOOLEAN
    BY <1>6, Basics DEF TypeOK, Seed, Starts, disk, history
  <2>8. count' \in [commands : 0 .. MaxCommands, failures : 0 .. MaxFailures,
                       restarts : 0 .. MaxRestarts, damage : 0 .. MaxDamage]
    BY <1>6, Basics DEF TypeOK, Seed, Starts, disk, history
  <2> QED
    BY <2>1, <2>2, <2>3, <2>4, <2>5, <2>6, <2>7, <2>8 DEF TypeOK, StartType, SaverType,
         TaskType
<1>7. CASE Persist
  BY <1>7, Basics DEF TypeOK, Content, Prefs, StartPc, Days, Persist, Starts, Continue,
       Settle, Works, Fails, OnDisk
<1>8. CASE OpenTemp
  BY <1>8, Basics
  DEF TypeOK, Content, Prefs, StartPc, Days, OpenTemp, Works, Fails, Saves, SaveFailed,
      NotSaving, Continue, OnDisk
<1>9. CASE WriteTemp
  BY <1>9, Basics DEF TypeOK, Content, Prefs, StartPc, Days, WriteTemp, Saves, Works,
       SaveFailed, Fails, NotSaving, Continue, OnDisk
<1>10. CASE Replace
  <2>1. saver # NotSaving
    BY <1>10 DEF Replace, Saves, NotSaving
  <2>2. canonical' \in Content /\ temp' \in Content /\ legacy' \in Content
    BY <1>10, Basics, Defaults DEF TypeOK, Content, Replace, Saves, Replaced, Works, Fails,
         Saved, NotSaving, Continue
  <2>3. sqlite' \in Prefs /\ memory' \in Prefs
    BY <1>10, <2>1, SavedTypes DEF TypeOK, Replace, Replaced, SaveFailed
  <2>4. start' \in StartType
    BY <1>10, Basics DEF TypeOK, StartType, StartPc, Replace, Saves, Replaced, Works, Fails,
         Saved, NotSaving, Continue
  <2>5. saver' \in {NotSaving} \cup SaverType
    BY <1>10, Basics, Defaults DEF TypeOK, SaverType, Replace, Saves, Replaced, Works, Fails,
         Saved, NotSaving, Continue
  <2>6. tasks' \in [Tasks -> TaskType]
    BY <1>10, <2>1, SavedTypes DEF TypeOK, TaskType, Replace, Replaced, SaveFailed
  <2>7. valid' \subseteq Content /\ chosen' \subseteq Days /\ wanted' \subseteq Apps
    BY <1>10, <2>1, SavedTypes DEF TypeOK, Content, Prefs, Replace, Replaced, SaveFailed,
         OnDisk
  <2>8. {raced, spoiled, bare, misled}' \subseteq BOOLEAN
    BY <1>10, Basics DEF TypeOK, Replace, Saves, Replaced, Works, Fails, Saved, NotSaving,
         Continue
  <2>9. count' \in [commands : 0 .. MaxCommands, failures : 0 .. MaxFailures,
                       restarts : 0 .. MaxRestarts, damage : 0 .. MaxDamage]
    BY <1>10, Basics DEF TypeOK, Replace, Saves, Replaced, Works, Fails, Saved, NotSaving,
         Continue
  <2> QED
    BY <2>2, <2>3, <2>4, <2>5, <2>6, <2>7, <2>8, <2>9 DEF TypeOK, StartType, SaverType,
         TaskType
<1>11. CASE Recover
  <2>1. saver # NotSaving
    BY <1>11 DEF Recover, Saves, NotSaving
  <2>2. canonical' \in Content /\ temp' \in Content /\ legacy' \in Content
    BY <1>11, Basics, Defaults DEF TypeOK, Content, Recover, Saves, Replaced, Works, Fails,
         SaveFailed, Saved, NotSaving, Continue, OnDisk
  <2>3. sqlite' \in Prefs /\ memory' \in Prefs
    BY <1>11, <2>1, SavedTypes DEF TypeOK, Recover, Replaced, SaveFailed
  <2>4. start' \in StartType
    BY <1>11, Basics DEF TypeOK, StartType, StartPc, Recover, Saves, Replaced, Works, Fails,
         SaveFailed, Saved, NotSaving, Continue, OnDisk
  <2>5. saver' \in {NotSaving} \cup SaverType
    BY <1>11, Basics, Defaults DEF TypeOK, SaverType, Recover, Saves, Replaced, Works, Fails,
         SaveFailed, Saved, NotSaving, Continue, OnDisk
  <2>6. tasks' \in [Tasks -> TaskType]
    BY <1>11, <2>1, SavedTypes DEF TypeOK, TaskType, Recover, Replaced, SaveFailed
  <2>7. valid' \subseteq Content /\ chosen' \subseteq Days /\ wanted' \subseteq Apps
    BY <1>11, <2>1, SavedTypes DEF TypeOK, Content, Prefs, Recover, Replaced, SaveFailed,
         OnDisk
  <2>8. {raced, spoiled, bare, misled}' \subseteq BOOLEAN
    BY <1>11, Basics DEF TypeOK, Recover, Saves, Replaced, Works, Fails, SaveFailed, Saved,
         NotSaving, Continue, OnDisk
  <2>9. count' \in [commands : 0 .. MaxCommands, failures : 0 .. MaxFailures,
                       restarts : 0 .. MaxRestarts, damage : 0 .. MaxDamage]
    BY <1>11, Basics DEF TypeOK, Recover, Saves, Replaced, Works, Fails, SaveFailed, Saved,
         NotSaving, Continue, OnDisk
  <2> QED
    BY <2>2, <2>3, <2>4, <2>5, <2>6, <2>7, <2>8, <2>9 DEF TypeOK, StartType, SaverType,
         TaskType
<1>12. ASSUME NEW t \in Tasks, NEW d \in Days, SaveSettings(t, d) PROVE TypeOK'
  BY <1>12, Basics DEF TypeOK, Content, Prefs, StartPc, Days, SaveSettings, Begin, Prepare,
       disk, Starts, NotSaving
<1>13. ASSUME NEW t \in Tasks, NEW a \in Apps, AddIgnoredApp(t, a) PROVE TypeOK'
  BY <1>13, Basics DEF TypeOK, Content, Prefs, StartPc, Days, AddIgnoredApp, Begin, disk,
       history, Starts, NotSaving
<1>14. ASSUME NEW t \in Tasks, NEW a \in Apps, RemoveIgnoredApp(t, a) PROVE TypeOK'
  BY <1>14, Basics DEF TypeOK, Content, Prefs, StartPc, Days, RemoveIgnoredApp, Begin,
       disk, history, Starts, NotSaving
<1>15. ASSUME NEW t \in Tasks, Save(t) PROVE TypeOK'
  BY <1>15, Basics DEF TypeOK, Content, Prefs, StartPc, Days, Save, NotSaving, disk
<1>16. CASE Restart
  BY <1>16, Basics DEF TypeOK, Content, Prefs, StartPc, Days, Starting, Restart, NotSaving,
       disk, history
<1>17. CASE Damage
  <2>1. canonical' \in Content /\ temp' \in Content /\ legacy' \in Content
    BY <1>17, Basics, Defaults DEF TypeOK, Content, Damage, NotSaving
  <2>2. sqlite' \in Prefs /\ memory' \in Prefs
    BY <1>17, Basics, Defaults DEF TypeOK, Prefs, Damage, NotSaving
  <2>3. start' \in StartType
    BY <1>17, Basics DEF TypeOK, StartType, StartPc, Damage, NotSaving, Starting
  <2>4. saver' \in {NotSaving} \cup SaverType
    BY <1>17, Basics, Defaults DEF TypeOK, SaverType, Damage, NotSaving
  <2>5. tasks' \in [Tasks -> TaskType]
    BY <1>17, Basics, Defaults DEF TypeOK, TaskType, Damage, NotSaving
  <2>6. valid' \subseteq Content /\ chosen' \subseteq Days /\ wanted' \subseteq Apps
    BY <1>17, Basics DEF TypeOK, Content, Prefs, Damage, NotSaving
  <2>7. {raced, spoiled, bare, misled}' \subseteq BOOLEAN
    BY <1>17, Basics DEF TypeOK, Damage, NotSaving
  <2>8. count' \in [commands : 0 .. MaxCommands, failures : 0 .. MaxFailures,
                       restarts : 0 .. MaxRestarts, damage : 0 .. MaxDamage]
    BY <1>17, DamageCounts
  <2> QED
    BY <2>1, <2>2, <2>3, <2>4, <2>5, <2>6, <2>7, <2>8 DEF TypeOK, StartType, SaverType,
         TaskType
<1>18. CASE UNCHANGED vars
  BY <1>18, Basics DEF TypeOK, Content, Prefs, StartPc, Days, disk, history, vars
<1> QED
  BY <1>1, <1>2, <1>3, <1>4, <1>5, <1>6, <1>7, <1>8, <1>9, <1>10, <1>11, <1>12, <1>13,
     <1>14, <1>15, <1>16, <1>17, <1>18 DEF Next

\* Nothing writes the stores of older releases; a file of theirs can be set aside.
LEMMA OlderStep ==
  ASSUME TypeOK, Older, NothingYet, [Next]_vars
  PROVE  Older'
<1>1. CASE Read
  BY <1>1, Basics, Defaults
  DEF Older, NothingYet, OnDisk, Starts, Read, Works, Fails, Continue, disk, history
<1>2. CASE Quarantine
  BY <1>2, Basics, Defaults
  DEF Older, NothingYet, OnDisk, Starts, Quarantine, Unreadable, AfterQuarantine, SetAside,
      Works, Fails, Continue
<1>3. CASE Copy
  BY <1>3, Basics, Defaults DEF Older, NothingYet, OnDisk, Starts, Copy, Continue, history
<1>4. CASE Copied
  BY <1>4, Basics, Defaults DEF Older, NothingYet, OnDisk, Starts, Copied, Continue, Works,
       Fails, history
<1>5. CASE Load
  BY <1>5, Basics, Defaults
  DEF Older, NothingYet, OnDisk, Starts, Load, MigrateFromSqlite, Works, Fails, LoadPath,
      Continue, disk
<1>6. CASE Seed
  BY <1>6, Basics, Defaults DEF Older, NothingYet, OnDisk, Starts, Seed, disk, history
<1>7. CASE Persist
  BY <1>7, Basics, Defaults DEF Older, NothingYet, OnDisk, Starts, Persist, Continue,
       Settle, Works, Fails
<1>8. CASE OpenTemp
  BY <1>8, Basics, Defaults
  DEF Older, NothingYet, OnDisk, Starts, OpenTemp, Works, Fails, Saves, SaveFailed, NotSaving,
      Continue
<1>9. CASE WriteTemp
  BY <1>9, Basics, Defaults DEF Older, NothingYet, OnDisk, Starts, WriteTemp, Saves, Works,
       SaveFailed, Fails, NotSaving, Continue
<1>10. CASE Replace
  BY <1>10, Basics, Defaults DEF Older, NothingYet, OnDisk, Starts, Replace, Saves,
       Replaced, Works, Fails, Saved, NotSaving, Continue
<1>11. CASE Recover
  BY <1>11, Basics, Defaults DEF Older, NothingYet, OnDisk, Starts, Recover, Saves,
       Replaced, Works, Fails, SaveFailed, Saved, NotSaving, Continue
<1>12. ASSUME NEW t \in Tasks, NEW d \in Days, SaveSettings(t, d) PROVE Older'
  BY <1>12, Basics DEF Older, NothingYet, OnDisk, Starts, SaveSettings, Begin, Prepare,
       disk, NotSaving
<1>13. ASSUME NEW t \in Tasks, NEW a \in Apps, AddIgnoredApp(t, a) PROVE Older'
  BY <1>13, Basics DEF Older, NothingYet, OnDisk, Starts, AddIgnoredApp, Begin, disk,
       history, NotSaving
<1>14. ASSUME NEW t \in Tasks, NEW a \in Apps, RemoveIgnoredApp(t, a) PROVE Older'
  BY <1>14, Basics DEF Older, NothingYet, OnDisk, Starts, RemoveIgnoredApp, Begin, disk,
       history, NotSaving
<1>15. ASSUME NEW t \in Tasks, Save(t) PROVE Older'
  BY <1>15, Basics DEF Older, NothingYet, OnDisk, Starts, Save, NotSaving, disk
<1>16. CASE Restart
  BY <1>16, Basics DEF Older, NothingYet, OnDisk, Starts, Restart, NotSaving, disk, history
<1>17. CASE Damage
  BY <1>17, Basics DEF Older, NothingYet, OnDisk, Starts, Damage, NotSaving
<1>18. CASE UNCHANGED vars
  BY <1>18 DEF Older, NothingYet, OnDisk, Starts, vars
<1> QED
  BY <1>1, <1>2, <1>3, <1>4, <1>5, <1>6, <1>7, <1>8, <1>9, <1>10, <1>11, <1>12, <1>13,
     <1>14, <1>15, <1>16, <1>17, <1>18 DEF Next

\* A save begins when none is under way, and ends with its command.
LEMMA SaverStep ==
  ASSUME TypeOK, OneSaver, [Next]_vars
  PROVE  OneSaver'
<1>1. CASE Read
  BY <1>1, Basics
  DEF TypeOK, OneSaver, NotSaving, Starts, Read, Works, Fails, Continue, OnDisk, disk, history
<1>2. CASE Quarantine
  BY <1>2, Basics
  DEF TypeOK, OneSaver, NotSaving, Starts, Quarantine, Unreadable, AfterQuarantine, SetAside,
      Works, Fails, Continue
<1>3. CASE Copy
  BY <1>3, Basics DEF TypeOK, OneSaver, NotSaving, Starts, Copy, Continue, history
<1>4. CASE Copied
  BY <1>4, Basics DEF TypeOK, OneSaver, NotSaving, Starts, Copied, Continue, Works, Fails,
       history
<1>5. CASE Load
  BY <1>5, Basics
  DEF TypeOK, OneSaver, NotSaving, Starts, Load, MigrateFromSqlite, Works, Fails, LoadPath,
      Continue, disk
<1>6. CASE Seed
  BY <1>6, Basics DEF TypeOK, OneSaver, NotSaving, Starts, Seed, disk, history
<1>7. CASE Persist
  BY <1>7, Basics DEF TypeOK, OneSaver, NotSaving, Starts, Persist, Continue, Settle,
       Works, Fails, OnDisk
<1>8. CASE OpenTemp
  BY <1>8, Basics
  DEF TypeOK, OneSaver, NotSaving, Starts, OpenTemp, Works, Fails, Saves, SaveFailed, Continue,
      OnDisk
<1>9. CASE WriteTemp
  BY <1>9, Basics DEF TypeOK, OneSaver, NotSaving, Starts, WriteTemp, Saves, Works,
       SaveFailed, Fails, Continue, OnDisk
<1>10. CASE Replace
  BY <1>10, Basics DEF TypeOK, OneSaver, NotSaving, Starts, Replace, Saves, Replaced,
       Works, Fails, Saved, Continue
<1>11. CASE Recover
  BY <1>11, Basics DEF TypeOK, OneSaver, NotSaving, Starts, Recover, Saves, Replaced,
       Works, Fails, SaveFailed, Saved, Continue, OnDisk
<1>12. ASSUME NEW t \in Tasks, NEW d \in Days, SaveSettings(t, d) PROVE OneSaver'
  BY <1>12, Basics DEF TypeOK, OneSaver, NotSaving, Starts, SaveSettings, Begin, Prepare,
       disk
<1>13. ASSUME NEW t \in Tasks, NEW a \in Apps, AddIgnoredApp(t, a) PROVE OneSaver'
  BY <1>13, Basics DEF TypeOK, OneSaver, NotSaving, Starts, AddIgnoredApp, Begin, disk,
       history
<1>14. ASSUME NEW t \in Tasks, NEW a \in Apps, RemoveIgnoredApp(t, a) PROVE OneSaver'
  BY <1>14, Basics DEF TypeOK, OneSaver, NotSaving, Starts, RemoveIgnoredApp, Begin, disk,
       history
<1>15. ASSUME NEW t \in Tasks, Save(t) PROVE OneSaver'
  BY <1>15, Basics DEF TypeOK, OneSaver, NotSaving, Starts, Save, disk
<1>16. CASE Restart
  BY <1>16, Basics DEF TypeOK, OneSaver, NotSaving, Starts, Restart, Starting, disk,
       history
<1>17. CASE Damage
  BY <1>17, Basics DEF TypeOK, OneSaver, NotSaving, Starts, Damage, Starting
<1>18. CASE UNCHANGED vars
  BY <1>18 DEF TypeOK, OneSaver, NotSaving, Starts, vars
<1> QED
  BY <1>1, <1>2, <1>3, <1>4, <1>5, <1>6, <1>7, <1>8, <1>9, <1>10, <1>11, <1>12, <1>13,
     <1>14, <1>15, <1>16, <1>17, <1>18 DEF Next

\* Only the save under way touches the temp.
LEMMA TempStep ==
  ASSUME TypeOK, OneSaver, OwnTemp, [Next]_vars
  PROVE  OwnTemp'
<1>1. CASE Read
  BY <1>1, Basics
  DEF TypeOK, OneSaver, OwnTemp, NotSaving, Starts, Read, Works, Fails, Continue, OnDisk, disk,
      history
<1>2. CASE Quarantine
  BY <1>2, Basics
  DEF TypeOK, OneSaver, OwnTemp, NotSaving, Starts, Quarantine, Unreadable, AfterQuarantine,
      SetAside, Works, Fails, Continue
<1>3. CASE Copy
  BY <1>3, Basics DEF TypeOK, OneSaver, OwnTemp, NotSaving, Starts, Copy, Continue, history
<1>4. CASE Copied
  BY <1>4, Basics DEF TypeOK, OneSaver, OwnTemp, NotSaving, Starts, Copied, Continue,
       Works, Fails, history
<1>5. CASE Load
  BY <1>5, Basics
  DEF TypeOK, OneSaver, OwnTemp, NotSaving, Starts, Load, MigrateFromSqlite, Works, Fails,
      LoadPath, Continue, disk
<1>6. CASE Seed
  BY <1>6, Basics DEF TypeOK, OneSaver, OwnTemp, NotSaving, Starts, Seed, disk, history
<1>7. CASE Persist
  BY <1>7, Basics DEF TypeOK, OneSaver, OwnTemp, NotSaving, Starts, Persist, Continue,
       Settle, Works, Fails, OnDisk
<1>8. CASE OpenTemp
  BY <1>8, Basics
  DEF TypeOK, OneSaver, OwnTemp, NotSaving, Starts, OpenTemp, Works, Fails, Saves, SaveFailed,
      Continue, OnDisk
<1>9. CASE WriteTemp
  BY <1>9, Basics DEF TypeOK, OneSaver, OwnTemp, NotSaving, Starts, WriteTemp, Saves,
       Works, SaveFailed, Fails, Continue, OnDisk
<1>10. CASE Replace
  BY <1>10, Basics DEF TypeOK, OneSaver, OwnTemp, NotSaving, Starts, Replace, Saves,
       Replaced, Works, Fails, Saved, Continue
<1>11. CASE Recover
  BY <1>11, Basics DEF TypeOK, OneSaver, OwnTemp, NotSaving, Starts, Recover, Saves,
       Replaced, Works, Fails, SaveFailed, Saved, Continue, OnDisk
<1>12. ASSUME NEW t \in Tasks, NEW d \in Days, SaveSettings(t, d) PROVE OwnTemp'
  BY <1>12, Basics DEF TypeOK, OneSaver, OwnTemp, NotSaving, Starts, SaveSettings, Begin,
       Prepare, disk
<1>13. ASSUME NEW t \in Tasks, NEW a \in Apps, AddIgnoredApp(t, a) PROVE OwnTemp'
  BY <1>13, Basics DEF TypeOK, OneSaver, OwnTemp, NotSaving, Starts, AddIgnoredApp, Begin,
       disk, history
<1>14. ASSUME NEW t \in Tasks, NEW a \in Apps, RemoveIgnoredApp(t, a) PROVE OwnTemp'
  BY <1>14, Basics DEF TypeOK, OneSaver, OwnTemp, NotSaving, Starts, RemoveIgnoredApp,
       Begin, disk, history
<1>15. ASSUME NEW t \in Tasks, Save(t) PROVE OwnTemp'
  BY <1>15, Basics DEF TypeOK, OneSaver, OwnTemp, NotSaving, Starts, Save, disk
<1>16. CASE Restart
  BY <1>16, Basics DEF TypeOK, OneSaver, OwnTemp, NotSaving, Starts, Restart, Starting,
       disk, history
<1>17. CASE Damage
  BY <1>17, Basics DEF TypeOK, OneSaver, OwnTemp, NotSaving, Starts, Damage, Starting
<1>18. CASE UNCHANGED vars
  BY <1>18 DEF TypeOK, OneSaver, OwnTemp, NotSaving, Starts, vars
<1> QED
  BY <1>1, <1>2, <1>3, <1>4, <1>5, <1>6, <1>7, <1>8, <1>9, <1>10, <1>11, <1>12, <1>13,
     <1>14, <1>15, <1>16, <1>17, <1>18 DEF Next

\* The disk keeps what was saved: a replace that deletes the file leaves the temp.
LEMMA SurvivesStep ==
  ASSUME TypeOK, Older, OneSaver, OwnTemp, Survives, [Next]_vars
  PROVE  Survives'
<1>1. CASE Read
  BY <1>1, Basics
  DEF TypeOK, Older, OneSaver, OwnTemp, Survives, Sound, Content, NotSaving, Starts, OnDisk,
      Read, Works, Fails, Continue, disk, history
<1>2. CASE Quarantine
  BY <1>2, Basics
  DEF TypeOK, Older, OneSaver, OwnTemp, Survives, Sound, Content, NotSaving, Starts, OnDisk,
      Quarantine, Unreadable, AfterQuarantine, SetAside, Works, Fails, Continue
<1>3. CASE Copy
  BY <1>3, Basics DEF TypeOK, Older, OneSaver, OwnTemp, Survives, Sound, Content,
       NotSaving, Starts, OnDisk, Copy, Continue, history
<1>4. CASE Copied
  BY <1>4, Basics DEF TypeOK, Older, OneSaver, OwnTemp, Survives, Sound, Content,
       NotSaving, Starts, OnDisk, Copied, Continue, Works, Fails, history
<1>5. CASE Load
  BY <1>5, Basics
  DEF TypeOK, Older, OneSaver, OwnTemp, Survives, Sound, Content, NotSaving, Starts, OnDisk,
      Load, MigrateFromSqlite, Works, Fails, LoadPath, Continue, disk
<1>6. CASE Seed
  BY <1>6, Basics DEF TypeOK, Older, OneSaver, OwnTemp, Survives, Sound, Content,
       NotSaving, Starts, OnDisk, Seed, disk, history
<1>7. CASE Persist
  BY <1>7, Basics DEF TypeOK, Older, OneSaver, OwnTemp, Survives, Sound, Content,
       NotSaving, Starts, OnDisk, Persist, Continue, Settle, Works, Fails
<1>8. CASE OpenTemp
  BY <1>8, Basics
  DEF TypeOK, Older, OneSaver, OwnTemp, Survives, Sound, Content, NotSaving, Starts, OnDisk,
      OpenTemp, Works, Fails, Saves, SaveFailed, Continue
<1>9. CASE WriteTemp
  BY <1>9, Basics DEF TypeOK, Older, OneSaver, OwnTemp, Survives, Sound, Content,
       NotSaving, Starts, OnDisk, WriteTemp, Saves, Works, SaveFailed, Fails, Continue
<1>10. CASE Replace
  BY <1>10, Basics DEF TypeOK, Older, OneSaver, OwnTemp, Survives, Sound, Content,
       NotSaving, Starts, OnDisk, Replace, Saves, Replaced, Works, Fails, Saved, Continue
<1>11. CASE Recover
  BY <1>11, Basics DEF TypeOK, Older, OneSaver, OwnTemp, Survives, Sound, Content,
       NotSaving, Starts, OnDisk, Recover, Saves, Replaced, Works, Fails, SaveFailed,
       Saved, Continue
<1>12. ASSUME NEW t \in Tasks, NEW d \in Days, SaveSettings(t, d) PROVE Survives'
  BY <1>12, Basics DEF TypeOK, Older, OneSaver, OwnTemp, Survives, Sound, Content,
       NotSaving, Starts, OnDisk, SaveSettings, Begin, Prepare, disk
<1>13. ASSUME NEW t \in Tasks, NEW a \in Apps, AddIgnoredApp(t, a) PROVE Survives'
  BY <1>13, Basics DEF TypeOK, Older, OneSaver, OwnTemp, Survives, Sound, Content,
       NotSaving, Starts, OnDisk, AddIgnoredApp, Begin, disk, history
<1>14. ASSUME NEW t \in Tasks, NEW a \in Apps, RemoveIgnoredApp(t, a) PROVE Survives'
  BY <1>14, Basics DEF TypeOK, Older, OneSaver, OwnTemp, Survives, Sound, Content,
       NotSaving, Starts, OnDisk, RemoveIgnoredApp, Begin, disk, history
<1>15. ASSUME NEW t \in Tasks, Save(t) PROVE Survives'
  BY <1>15, Basics DEF TypeOK, Older, OneSaver, OwnTemp, Survives, Sound, Content,
       NotSaving, Starts, OnDisk, Save, disk
<1>16. CASE Restart
  BY <1>16, Basics DEF TypeOK, Older, OneSaver, OwnTemp, Survives, Sound, Content,
       NotSaving, Starts, OnDisk, Restart, Starting, disk, history
<1>17. CASE Damage
  BY <1>17, Basics DEF TypeOK, Older, OneSaver, OwnTemp, Survives, Sound, Content,
       NotSaving, Starts, OnDisk, Damage, Starting
<1>18. CASE UNCHANGED vars
  BY <1>18 DEF TypeOK, Older, OneSaver, OwnTemp, Survives, Sound, Content, NotSaving,
       Starts, OnDisk, vars
<1> QED
  BY <1>1, <1>2, <1>3, <1>4, <1>5, <1>6, <1>7, <1>8, <1>9, <1>10, <1>11, <1>12, <1>13,
     <1>14, <1>15, <1>16, <1>17, <1>18 DEF Next

\* Thirty days are never made up: an unreadable file leads to safe defaults, and only a
\* first launch asks the older database.
LEMMA MeantStep ==
  ASSUME TypeOK, Older, OneSaver, OwnTemp, AllMeant, NothingYet, [Next]_vars
  PROVE  AllMeant'
<1>1. CASE Read
  <2>1. (canonical \in Prefs => Meant(canonical))'
    BY <1>1, Basics, Defaults
    DEF TypeOK, Older, AllMeant, NothingYet, Meant, Loaded, Looking, FirstLaunch, Content,
        NotSaving, OnDisk, Starts, Read, Works, Fails, Continue, disk, history
  <2>2. (temp \in Prefs => Meant(temp))'
    BY <1>1, Basics, Defaults
    DEF TypeOK, Older, AllMeant, NothingYet, Meant, Loaded, Looking, FirstLaunch, Content,
        NotSaving, OnDisk, Starts, Read, Works, Fails, Continue, disk, history
  <2>3. (start.pc \in Loaded \/ (start.pc \in Looking /\ start.unreadable) =>
           Meant(memory))'
    <3>1. UNCHANGED <<canonical, temp, chosen, misled>> /\ ~start.unreadable
      BY <1>1 DEF Read, disk, Starts, NothingYet, Starting
    <3>2. CASE OnDisk \in Prefs /\ memory' = OnDisk
      BY <3>1, <3>2 DEF AllMeant, Meant, OnDisk
    <3>3. CASE start'.pc = "copy" /\ start'.unreadable = start.unreadable
      BY <3>1, <3>3 DEF Loaded
    <3>4. CASE start'.pc = "quarantine"
      BY <3>4 DEF Loaded, Looking
    <3> QED
      BY <1>1, <3>2, <3>3, <3>4, ReadOutcomes
  <2>4. (saver # NotSaving => Meant(saver.value))'
    BY <1>1, Basics, Defaults
    DEF TypeOK, Older, AllMeant, NothingYet, Meant, Loaded, Looking, FirstLaunch, Content,
        NotSaving, OnDisk, Starts, Read, Works, Fails, Continue, disk, history
  <2>5. (\A t \in Tasks : tasks[t] # None => Meant(tasks[t].value))'
    BY <1>1, Basics, Defaults
    DEF TypeOK, Older, AllMeant, NothingYet, Meant, Loaded, Looking, FirstLaunch, Content,
        NotSaving, OnDisk, Starts, Read, Works, Fails, Continue, disk, history
  <2> QED
    BY <2>1, <2>2, <2>3, <2>4, <2>5 DEF AllMeant
<1>2. CASE Quarantine
  BY <1>2, Basics, Defaults
  DEF TypeOK, Older, OneSaver, OwnTemp, AllMeant, NothingYet, Meant, Loaded, Looking,
      FirstLaunch, Content, NotSaving, Starts, OnDisk, Quarantine, Unreadable, AfterQuarantine,
      SetAside, Works, Fails, Continue
<1>3. CASE Copy
  BY <1>3, Basics, Defaults DEF TypeOK, Older, OneSaver, OwnTemp, AllMeant, NothingYet,
       Meant, Loaded, Looking, FirstLaunch, Content, NotSaving, Starts, OnDisk, Copy,
       Continue, history
<1>4. CASE Copied
  <2>1. (canonical \in Prefs => Meant(canonical))'
    BY <1>4, Basics, Defaults DEF TypeOK, Older, AllMeant, NothingYet, Meant, Loaded,
         Looking, FirstLaunch, Content, NotSaving, OnDisk, Starts, Copied, Continue, Works,
         Fails, history
  <2>2. (temp \in Prefs => Meant(temp))'
    BY <1>4, Basics, Defaults DEF TypeOK, Older, AllMeant, NothingYet, Meant, Loaded,
         Looking, FirstLaunch, Content, NotSaving, OnDisk, Starts, Copied, Continue, Works,
         Fails, history
  <2>3. (start.pc \in Loaded \/ (start.pc \in Looking /\ start.unreadable) =>
           Meant(memory))'
    BY <1>4, Basics, Defaults DEF TypeOK, Older, AllMeant, NothingYet, Meant, Loaded,
         Looking, FirstLaunch, Content, NotSaving, OnDisk, Starts, Copied, Continue, Works,
         Fails, history
  <2>4. (saver # NotSaving => Meant(saver.value))'
    BY <1>4, Basics, Defaults DEF TypeOK, Older, AllMeant, NothingYet, Meant, Loaded,
         Looking, FirstLaunch, Content, NotSaving, OnDisk, Starts, Copied, Continue, Works,
         Fails, history
  <2>5. (\A t \in Tasks : tasks[t] # None => Meant(tasks[t].value))'
    BY <1>4, Basics, Defaults DEF TypeOK, Older, AllMeant, NothingYet, Meant, Loaded,
         Looking, FirstLaunch, Content, NotSaving, OnDisk, Starts, Copied, Continue, Works,
         Fails, history
  <2> QED
    BY <2>1, <2>2, <2>3, <2>4, <2>5 DEF AllMeant
<1>5. CASE Load
  <2>1. (canonical \in Prefs => Meant(canonical))'
    BY <1>5, Basics, Defaults
    DEF TypeOK, Older, AllMeant, NothingYet, Meant, Loaded, Looking, FirstLaunch, Content,
        NotSaving, OnDisk, Starts, Load, MigrateFromSqlite, Works, Fails, LoadPath, Continue,
        disk
  <2>2. (temp \in Prefs => Meant(temp))'
    BY <1>5, Basics, Defaults
    DEF TypeOK, Older, AllMeant, NothingYet, Meant, Loaded, Looking, FirstLaunch, Content,
        NotSaving, OnDisk, Starts, Load, MigrateFromSqlite, Works, Fails, LoadPath, Continue,
        disk
  <2>3. (start.pc \in Loaded \/ (start.pc \in Looking /\ start.unreadable) =>
           Meant(memory))'
    <3>1. UNCHANGED <<disk, chosen>> /\ (misled => misled')
      <4>1. UNCHANGED <<disk, chosen>>
        BY <1>5 DEF Load
      <4>2. misled => misled'
        BY <1>5, Zenon DEF Load, MigrateFromSqlite
      <4> QED
        BY <4>1, <4>2
    <3>2. CASE LoadPath \in Prefs /\ memory' = LoadPath
      <4>1. LoadPath = canonical \/ (LoadPath = legacy /\ legacy = SafeDefault)
        BY <3>2, Basics DEF LoadPath, Older
      <4> QED
        BY <3>1, <3>2, <4>1, Defaults DEF AllMeant, Meant
    <3>3. CASE start.unreadable /\ memory' = memory
      BY <1>5, <3>1, <3>3
      DEF Load, MigrateFromSqlite, Works, Fails, Starts, AllMeant, Meant, Looking
    <3>4. CASE LoadPath = None /\ ~start.unreadable /\ MigrateFromSqlite
      <4>1. \/ memory' = sqlite /\ (bare => misled')
            \/ misled'
        BY <3>4 DEF MigrateFromSqlite
      <4>2. ~bare => FirstLaunch /\ legacy = None
        BY <1>5, <3>4
        DEF Load, MigrateFromSqlite, Works, Fails, Starts, LoadPath, NothingYet, OnDisk, Looking
      <4> QED
        BY <3>1, <4>1, <4>2 DEF FirstLaunch, Meant
    <3>5. CASE start' = [start EXCEPT !.pc = "quarantineFound", !.unreadable = TRUE]
      <4>1. start'.pc = "quarantineFound"
        BY <3>5, StartUpdates DEF StartType
      <4> QED
        BY <4>1 DEF Loaded, Looking
    <3> QED
      BY <1>5, <3>2, <3>3, <3>4, <3>5 DEF Load, MigrateFromSqlite, Works, Fails
  <2>4. (saver # NotSaving => Meant(saver.value))'
    BY <1>5, Basics, Defaults
    DEF TypeOK, Older, AllMeant, NothingYet, Meant, Loaded, Looking, FirstLaunch, Content,
        NotSaving, OnDisk, Starts, Load, MigrateFromSqlite, Works, Fails, LoadPath, Continue,
        disk
  <2>5. (\A t \in Tasks : tasks[t] # None => Meant(tasks[t].value))'
    BY <1>5, Basics, Defaults
    DEF TypeOK, Older, AllMeant, NothingYet, Meant, Loaded, Looking, FirstLaunch, Content,
        NotSaving, OnDisk, Starts, Load, MigrateFromSqlite, Works, Fails, LoadPath, Continue,
        disk
  <2> QED
    BY <2>1, <2>2, <2>3, <2>4, <2>5 DEF AllMeant
<1>6. CASE Seed
  BY <1>6, Basics, Defaults DEF TypeOK, Older, OneSaver, OwnTemp, AllMeant, NothingYet,
       Meant, Loaded, Looking, FirstLaunch, Content, NotSaving, Starts, OnDisk, Seed, disk,
       history
<1>7. CASE Persist
  BY <1>7, Basics, Defaults DEF TypeOK, Older, OneSaver, OwnTemp, AllMeant, NothingYet,
       Meant, Loaded, Looking, FirstLaunch, Content, NotSaving, Starts, OnDisk, Persist,
       Continue, Settle, Works, Fails
<1>8. CASE OpenTemp
  BY <1>8, Basics, Defaults
  DEF TypeOK, Older, OneSaver, OwnTemp, AllMeant, NothingYet, Meant, Loaded, Looking,
      FirstLaunch, Content, NotSaving, Starts, OnDisk, OpenTemp, Works, Fails, Saves,
      SaveFailed, Continue
<1>9. CASE WriteTemp
  BY <1>9, Basics, Defaults DEF TypeOK, Older, OneSaver, OwnTemp, AllMeant, NothingYet,
       Meant, Loaded, Looking, FirstLaunch, Content, NotSaving, Starts, OnDisk, WriteTemp,
       Saves, Works, SaveFailed, Fails, Continue
<1>10. CASE Replace
  BY <1>10, Basics, Defaults DEF TypeOK, Older, OneSaver, OwnTemp, AllMeant, NothingYet,
       Meant, Loaded, Looking, FirstLaunch, Content, NotSaving, Starts, OnDisk, Replace,
       Saves, Replaced, Works, Fails, Saved, Continue
<1>11. CASE Recover
  BY <1>11, Basics, Defaults DEF TypeOK, Older, OneSaver, OwnTemp, AllMeant, NothingYet,
       Meant, Loaded, Looking, FirstLaunch, Content, NotSaving, Starts, OnDisk, Recover,
       Saves, Replaced, Works, Fails, SaveFailed, Saved, Continue
<1>12. ASSUME NEW t \in Tasks, NEW d \in Days, SaveSettings(t, d) PROVE AllMeant'
  BY <1>12, Basics DEF TypeOK, Older, OneSaver, OwnTemp, AllMeant, NothingYet, Meant,
       Loaded, Looking, FirstLaunch, Content, NotSaving, Starts, OnDisk, SaveSettings,
       Begin, Prepare, disk
<1>13. ASSUME NEW t \in Tasks, NEW a \in Apps, AddIgnoredApp(t, a) PROVE AllMeant'
  BY <1>13, Basics DEF TypeOK, Older, OneSaver, OwnTemp, AllMeant, NothingYet, Meant,
       Loaded, Looking, FirstLaunch, Content, NotSaving, Starts, OnDisk, AddIgnoredApp,
       Begin, disk, history
<1>14. ASSUME NEW t \in Tasks, NEW a \in Apps, RemoveIgnoredApp(t, a) PROVE AllMeant'
  BY <1>14, Basics DEF TypeOK, Older, OneSaver, OwnTemp, AllMeant, NothingYet, Meant,
       Loaded, Looking, FirstLaunch, Content, NotSaving, Starts, OnDisk, RemoveIgnoredApp,
       Begin, disk, history
<1>15. ASSUME NEW t \in Tasks, Save(t) PROVE AllMeant'
  BY <1>15, Basics DEF TypeOK, Older, OneSaver, OwnTemp, AllMeant, NothingYet, Meant,
       Loaded, Looking, FirstLaunch, Content, NotSaving, Starts, OnDisk, Save, disk
<1>16. CASE Restart
  BY <1>16, Basics DEF TypeOK, Older, OneSaver, OwnTemp, AllMeant, NothingYet, Meant,
       Loaded, Looking, FirstLaunch, Content, NotSaving, Starts, OnDisk, Restart, Starting,
       disk, history
<1>17. CASE Damage
  BY <1>17, Basics DEF TypeOK, Older, OneSaver, OwnTemp, AllMeant, NothingYet, Meant,
       Loaded, Looking, FirstLaunch, Content, NotSaving, Starts, OnDisk, Damage, Starting
<1>18. CASE UNCHANGED vars
  BY <1>18 DEF TypeOK, Older, OneSaver, OwnTemp, AllMeant, NothingYet, Meant, Loaded,
       Looking, FirstLaunch, Content, NotSaving, Starts, OnDisk, vars
<1> QED
  BY <1>1, <1>2, <1>3, <1>4, <1>5, <1>6, <1>7, <1>8, <1>9, <1>10, <1>11, <1>12, <1>13,
     <1>14, <1>15, <1>16, <1>17, <1>18 DEF Next

\* Without a file this is a first launch, or a start that set one aside.
LEMMA FirstStep ==
  ASSUME TypeOK, Older, OneSaver, OwnTemp, NothingYet, [Next]_vars
  PROVE  NothingYet'
<1>1. CASE Read
  <2>1. (~bare /\ OnDisk = None => FirstLaunch)'
    BY <1>1, Basics, Defaults
    DEF TypeOK, Older, NothingYet, Unreadable, Looking, FirstLaunch, Content, OnDisk, Starts,
        Read, Works, Fails, Continue, disk, history
  <2>2. (~bare /\ canonical = None /\ saver.pc = "write" => FirstLaunch)'
    BY <1>1, Basics, Defaults
    DEF TypeOK, Older, NothingYet, Unreadable, Looking, FirstLaunch, Content, OnDisk, Starts,
        OneSaver, NotSaving, Read, Works, Fails, Continue, disk, history
  <2>3. (~bare /\ temp = None /\ Starts("copying") => FirstLaunch)'
    BY <1>1, ReadOutcomes, Basics
    DEF TypeOK, Content, NothingYet, Unreadable, Looking, Read, Works, Fails, Continue, Starts,
        OnDisk, disk, history, Starting
  <2>4. (start.pc \in Looking /\ ~start.unreadable =>
           /\ temp = None
           /\ Starts("load") /\ canonical = None => legacy = None \/ start.file = "legacy")'
    BY <1>1, ReadOutcomes, Basics
    DEF TypeOK, Content, NothingYet, Unreadable, Looking, Read, Works, Fails, Continue, Starts,
        OnDisk, disk, history, Starting
  <2>5. (Starts("read") => start = Starting)'
    BY <1>1, ReadOutcomes, Basics
    DEF TypeOK, Content, NothingYet, Unreadable, Looking, Read, Works, Fails, Continue, Starts,
        OnDisk, disk, history, Starting
  <2>6. (Starts("load") /\ start.file = "legacy" => legacy # None)'
    BY <1>1, ReadOutcomes, Basics
    DEF TypeOK, Content, NothingYet, Unreadable, Looking, Read, Works, Fails, Continue, Starts,
        OnDisk, disk, history, Starting
  <2>7. (Starts("copying") => legacy # None)'
    BY <1>1, ReadOutcomes, Basics
    DEF TypeOK, Content, NothingYet, Unreadable, Looking, Read, Works, Fails, Continue, Starts,
        OnDisk, disk, history, Starting
  <2>8. (Unreadable => start.unreadable)'
    BY <1>1, ReadOutcomes, Basics
    DEF TypeOK, Content, NothingYet, Unreadable, Looking, Read, Works, Fails, Continue, Starts,
        OnDisk, disk, history, Starting
  <2>9. (Starts("quarantine") => start.file # "legacy")'
    BY <1>1, ReadOutcomes, Basics
    DEF TypeOK, Content, NothingYet, Unreadable, Looking, Read, Works, Fails, Continue, Starts,
        OnDisk, disk, history, Starting
  <2>10. (Starts("copy") \/ Starts("copying") => start.file # "legacy")'
    <3>1. start.file = "canonical"
      BY <1>1 DEF Read, NothingYet, Starts, Starting
    <3> QED
      BY <1>1, <3>1, ReadOutcomes DEF Starts
  <2> QED
    BY <2>1, <2>2, <2>3, <2>4, <2>5, <2>6, <2>7, <2>8, <2>9, <2>10
       DEF NothingYet
<1>2. CASE Quarantine
  BY <1>2, Basics, Defaults
  DEF TypeOK, Older, OneSaver, OwnTemp, NothingYet, Unreadable, FirstLaunch, Content, Looking,
      NotSaving, Starts, OnDisk, Quarantine, AfterQuarantine, SetAside, Works,
      Fails, Continue
<1>3. CASE Copy
  BY <1>3, Basics, Defaults
  DEF TypeOK, Older, OneSaver, OwnTemp, NothingYet, Unreadable, FirstLaunch, Content, Looking,
      NotSaving, Starts, OnDisk, Copy, Continue, history
<1>4. CASE Copied
  <2>0. /\ start'.pc = "load" /\ start'.unreadable = start.unreadable
        /\ canonical' = legacy \/ start'.file = "legacy"
    <3>1. start \in StartType
      BY StartUpdates
    <3>2. \/ canonical' = legacy /\ start' = [start EXCEPT !.pc = "load"]
          \/ start' = [start EXCEPT !.pc = "load", !.file = "legacy"]
      BY <1>4 DEF Copied, Continue
    <3> QED
      BY <3>1, <3>2 DEF StartType
  <2>1. (~bare /\ OnDisk = None => FirstLaunch)'
    BY <1>4, Basics, Defaults
    DEF TypeOK, Older, NothingYet, Unreadable, Looking, FirstLaunch, Content, OnDisk, Starts,
        Copied, Continue, Works, Fails, history
  <2>2. (~bare /\ canonical = None /\ saver.pc = "write" => FirstLaunch)'
    BY <1>4, Basics, Defaults
    DEF TypeOK, Older, NothingYet, Unreadable, Looking, FirstLaunch, Content, OnDisk, Starts,
        OneSaver, NotSaving, Copied, Continue, Works, Fails, history
  <2>3. (~bare /\ temp = None /\ Starts("copying") => FirstLaunch)'
    BY <1>4, Basics, Defaults
    DEF TypeOK, Older, NothingYet, Unreadable, Looking, FirstLaunch, Content, OnDisk, Starts,
        Copied, Continue, Works, Fails, history
  <2>4. (start.pc \in Looking /\ ~start.unreadable =>
           /\ temp = None
           /\ Starts("load") /\ canonical = None => legacy = None \/ start.file = "legacy")'
    <3>1. UNCHANGED temp /\ start.pc = "copying" /\ legacy # None
      BY <1>4 DEF Copied, NothingYet, Starts
    <3>3. ~start.unreadable => temp = None
      BY <3>1 DEF NothingYet, Looking
    <3>4. canonical' = legacy => canonical' # None
      BY <3>1
    <3> QED
      BY <2>0, <3>1, <3>3, <3>4 DEF Starts
  <2>5. (Starts("read") => start = Starting)'
    BY <2>0 DEF Starts
  <2>6. (Starts("load") /\ start.file = "legacy" => legacy # None)'
    BY <1>4, Basics, Defaults
    DEF TypeOK, Older, NothingYet, Unreadable, Looking, FirstLaunch, Content, OnDisk, Starts,
        Copied, Continue, Works, Fails, history
  <2>7. (Starts("copying") => legacy # None)'
    BY <1>4, Basics, Defaults
    DEF TypeOK, Older, NothingYet, Unreadable, Looking, FirstLaunch, Content, OnDisk, Starts,
        Copied, Continue, Works, Fails, history
  <2>8. (Unreadable => start.unreadable)'
    BY <1>4, Basics, Defaults
    DEF TypeOK, Older, NothingYet, Unreadable, Looking, FirstLaunch, Content, OnDisk, Starts,
        Copied, Continue, Works, Fails, history
  <2>9. (Starts("quarantine") => start.file # "legacy")'
    BY <1>4, Basics, Defaults
    DEF TypeOK, Older, NothingYet, Unreadable, Looking, FirstLaunch, Content, OnDisk, Starts,
        Copied, Continue, Works, Fails, history
  <2>10. (Starts("copy") \/ Starts("copying") => start.file # "legacy")'
    BY <1>4, Basics, Defaults
    DEF TypeOK, Older, NothingYet, Unreadable, Looking, FirstLaunch, Content, OnDisk, Starts,
        Copied, Continue, Works, Fails, history
  <2> QED
    BY <2>1, <2>2, <2>3, <2>4, <2>5, <2>6, <2>7, <2>8, <2>9, <2>10
       DEF NothingYet
<1>5. CASE Load
  <2>1. (~bare /\ OnDisk = None => FirstLaunch)'
    BY <1>5, Basics, Defaults
    DEF TypeOK, Older, NothingYet, Unreadable, Looking, FirstLaunch, Content, OnDisk, Starts, Load,
        MigrateFromSqlite, Works, Fails, LoadPath, Continue, disk
  <2>2. (~bare /\ canonical = None /\ saver.pc = "write" => FirstLaunch)'
    BY <1>5, Basics, Defaults
    DEF TypeOK, Older, NothingYet, Unreadable, Looking, FirstLaunch, Content, OnDisk, Starts,
        OneSaver, NotSaving, Load, MigrateFromSqlite, Works, Fails, LoadPath, Continue, disk
  <2>3. (~bare /\ temp = None /\ Starts("copying") => FirstLaunch)'
    BY <1>5, Basics, Defaults
    DEF TypeOK, Older, NothingYet, Unreadable, Looking, FirstLaunch, Content, OnDisk, Starts, Load,
        MigrateFromSqlite, Works, Fails, LoadPath, Continue, disk
  <2>4. (start.pc \in Looking /\ ~start.unreadable =>
           /\ temp = None
           /\ Starts("load") /\ canonical = None => legacy = None \/ start.file = "legacy")'
    BY <1>5, Basics, Defaults
    DEF TypeOK, Older, NothingYet, Unreadable, Looking, FirstLaunch, Content, OnDisk, Starts, Load,
        MigrateFromSqlite, Works, Fails, LoadPath, Continue, disk
  <2>5. (Starts("read") => start = Starting)'
    BY <1>5, Basics, Defaults
    DEF TypeOK, Older, NothingYet, Unreadable, Looking, FirstLaunch, Content, OnDisk, Starts, Load,
        MigrateFromSqlite, Works, Fails, LoadPath, Continue, disk
  <2>6. (Starts("load") /\ start.file = "legacy" => legacy # None)'
    BY <1>5, Basics, Defaults
    DEF TypeOK, Older, NothingYet, Unreadable, Looking, FirstLaunch, Content, OnDisk, Starts, Load,
        MigrateFromSqlite, Works, Fails, LoadPath, Continue, disk
  <2>7. (Starts("copying") => legacy # None)'
    BY <1>5, Basics, Defaults
    DEF TypeOK, Older, NothingYet, Unreadable, Looking, FirstLaunch, Content, OnDisk, Starts, Load,
        MigrateFromSqlite, Works, Fails, LoadPath, Continue, disk
  <2>8. (Unreadable => start.unreadable)'
    BY <1>5, Basics, Defaults
    DEF TypeOK, Older, NothingYet, Unreadable, Looking, FirstLaunch, Content, OnDisk, Starts, Load,
        MigrateFromSqlite, Works, Fails, LoadPath, Continue, disk
  <2>9. (Starts("quarantine") => start.file # "legacy")'
    BY <1>5, Basics, Defaults
    DEF TypeOK, Older, NothingYet, Unreadable, Looking, FirstLaunch, Content, OnDisk, Starts, Load,
        MigrateFromSqlite, Works, Fails, LoadPath, Continue, disk
  <2>10. (Starts("copy") \/ Starts("copying") => start.file # "legacy")'
    BY <1>5, Basics, Defaults
    DEF TypeOK, Older, NothingYet, Unreadable, Looking, FirstLaunch, Content, OnDisk, Starts, Load,
        MigrateFromSqlite, Works, Fails, LoadPath, Continue, disk
  <2> QED
    BY <2>1, <2>2, <2>3, <2>4, <2>5, <2>6, <2>7, <2>8, <2>9, <2>10
       DEF NothingYet
<1>6. CASE Seed
  BY <1>6, Basics, Defaults
  DEF TypeOK, Older, OneSaver, OwnTemp, NothingYet, Unreadable, FirstLaunch, Content, Looking,
      NotSaving, Starts, OnDisk, Seed, disk, history
<1>7. CASE Persist
  BY <1>7, Basics, Defaults
  DEF TypeOK, Older, OneSaver, OwnTemp, NothingYet, Unreadable, FirstLaunch, Content, Looking,
      NotSaving, Starts, OnDisk, Persist, Continue, Settle, Works, Fails
<1>8. CASE OpenTemp
  BY <1>8, Basics, Defaults
  DEF TypeOK, Older, OneSaver, OwnTemp, NothingYet, Unreadable, FirstLaunch, Content, Looking,
      NotSaving, Starts, OnDisk, OpenTemp, Works, Fails, Saves, SaveFailed, Continue
<1>9. CASE WriteTemp
  BY <1>9, Basics, Defaults
  DEF TypeOK, Older, OneSaver, OwnTemp, NothingYet, Unreadable, FirstLaunch, Content, Looking,
      NotSaving, Starts, OnDisk, WriteTemp, Saves, Works, SaveFailed, Fails, Continue
<1>10. CASE Replace
  BY <1>10, Basics, Defaults
  DEF TypeOK, Older, OneSaver, OwnTemp, NothingYet, Unreadable, FirstLaunch, Content, Looking,
      NotSaving, Starts, OnDisk, Replace, Saves, Replaced, Works, Fails, Saved, Continue
<1>11. CASE Recover
  BY <1>11, Basics, Defaults
  DEF TypeOK, Older, OneSaver, OwnTemp, NothingYet, Unreadable, FirstLaunch, Content, Looking,
      NotSaving, Starts, OnDisk, Recover, Saves, Replaced, Works, Fails, SaveFailed, Saved,
      Continue
<1>12. ASSUME NEW t \in Tasks, NEW d \in Days, SaveSettings(t, d) PROVE NothingYet'
  BY <1>12, Basics
  DEF TypeOK, Older, OneSaver, OwnTemp, NothingYet, Unreadable, FirstLaunch, Content, Looking,
      NotSaving, Starts, OnDisk, SaveSettings, Begin, Prepare, disk
<1>13. ASSUME NEW t \in Tasks, NEW a \in Apps, AddIgnoredApp(t, a) PROVE NothingYet'
  BY <1>13, Basics
  DEF TypeOK, Older, OneSaver, OwnTemp, NothingYet, Unreadable, FirstLaunch, Content, Looking,
      NotSaving, Starts, OnDisk, AddIgnoredApp, Begin, disk, history
<1>14. ASSUME NEW t \in Tasks, NEW a \in Apps, RemoveIgnoredApp(t, a) PROVE NothingYet'
  BY <1>14, Basics
  DEF TypeOK, Older, OneSaver, OwnTemp, NothingYet, Unreadable, FirstLaunch, Content, Looking,
      NotSaving, Starts, OnDisk, RemoveIgnoredApp, Begin, disk, history
<1>15. ASSUME NEW t \in Tasks, Save(t) PROVE NothingYet'
  BY <1>15, Basics
  DEF TypeOK, Older, OneSaver, OwnTemp, NothingYet, Unreadable, FirstLaunch, Content, Looking,
      NotSaving, Starts, OnDisk, Save, disk
<1>16. CASE Restart
  BY <1>16, Basics
  DEF TypeOK, Older, OneSaver, OwnTemp, NothingYet, Unreadable, FirstLaunch, Content, Looking,
      NotSaving, Starts, OnDisk, Restart, Starting, disk, history
<1>17. CASE Damage
  BY <1>17, Basics
  DEF TypeOK, Older, OneSaver, OwnTemp, NothingYet, Unreadable, FirstLaunch, Content, Looking,
      NotSaving, Starts, OnDisk, Damage, Starting
<1>18. CASE UNCHANGED vars
  BY <1>18
  DEF TypeOK, Older, OneSaver, OwnTemp, NothingYet, Unreadable, FirstLaunch, Content, Looking,
      NotSaving, Starts, OnDisk, vars
<1> QED
  BY <1>1, <1>2, <1>3, <1>4, <1>5, <1>6, <1>7, <1>8, <1>9, <1>10, <1>11, <1>12, <1>13,
     <1>14, <1>15, <1>16, <1>17, <1>18 DEF Next

\* A change of the ignored applications is lost only to a command that read before it.
LEMMA KeptStep ==
  ASSUME TypeOK, OneSaver, Kept, [Next]_vars
  PROVE  Kept'
<1>1. CASE Read
  BY <1>1, Basics
  DEF TypeOK, OneSaver, Kept, NotSaving, Starts, Read, Works, Fails, Continue, OnDisk, disk,
      history
<1>2. CASE Quarantine
  BY <1>2, Basics
  DEF TypeOK, OneSaver, Kept, NotSaving, Starts, Quarantine, Unreadable, AfterQuarantine,
      SetAside, Works, Fails, Continue
<1>3. CASE Copy
  BY <1>3, Basics DEF TypeOK, OneSaver, Kept, NotSaving, Starts, Copy, Continue, history
<1>4. CASE Copied
  BY <1>4, Basics DEF TypeOK, OneSaver, Kept, NotSaving, Starts, Copied, Continue, Works,
       Fails, history
<1>5. CASE Load
  BY <1>5, Basics
  DEF TypeOK, OneSaver, Kept, NotSaving, Starts, Load, MigrateFromSqlite, Works, Fails,
      LoadPath, Continue, disk
<1>6. CASE Seed
  BY <1>6, Basics DEF TypeOK, OneSaver, Kept, NotSaving, Starts, Seed, disk, history
<1>7. CASE Persist
  BY <1>7, Basics DEF TypeOK, OneSaver, Kept, NotSaving, Starts, Persist, Continue, Settle,
       Works, Fails, OnDisk
<1>8. CASE OpenTemp
  <2>1. saver # NotSaving
    BY <1>8 DEF OpenTemp, Works, Fails, Saves, NotSaving
  <2> QED
    BY <1>8, <2>1, SavedKept, FailedKept, SameKept DEF OpenTemp, Works, Fails
<1>9. CASE WriteTemp
  <2>1. saver # NotSaving
    BY <1>9 DEF WriteTemp, Saves, NotSaving
  <2> QED
    BY <1>9, <2>1, SavedKept, FailedKept, SameKept DEF WriteTemp
<1>10. CASE Replace
  <2>1. saver # NotSaving
    BY <1>10 DEF Replace, Saves, NotSaving
  <2> QED
    BY <1>10, <2>1, SavedKept, FailedKept, SameKept DEF Replace, Replaced
<1>11. CASE Recover
  <2>1. saver # NotSaving
    BY <1>11 DEF Recover, Saves, NotSaving
  <2> QED
    BY <1>11, <2>1, SavedKept, FailedKept, SameKept DEF Recover, Replaced
<1>12. ASSUME NEW t \in Tasks, NEW d \in Days, SaveSettings(t, d) PROVE Kept'
  BY <1>12, Basics DEF TypeOK, OneSaver, Kept, NotSaving, Starts, SaveSettings, Begin,
       Prepare, disk
<1>13. ASSUME NEW t \in Tasks, NEW a \in Apps, AddIgnoredApp(t, a) PROVE Kept'
  <2>1. UNCHANGED <<start, memory, wanted, raced>>
    BY <1>13 DEF AddIgnoredApp, history
  <2>2. ASSUME NEW u \in Tasks, u # t PROVE tasks'[u] = tasks[u]
    BY <1>13, <2>2 DEF AddIgnoredApp, Begin, TypeOK
  <2>3. /\ tasks'[t].value.apps = memory.apps \cup {tasks'[t].app}
        /\ tasks'[t].kind = "add"
    BY <1>13 DEF AddIgnoredApp, Begin, TypeOK, Prefs
  <2> QED
    BY <2>1, <2>2, <2>3 DEF Kept, Starts
<1>14. ASSUME NEW t \in Tasks, NEW a \in Apps, RemoveIgnoredApp(t, a) PROVE Kept'
  <2>1. UNCHANGED <<start, memory, wanted, raced>>
    BY <1>14 DEF RemoveIgnoredApp, history
  <2>2. ASSUME NEW u \in Tasks, u # t PROVE tasks'[u] = tasks[u]
    BY <1>14, <2>2 DEF RemoveIgnoredApp, Begin, TypeOK
  <2>3. /\ tasks'[t].value.apps = memory.apps \ {tasks'[t].app}
        /\ tasks'[t].kind = "remove"
    BY <1>14 DEF RemoveIgnoredApp, Begin, TypeOK, Prefs
  <2> QED
    BY <2>1, <2>2, <2>3 DEF Kept, Starts
<1>15. ASSUME NEW t \in Tasks, Save(t) PROVE Kept'
  BY <1>15, Basics DEF TypeOK, OneSaver, Kept, NotSaving, Starts, Save, disk
<1>16. CASE Restart
  BY <1>16, Basics DEF TypeOK, OneSaver, Kept, NotSaving, Starts, Restart, Starting, disk,
       history
<1>17. CASE Damage
  BY <1>17, Basics DEF TypeOK, OneSaver, Kept, NotSaving, Starts, Damage, Starting
<1>18. CASE UNCHANGED vars
  BY <1>18 DEF TypeOK, OneSaver, Kept, NotSaving, Starts, vars
<1> QED
  BY <1>1, <1>2, <1>3, <1>4, <1>5, <1>6, <1>7, <1>8, <1>9, <1>10, <1>11, <1>12, <1>13,
     <1>14, <1>15, <1>16, <1>17, <1>18 DEF Next


----------------------------------------------------------------------------

\* It holds at first.
LEMMA Initially == Init => IInv
<1> SUFFICES ASSUME Init PROVE IInv
  OBVIOUS
<1>1. [Default EXCEPT !.days = "forever", !.seeded = TRUE] \in Prefs
      /\ [Default EXCEPT !.days = "forever", !.seeded = TRUE].days = "forever"
  BY DEF Default, Prefs, Days
<1>2. TypeOK
  <2>1. /\ canonical \in Content /\ temp \in Content /\ legacy \in Content
        /\ sqlite \in Prefs /\ memory \in Prefs /\ valid \subseteq Content
    BY <1>1, Defaults DEF Init, Content
  <2>2. chosen \subseteq Days
    BY <1>1, Defaults DEF Init, Prefs, Days
  <2>3. tasks \in [Tasks -> TaskType]
    BY DEF Init, TaskType
  <2>4. count \in [commands : 0 .. MaxCommands, failures : 0 .. MaxFailures,
                   restarts : 0 .. MaxRestarts, damage : 0 .. MaxDamage]
    BY Basics DEF Init
  <2> QED
    BY <2>1, <2>2, <2>3, <2>4 DEF Init, TypeOK, StartPc, Starting, TaskType
<1>3. Older /\ OneSaver /\ OwnTemp
  BY <1>2 DEF Init, Older, OneSaver, OwnTemp, NotSaving, Starting, Starts
<1>4. Survives
  BY <1>2 DEF Init, Survives, Sound, OnDisk, Starting, Starts
<1>5. AllMeant /\ NothingYet
  BY <1>1, <1>2, Basics, Defaults
     DEF Init, AllMeant, NothingYet, Unreadable, Meant, Loaded, Looking, FirstLaunch, OnDisk,
         Starting, Starts, NotSaving
<1>6. Kept
  BY <1>2 DEF Init, Kept, Starting, Starts
<1> QED
  BY <1>2, <1>3, <1>4, <1>5, <1>6 DEF IInv

\* And every step keeps it.
LEMMA Inductive == IInv /\ [Next]_vars => IInv'
BY TypeStep, OlderStep, SaverStep, TempStep, SurvivesStep, MeantStep, FirstStep, KeptStep
   DEF IInv

\* The inductive invariant holds throughout (SettingsManager).
THEOREM Invariance == Spec => []IInv
BY Initially, Inductive, PTL DEF Spec

\* The values are of their types throughout.
THEOREM TypeCorrect == Spec => []TypeOK
BY Invariance, PTL DEF IInv

\* What a start loads is what was saved last, or a save since, whichever call of a save
\* or of a start failed, unless the file was damaged or a start could not read it
\* (SettingsManager::save, read_settings_from_disk, parse_settings_file).
THEOREM AlwaysSurvive == Spec => []SavedSettingsSurvive
<1>1. IInv => SavedSettingsSurvive
  BY DEF IInv, Survives, Sound, SavedSettingsSurvive
<1> QED
  BY <1>1, Invariance, PTL

\* History is deleted after 30 days only for a user who has chosen that, or after a
\* start that took a file set aside for a first launch, or that could not query the old
\* settings table (recover_from_unreadable_settings, migrate_from_sqlite).
THEOREM AlwaysChosen == Spec => []RetentionIsChosen
<1>1. IInv => RetentionIsChosen
  BY DEF IInv, AllMeant, Meant, Loaded, RetentionIsChosen
<1> QED
  BY <1>1, Invariance, PTL

\* An ignored application stays ignored until the user removes it, but for a command
\* that read the preferences before another one saved them (prepare_settings_for_save).
THEOREM AlwaysIgnored == Spec => []IgnoredAppsStay
<1>1. IInv => IgnoredAppsStay
  BY DEF IInv, Kept, IgnoredAppsStay
<1> QED
  BY <1>1, Invariance, PTL

----------------------------------------------------------------------------
(* The history: what each step of a start finds.                           *)

\* Where the history is open, and where the start has its key.
Opened == {"key", "install", "migrate", "encrypt", "hash", "unique", "unlink", "up"}
Keyed == {"migrate", "encrypt", "hash", "unique", "unlink", "up"}

\* What each step of a start finds: a history or none, the key, the rows that are left to
\* do; a start that sets a history aside has a notice of it.  A refresh belongs to the start
\* that waits for it, or to the session.
Placed ==
    /\ app.pc \in Opened => main \in History
    /\ app.pc = "install" => app.key \in Keys
    /\ app.pc \in Keyed => app.key = storageKey /\ storageKey # Absent
    /\ app.pc = "assess" => main # Absent
    /\ app.pc = "refresh" => main \in History
    /\ app.pc \in {"encrypt", "hash"} => app.todo \subseteq All(main)
    /\ app.pc \in {"sidecar", "restore", "copy"} => app.notices
    /\ refresh # Idle => app.pc \in {"refresh", "up"}

\* What is missing has been told, will be, or was to be when the start ended; or the damage
\* has yet to be found.
LossKnown ==
    \/ main \in History /\ expected \subseteq Visible(main)
    \/ told \/ app.lost \/ (app.pc \notin {"off", "up"} /\ app.notices)
    \/ main = Torn /\ app.pc \in {"off", "assess", "quarantine"}

\* A history is as its marks say; only one that is encrypted has its rows hashed again, and
\* none is encrypted before there is a key.
Marked(h) ==
    h \in History =>
        /\ \A c \in Clips : Has(h, c) =>
              /\ h.encrypted => h.rows[c].key = storageKey
              /\ h.hashed => h.rows[c].hash = 2
              /\ h.unique => \A d \in Clips \ {c} : Has(h, d) => ContentOf[d] # ContentOf[c]
        /\ h.hashed => h.encrypted
        /\ storageKey = Absent => ~h.encrypted

\* The file, the backup, and the copy that becomes the backup.
AllMarked == Marked(main) /\ Marked(bak) /\ (refresh # Idle => Marked(refresh.copy))

\* The migrations come one after the other, and a row that is not left to do is done.
InOrder ==
    /\ app.pc \in {"hash", "unique", "unlink", "up"} => main.encrypted
    /\ app.pc \in {"unique", "unlink", "up"} => main.hashed
    /\ app.pc = "encrypt" /\ ~main.encrypted =>
          \A c \in All(main) \ app.todo : main.rows[c].key = app.key
    /\ app.pc = "hash" /\ ~main.hashed =>
          \A c \in All(main) \ app.todo : main.rows[c].hash = 2

\* The originals that are named, and those of rows that are gone.
Originals ==
    /\ main \in History =>
          \A c \in Clips : Has(main, c) =>
              /\ main.rows[c].original = "file" => c \in files \cup brought
              /\ main.rows[c].original = "older" => c \in older \cup brought
    /\ app.pc = "unlink" => \A c \in app.todo : ~Has(main, c)

\* h is no poor substitute for the backup.
Ample(h) ==
    bak \in History /\ NumClips(bak) >= RichBackup =>
        refresh.deleted \/ refresh.uncounted \/ NumClips(h) * 10 >= NumClips(bak)

\* What is about to be copied, or installed, was looked at.
Counted ==
    /\ refresh.pc = "copy" => Ample(main)
    /\ refresh.pc = "install" /\ refresh.copy \in History => Ample(refresh.copy)

StartupInv ==
    /\ StartupTypeOK /\ Placed /\ LossKnown
    /\ AllMarked /\ InOrder /\ Originals /\ Counted

----------------------------------------------------------------------------
(* What the types say, and how a start goes on.                            *)

\* Where a start is, and a refresh.
LEMMA StartFacts ==
    ASSUME StartupTypeOK
    PROVE  /\ app.pc # "off" =>
                 /\ app \in AppType /\ app.pc \in StartupPc /\ app.lost \in BOOLEAN
                 /\ app.key \in Keys \cup {Absent} /\ app.todo \subseteq Clips
                 /\ app.notices \in BOOLEAN /\ app.retry \in BOOLEAN
           /\ app.pc = "off" => app \in [pc : {"off"}, lost : BOOLEAN] /\ app.lost \in BOOLEAN
           /\ Idle.pc = "idle"
           /\ refresh # Idle =>
                 /\ refresh \in RefreshType
                 /\ refresh.pc \in {"count", "copy", "install", "recover"}
                 /\ refresh.copy \in History \cup {Absent, Torn} /\ refresh.deleted \in BOOLEAN
                 /\ refresh.uncounted \in BOOLEAN
           /\ refresh.pc # "idle" => refresh # Idle
BY DEF StartupTypeOK, AppType, StartupPc, RefreshType, Idle

\* The rows of a history.
LEMMA HistoryFacts ==
    /\ Gone \notin Row /\ Absent \notin History /\ Torn \notin History
    /\ \A h \in History :
          /\ h.rows \in [Clips -> Row \cup {Gone}]
          /\ h.encrypted \in BOOLEAN /\ h.hashed \in BOOLEAN /\ h.unique \in BOOLEAN
          /\ \A c \in Clips : Has(h, c) => h.rows[c] \in Row
    /\ \A r \in Row : /\ r.key \in Keys \cup {Absent} /\ r.hash \in 0 .. 2
                      /\ r.deleted \in BOOLEAN /\ r.pinned \in BOOLEAN
                      /\ r.original \in {"none", "blob", "older", "file"}
<1>1. Gone \notin Row
  <2>1. DOMAIN Gone = {"gone"} /\ \A r \in Row : "key" \in DOMAIN r
    BY DEF Gone, Row
  <2> QED
    BY <2>1
<1>2. ASSUME NEW h \in History
      PROVE  /\ h.rows \in [Clips -> Row \cup {Gone}]
             /\ h.encrypted \in BOOLEAN /\ h.hashed \in BOOLEAN /\ h.unique \in BOOLEAN
             /\ \A c \in Clips : Has(h, c) => h.rows[c] \in Row
  <2>1. /\ h.rows \in [Clips -> Row \cup {Gone}]
        /\ h.encrypted \in BOOLEAN /\ h.hashed \in BOOLEAN /\ h.unique \in BOOLEAN
    BY DEF History, Rows
  <2> QED
    BY <2>1 DEF Has
<1>3. \A r \in Row : /\ r.key \in Keys \cup {Absent} /\ r.hash \in 0 .. 2
                     /\ r.deleted \in BOOLEAN /\ r.pinned \in BOOLEAN
                     /\ r.original \in {"none", "blob", "older", "file"}
  BY DEF Row
<1> QED
  BY <1>1, <1>2, <1>3, OlderAssumption

\* What a step may make of a start.
StartIs(pc, key, todo, notices, retry) ==
    /\ app' \in AppType /\ app'.pc = pc /\ app'.lost = app.lost /\ app'.key = key
    /\ app'.todo = todo /\ app'.notices = notices /\ app'.retry = retry

Ended == /\ app' \in [pc : {"off"}, lost : BOOLEAN] /\ app'.pc = "off"
         /\ app'.lost = (app.lost \/ app.notices)

\* The ways a start goes on.
LEMMA StartMoves ==
    ASSUME StartupTypeOK, app.pc # "off"
    PROVE  /\ \A pc \in StartupPc :
                 Go(pc) => StartIs(pc, app.key, app.todo, app.notices, app.retry)
           /\ \A pc \in StartupPc, key \in Keys : app' = [app EXCEPT !.pc = pc, !.key = key] =>
                 StartIs(pc, key, app.todo, app.notices, app.retry)
           /\ app' = [app EXCEPT !.pc = "sidecar", !.notices = TRUE] =>
                 StartIs("sidecar", app.key, app.todo, TRUE, app.retry)
           /\ \A pc \in StartupPc, todo \in SUBSET Clips :
                 app' = [app EXCEPT !.pc = pc, !.todo = todo] =>
                     StartIs(pc, app.key, todo, app.notices, app.retry)
           /\ \A todo \in SUBSET Clips, more \in BOOLEAN :
                 app' = [app EXCEPT !.pc = "encrypt", !.todo = todo, !.notices = @ \/ more] =>
                     StartIs("encrypt", app.key, todo, app.notices \/ more, app.retry)
           /\ \A c : app' = [app EXCEPT !.todo = @ \ {c}] =>
                 StartIs(app.pc, app.key, app.todo \ {c}, app.notices, app.retry)
           /\ \A again \in BOOLEAN :
                 Retry(again) => StartIs(app.pc, app.key, app.todo, app.notices, again)
           /\ Stops => Ended
<1> DEFINE P == SUBSET Clips
<1>0. /\ AppType = [pc : StartupPc, lost : BOOLEAN, key : Keys \cup {Absent}, todo : P,
                    notices : BOOLEAN, retry : BOOLEAN]
      /\ app \in AppType /\ "sidecar" \in StartupPc /\ "encrypt" \in StartupPc
      /\ \A s \in P : \A c : s \ {c} \in P
  BY StartFacts DEF AppType, StartupPc
<1> HIDE DEF P
<1>1. ASSUME NEW pc \in StartupPc, Go(pc)
      PROVE  StartIs(pc, app.key, app.todo, app.notices, app.retry)
  BY <1>0, <1>1 DEF Go, StartIs
<1>2. ASSUME NEW pc \in StartupPc, NEW key \in Keys, app' = [app EXCEPT !.pc = pc, !.key = key]
      PROVE  StartIs(pc, key, app.todo, app.notices, app.retry)
  BY <1>0, <1>2 DEF StartIs
<1>3. ASSUME app' = [app EXCEPT !.pc = "sidecar", !.notices = TRUE]
      PROVE  StartIs("sidecar", app.key, app.todo, TRUE, app.retry)
  BY <1>0, <1>3 DEF StartIs
<1>4. ASSUME NEW pc \in StartupPc, NEW todo \in P, app' = [app EXCEPT !.pc = pc, !.todo = todo]
      PROVE  StartIs(pc, app.key, todo, app.notices, app.retry)
  BY <1>0, <1>4 DEF StartIs
<1>5. ASSUME NEW todo \in P, NEW more \in BOOLEAN,
             app' = [app EXCEPT !.pc = "encrypt", !.todo = todo, !.notices = @ \/ more]
      PROVE  StartIs("encrypt", app.key, todo, app.notices \/ more, app.retry)
  BY <1>0, <1>5 DEF StartIs
<1>6. ASSUME NEW c, app' = [app EXCEPT !.todo = @ \ {c}]
      PROVE  StartIs(app.pc, app.key, app.todo \ {c}, app.notices, app.retry)
  <2>1. app.todo \in P /\ app.todo \ {c} \in P
    BY <1>0
  <2> QED
    BY <1>0, <1>6, <2>1 DEF StartIs
<1>7. ASSUME NEW again \in BOOLEAN, Retry(again)
      PROVE  StartIs(app.pc, app.key, app.todo, app.notices, again)
  BY <1>0, <1>7 DEF Retry, StartIs
<1>8. ASSUME Stops PROVE Ended
  BY <1>0, <1>8 DEF Stops, Off, Ended
<1> QED
  BY <1>1, <1>2, <1>3, <1>4, <1>5, <1>6, <1>7, <1>8 DEF P

\* The bounded counters keep their types.
LEMMA CountsTyped ==
    ASSUME StartupTypeOK, StepWorks \/ StepFails \/ CountWrite
    PROVE  counts' \in [writes : 0 .. MaxWrites, failures : 0 .. MaxStepFailures,
                        crashes : 0 .. MaxCrashes, days : 0 .. MaxDays, damage : 0 .. MaxFileDamage]
BY DatabaseAssumption DEF StartupTypeOK, StepWorks, StepFails, CountWrite

\* What can be seen of one history can be seen of another.
LEMMA StillVisible ==
    ASSUME NEW h, NEW g,
           \A c \in VisibleClips(h) : \E d \in VisibleClips(g) : ContentOf[d] = ContentOf[c]
    PROVE  Visible(h) \subseteq Visible(g)
BY DEF Visible

\* A history with one row changed.
OneRow(c, r) ==
    /\ main' \in History /\ main'.rows[c] = r
    /\ \A d \in Clips \ {c} : main'.rows[d] = main.rows[d]
    /\ main'.encrypted = main.encrypted /\ main'.hashed = main.hashed
    /\ main'.unique = main.unique

\* It is what SetRow leaves.
LEMMA RowSet ==
    ASSUME main \in History, NEW c \in Clips, NEW r \in Row, SetRow(c, r)
    PROVE  OneRow(c, r)
BY HistoryFacts DEF SetRow, History, Rows, OneRow

\* A history with other rows.
LEMMA RowsSet ==
    ASSUME NEW h \in History, NEW rows \in Rows
    PROVE  /\ LET g == [h EXCEPT !.rows = rows]
              IN g \in History /\ g.rows = rows /\ g.encrypted = h.encrypted
                   /\ g.hashed = h.hashed /\ g.unique = h.unique
           /\ LET g == [h EXCEPT !.tables = TRUE, !.rows = rows]
              IN g \in History /\ g.rows = rows /\ g.encrypted = h.encrypted
                   /\ g.hashed = h.hashed /\ g.unique = h.unique
BY DEF History

\* A history with one more migration done.
LEMMA FlagSet ==
    ASSUME NEW h \in History
    PROVE  /\ LET g == [h EXCEPT !.encrypted = TRUE]
              IN g \in History /\ g.rows = h.rows /\ g.encrypted /\ g.hashed = h.hashed
                   /\ g.unique = h.unique
           /\ LET g == [h EXCEPT !.hashed = TRUE]
              IN g \in History /\ g.rows = h.rows /\ g.encrypted = h.encrypted /\ g.hashed
                   /\ g.unique = h.unique
BY DEF History

\* An empty history.
LEMMA EmptyHistory ==
    /\ \A rows \in Rows : Legacy(rows) \in History /\ Legacy(rows).rows = rows
                          /\ ~Legacy(rows).encrypted /\ ~Legacy(rows).hashed
                          /\ ~Legacy(rows).unique
    /\ Empty \in History /\ ~Empty.encrypted /\ ~Empty.hashed /\ ~Empty.unique
    /\ \A c \in Clips : ~Has(Empty, c)
BY DEF Empty, Legacy, History, Rows, Has

----------------------------------------------------------------------------
(* The start, up to its key.                                               *)

\* A history an older version has left.
LEMMA StartupBegins == StartupInit => StartupInv
<1> SUFFICES ASSUME StartupInit PROVE StartupInv
  OBVIOUS
<1>1. PICK rows \in InitialRows : main = Legacy(rows)
  BY DEF StartupInit
<1>2. rows \in Rows /\ \A c \in Clips : rows[c] # Gone => rows[c].original # "file"
  BY OlderAssumption
<1>3. /\ main \in History /\ main.rows = rows
      /\ ~main.encrypted /\ ~main.hashed /\ ~main.unique
  BY <1>1, <1>2, EmptyHistory
<1>4. /\ app = Off(FALSE) /\ app \in [pc : {"off"}, lost : BOOLEAN] /\ app.pc = "off"
      /\ refresh = Idle /\ refresh.pc = "idle" /\ bak = Absent /\ Absent \notin History
  BY OlderAssumption DEF StartupInit, Off, Idle
<1>5. StartupTypeOK
  <2>1. Visible(main) \subseteq Contents
    BY DatabaseAssumption DEF Visible, VisibleClips
  <2>2. counts \in [writes : 0 .. MaxWrites, failures : 0 .. MaxStepFailures,
                    crashes : 0 .. MaxCrashes, days : 0 .. MaxDays, damage : 0 .. MaxFileDamage]
    BY DatabaseAssumption DEF StartupInit
  <2> QED
    BY <1>3, <1>4, <2>1, <2>2 DEF StartupInit, StartupTypeOK
<1>6. Placed /\ InOrder /\ Counted
  BY <1>4 DEF Placed, InOrder, Counted, Opened, Keyed
<1>7. LossKnown
  BY <1>3 DEF StartupInit, LossKnown
<1>8. AllMarked
  BY <1>3, <1>4 DEF AllMarked, Marked
<1>9. Originals
  BY <1>2, <1>3, <1>4 DEF Originals, Has, StartupInit
<1> QED
  BY <1>5, <1>6, <1>7, <1>8, <1>9 DEF StartupInv

\* Where no migration is under way.
Early == {"off", "assess", "refresh", "quarantine", "sidecar", "restore", "copy", "open", "key",
          "install", "migrate"}

\* A refresh goes on, ends, or begins.
QuietRefresh ==
    UNCHANGED refresh \/ refresh' = Idle \/ (refresh'.pc = "count" /\ refresh'.copy = Absent)

\* Before the migrations, a step that leaves the history and its files alone only has to say
\* where the start is and who knows of a loss.
LEMMA QuietStart ==
    ASSUME StartupInv, StartupTypeOK', Placed', LossKnown', app'.pc \in Early, QuietRefresh,
           UNCHANGED <<main, bak, older, storageKey, brought>>, files \subseteq files'
    PROVE  StartupInv'
<1>1. InOrder' /\ Originals'
  BY DEF StartupInv, InOrder, Originals, Early, Has
<1>2. AllMarked'
  <2>1. Marked(main)' /\ Marked(bak)'
    BY DEF StartupInv, AllMarked, Marked, Has
  <2>2. refresh' # Idle => Marked(refresh.copy)'
    BY HistoryFacts DEF StartupInv, AllMarked, Marked, Has, QuietRefresh
  <2> QED
    BY <2>1, <2>2 DEF AllMarked
<1>3. Counted'
  BY StartFacts DEF StartupInv, Counted, Ample, QuietRefresh, NumClips, VisibleClips, Has
<1> QED
  BY <1>1, <1>2, <1>3 DEF StartupInv

\* A start begins, with no notices of its own.
LEMMA LaunchStep ==
    ASSUME StartupInv, Launch
    PROVE  StartupInv'
<1>1. /\ app.pc = "off" /\ app'.pc = (IF main = Absent THEN "open" ELSE "assess")
      /\ app'.lost = app.lost /\ app' \in AppType /\ app'.notices = FALSE
      /\ UNCHANGED <<storage, refresh, startupHistory, counts>>
  BY StartFacts DEF StartupInv, Launch, At, AppType, StartupPc
<1>2. StartupTypeOK'
  BY <1>1 DEF StartupInv, StartupTypeOK, storage, startupHistory
<1>3. Placed'
  BY <1>1 DEF StartupInv, Placed, Opened, Keyed, storage
<1>4. LossKnown'
  BY <1>1, DatabaseAssumption
  DEF StartupInv, LossKnown, storage, startupHistory, Visible, VisibleClips, Has
<1> QED
  BY <1>1, <1>2, <1>3, <1>4, QuietStart DEF Early, QuietRefresh, storage, startupHistory

\* A start that ends says what it had to say, in vain; it can end wherever no refresh is.
LEMMA StopsStep ==
    ASSUME StartupInv, app.pc \notin {"off", "up", "refresh"}, app.pc # "copy",
           Stops, StepWorks \/ StepFails,
           main = Torn => app.pc \in {"assess", "quarantine"} \/ app.notices,
           UNCHANGED <<main, sidecar, bak, fresh, older, storageKey, refresh, startupHistory>>,
           files \subseteq files', files' \subseteq Clips
    PROVE  StartupInv'
<1>1. Ended /\ app.lost \in BOOLEAN /\ app.notices \in BOOLEAN
  BY StartMoves, StartFacts DEF StartupInv
<1>2. StartupTypeOK'
  BY <1>1, CountsTyped DEF StartupInv, StartupTypeOK, Ended, startupHistory
<1>3. Placed'
  BY <1>1 DEF StartupInv, Placed, Opened, Keyed, Ended
<1>4. LossKnown'
  BY <1>1 DEF StartupInv, LossKnown, Ended, startupHistory, Visible, VisibleClips, Has
<1> QED
  BY <1>1, <1>2, <1>3, <1>4, QuietStart DEF Ended, Early, QuietRefresh, startupHistory

\* The file is looked at.
LEMMA AssessStep ==
    ASSUME StartupInv, Assess
    PROVE  StartupInv'
<1>1. /\ app.pc = "assess" /\ main # Absent /\ main \in History \cup {Absent, Torn}
      /\ UNCHANGED <<storage, startupHistory>>
  BY DEF StartupInv, Assess, At, Placed, StartupTypeOK
<1>2. CASE main = Torn /\ Go("quarantine") /\ StepWorks /\ UNCHANGED refresh
  <2>1. StartIs("quarantine", app.key, app.todo, app.notices, app.retry)
    BY <1>1, <1>2, StartMoves DEF StartupInv, StartupPc
  <2>2. StartupTypeOK'
    BY <1>1, <1>2, <2>1 DEF StartupInv, StartupTypeOK, StartIs, StepWorks, storage, startupHistory
  <2>3. Placed' /\ LossKnown'
    BY <1>1, <1>2, <2>1
    DEF StartupInv, Placed, LossKnown, Opened, Keyed, StartIs, storage, startupHistory
  <2> QED
    BY <1>1, <1>2, <2>1, <2>2, <2>3, QuietStart
    DEF Early, QuietRefresh, StartIs, storage, startupHistory
<1>3. CASE /\ main # Torn /\ StepWorks /\ Go("refresh")
           /\ refresh' = IF bak # Absent /\ fresh THEN Idle
                         ELSE Counting
  <2>1. StartIs("refresh", app.key, app.todo, app.notices, app.retry)
    BY <1>1, <1>3, StartMoves DEF StartupInv, StartupPc
  <2>2. refresh' \in {Idle} \cup RefreshType /\ QuietRefresh
    BY <1>3 DEF RefreshType, QuietRefresh, Counting
  <2>3. StartupTypeOK'
    BY <1>1, <1>3, <2>1, <2>2
    DEF StartupInv, StartupTypeOK, StartIs, StepWorks, storage, startupHistory
  <2>4. Placed'
    BY <1>1, <1>3, <2>1 DEF StartupInv, Placed, Opened, Keyed, StartIs, storage
  <2>5. LossKnown'
    BY <1>1, <1>3, <2>1
    DEF StartupInv, LossKnown, StartIs, storage, startupHistory, Visible, VisibleClips, Has
  <2> QED
    BY <1>1, <2>1, <2>2, <2>3, <2>4, <2>5, QuietStart
    DEF Early, StartIs, storage, startupHistory
<1>4. CASE Stops /\ StepFails /\ UNCHANGED refresh
  BY <1>1, <1>4, StopsStep DEF StartupInv, StartupTypeOK, storage
<1> QED
  BY <1>2, <1>3, <1>4 DEF Assess

\* The start goes on after its refresh.
LEMMA AfterRefreshStep ==
    ASSUME StartupInv, AfterRefresh
    PROVE  StartupInv'
<1>1. /\ app.pc = "refresh" /\ main \in History /\ main # Absent
      /\ StartIs("open", app.key, app.todo, app.notices, app.retry)
      /\ refresh = Idle /\ UNCHANGED <<storage, refresh, startupHistory, counts>>
  BY StartMoves, HistoryFacts DEF StartupInv, AfterRefresh, At, Placed, StartupPc
<1>2. StartupTypeOK'
  BY <1>1 DEF StartupInv, StartupTypeOK, StartIs, storage, startupHistory
<1>3. Placed'
  BY <1>1 DEF StartupInv, Placed, Opened, Keyed, StartIs, storage
<1>4. LossKnown'
  BY <1>1
  DEF StartupInv, LossKnown, StartIs, storage, startupHistory, Visible, VisibleClips, Has
<1> QED
  BY <1>1, <1>2, <1>3, <1>4, QuietStart
  DEF Early, QuietRefresh, StartIs, storage, startupHistory

\* The sidecars follow the file.
LEMMA SidecarStep ==
    ASSUME StartupInv, QuarantineSidecar
    PROVE  StartupInv'
<1>1. /\ app.pc = "sidecar" /\ app.notices
      /\ UNCHANGED <<main, bak, fresh, files, older, storageKey, refresh, startupHistory>>
  BY DEF StartupInv, QuarantineSidecar, At, Placed
<1>2. CASE sidecar' = FALSE /\ Go("restore") /\ StepWorks
  <2>1. StartIs("restore", app.key, app.todo, app.notices, app.retry)
    BY <1>1, <1>2, StartMoves DEF StartupInv, StartupPc
  <2>2. StartupTypeOK'
    BY <1>1, <1>2, <2>1 DEF StartupInv, StartupTypeOK, StartIs, StepWorks, startupHistory
  <2>3. Placed' /\ LossKnown'
    BY <1>1, <2>1 DEF StartupInv, Placed, LossKnown, Opened, Keyed, StartIs
  <2> QED
    BY <1>1, <2>1, <2>2, <2>3, QuietStart DEF Early, QuietRefresh, StartIs, startupHistory
<1>3. CASE sidecar /\ Stops /\ StepFails /\ UNCHANGED sidecar
  BY <1>1, <1>3, StopsStep DEF StartupInv, StartupTypeOK
<1> QED
  BY <1>2, <1>3 DEF QuarantineSidecar

\* The backup is looked at.
LEMMA RestoreStep ==
    ASSUME StartupInv, Restore
    PROVE  StartupInv'
<1>1. /\ app.pc = "restore" /\ app.notices /\ (StepWorks \/ StepFails)
      /\ UNCHANGED <<storage, refresh, startupHistory>>
  BY DEF StartupInv, Restore, At, Placed
<1>2. PICK pc \in {"open", "copy"} : Go(pc)
  BY DEF Restore
<1>3. StartIs(pc, app.key, app.todo, app.notices, app.retry)
  BY <1>1, <1>2, StartMoves DEF StartupInv, StartupPc
<1>4. StartupTypeOK'
  BY <1>1, <1>3, CountsTyped DEF StartupInv, StartupTypeOK, StartIs, storage, startupHistory
<1>5. Placed' /\ LossKnown'
  BY <1>1, <1>3 DEF StartupInv, Placed, LossKnown, Opened, Keyed, StartIs
<1> QED
  BY <1>1, <1>3, <1>4, <1>5, QuietStart
  DEF Early, QuietRefresh, StartIs, storage, startupHistory

\* The key is loaded, or one is made.
LEMMA LoadKeyStep ==
    ASSUME StartupInv, LoadKey
    PROVE  StartupInv'
<1>1. /\ app.pc = "key" /\ main \in History /\ main # Torn
      /\ UNCHANGED <<storage, refresh, startupHistory, counts>>
      /\ storageKey \in Keys \cup {Absent}
  BY HistoryFacts DEF StartupInv, LoadKey, At, Placed, Opened, StartupTypeOK
<1>2. CASE storageKey # Absent /\ app' = [app EXCEPT !.pc = "migrate", !.key = storageKey]
  <2>1. StartIs("migrate", storageKey, app.todo, app.notices, app.retry)
    BY <1>1, <1>2, StartMoves DEF StartupInv, StartupPc
  <2>2. StartupTypeOK'
    BY <1>1, <2>1 DEF StartupInv, StartupTypeOK, StartIs, storage, startupHistory
  <2>3. Placed'
    BY <1>1, <1>2, <2>1 DEF StartupInv, Placed, Opened, Keyed, StartIs, storage
  <2>4. LossKnown'
    BY <1>1, <2>1
    DEF StartupInv, LossKnown, StartIs, storage, startupHistory, Visible, VisibleClips, Has
  <2> QED
    BY <1>1, <2>1, <2>2, <2>3, <2>4, QuietStart
    DEF Early, QuietRefresh, StartIs, storage, startupHistory
<1>3. CASE Stops
  BY <1>1, <1>3, StopsStep DEF StartupInv, StartupTypeOK, storage, StepWorks
<1>4. ASSUME NEW k \in Keys, app' = [app EXCEPT !.pc = "install", !.key = k]
      PROVE  StartupInv'
  <2>1. StartIs("install", k, app.todo, app.notices, app.retry)
    BY <1>1, <1>4, StartMoves DEF StartupInv, StartupPc
  <2>2. StartupTypeOK'
    BY <1>1, <2>1 DEF StartupInv, StartupTypeOK, StartIs, storage, startupHistory
  <2>3. Placed'
    BY <1>1, <2>1 DEF StartupInv, Placed, Opened, Keyed, StartIs, storage
  <2>4. LossKnown'
    BY <1>1, <2>1
    DEF StartupInv, LossKnown, StartIs, storage, startupHistory, Visible, VisibleClips, Has
  <2> QED
    BY <1>1, <2>1, <2>2, <2>3, <2>4, QuietStart
    DEF Early, QuietRefresh, StartIs, storage, startupHistory
<1> QED
  BY <1>2, <1>3, <1>4 DEF LoadKey

----------------------------------------------------------------------------
(* The steps that change the file or the key before the migrations, and    *)
(* the end of a start.                                                     *)

\* The file is what it was, the backup, a new one, or none, and no refresh is under way.
LEMMA OtherMain ==
    ASSUME StartupInv, StartupTypeOK', Placed', LossKnown', app'.pc \in Early, refresh' = Idle,
           UNCHANGED <<bak, storageKey, files, older>>, brought \subseteq brought',
           \/ main' \in {main, Absent, Torn, Empty}
           \/ main' = bak /\ \A c \in Clips : Has(bak, c) => c \in brought'
    PROVE  StartupInv'
<1>1. AllMarked'
  <2>1. Marked(bak)'
    BY DEF StartupInv, AllMarked, Marked, Has
  <2>2. Marked(main)'
    <3>1. CASE main' \in {main, bak}
      BY <3>1 DEF StartupInv, AllMarked, Marked, Has
    <3>2. CASE main' \in {Absent, Torn}
      BY <3>2, HistoryFacts DEF Marked
    <3>3. CASE main' = Empty
      BY <3>3, EmptyHistory DEF Marked, Has
    <3> QED
      BY <3>1, <3>2, <3>3
  <2> QED
    BY <2>1, <2>2 DEF AllMarked
<1>2. Originals'
  <2>1. CASE main' = main
    BY <2>1 DEF StartupInv, Originals, Has, Early
  <2>2. CASE main' = bak /\ \A c \in Clips : Has(bak, c) => c \in brought'
    BY <2>2 DEF Originals, Has, Early
  <2>3. CASE main' \in {Absent, Torn}
    BY <2>3, HistoryFacts DEF Originals, Early
  <2>4. CASE main' = Empty
    BY <2>4, EmptyHistory DEF Originals, Has, Early
  <2> QED
    BY <2>1, <2>2, <2>3, <2>4
<1>3. InOrder' /\ Counted'
  BY StartFacts DEF StartupInv, InOrder, Counted, Early
<1> QED
  BY <1>1, <1>2, <1>3 DEF StartupInv

\* The file is set aside, which is noticed.
LEMMA QuarantineStep ==
    ASSUME StartupInv, QuarantineMain
    PROVE  StartupInv'
<1>1. /\ app.pc = "quarantine" /\ refresh = Idle
      /\ UNCHANGED <<sidecar, bak, fresh, files, older, storageKey, refresh, startupHistory>>
  BY DEF StartupInv, QuarantineMain, At, Placed
<1>2. CASE /\ main' = Absent /\ StepWorks
           /\ app' = [app EXCEPT !.pc = "sidecar", !.notices = TRUE]
  <2>1. StartIs("sidecar", app.key, app.todo, TRUE, app.retry)
    BY <1>1, <1>2, StartMoves DEF StartupInv
  <2>2. StartupTypeOK'
    BY <1>1, <1>2, <2>1 DEF StartupInv, StartupTypeOK, StartIs, StepWorks, startupHistory
  <2>3. Placed' /\ LossKnown'
    BY <1>1, <2>1 DEF Placed, LossKnown, Opened, Keyed, StartIs
  <2> QED
    BY <1>1, <1>2, <2>1, <2>2, <2>3, OtherMain DEF Early, StartIs, startupHistory
<1>3. CASE UNCHANGED main /\ Stops /\ StepFails
  BY <1>1, <1>3, StopsStep DEF StartupInv, StartupTypeOK
<1> QED
  BY <1>2, <1>3 DEF QuarantineMain

\* The backup takes the place of the file, or what is torn does.
LEMMA RestoreCopyStep ==
    ASSUME StartupInv, RestoreCopy
    PROVE  StartupInv'
<1>1. /\ app.pc = "copy" /\ refresh = Idle /\ app.notices
      /\ StartIs("open", app.key, app.todo, app.notices, app.retry)
      /\ UNCHANGED <<sidecar, bak, fresh, files, older, storageKey, refresh, expected, told>>
  BY StartMoves DEF StartupInv, RestoreCopy, At, Placed, StartupPc
<1>2. /\ StepWorks \/ StepFails
      /\ brought \subseteq brought' /\ brought' \subseteq Clips
      /\ \/ main' \in {Absent, Torn}
         \/ main' = bak /\ \A c \in Clips : Has(bak, c) => c \in brought'
  BY DEF StartupInv, StartupTypeOK, RestoreCopy
<1>3. StartupTypeOK'
  BY <1>1, <1>2, CountsTyped DEF StartupInv, StartupTypeOK, StartIs
<1>4. Placed' /\ LossKnown'
  BY <1>1 DEF StartupInv, Placed, LossKnown, Opened, Keyed, StartIs
<1> QED
  BY <1>1, <1>2, <1>3, <1>4, OtherMain DEF Early, StartIs

\* A first start begins with an empty history.
LEMMA OpenStep ==
    ASSUME StartupInv, Open
    PROVE  StartupInv'
<1>1. /\ app.pc = "open" /\ refresh = Idle /\ StepWorks
      /\ UNCHANGED <<sidecar, bak, fresh, files, older, storageKey, refresh, startupHistory>>
  BY DEF StartupInv, Open, At, Placed
<1>2. CASE main = Torn
  <2>1. Stops /\ UNCHANGED main
    BY <1>2 DEF Open
  <2>2. Ended /\ app.lost \in BOOLEAN /\ app.notices \in BOOLEAN
    BY <1>1, <2>1, StartMoves, StartFacts DEF StartupInv
  <2>3. StartupTypeOK'
    BY <1>1, <2>1, <2>2
    DEF StartupInv, StartupTypeOK, Ended, StepWorks, startupHistory
  <2>4. Placed' /\ LossKnown'
    BY <1>1, <1>2, <2>1, <2>2 DEF Placed, LossKnown, Opened, Keyed, Ended
  <2> QED
    BY <1>1, <2>1, <2>2, <2>3, <2>4, OtherMain DEF Early, Ended, startupHistory
<1>3. CASE main # Torn
  <2>1. main' = (IF main = Absent THEN Empty ELSE main) /\ Go("key")
    BY <1>3 DEF Open
  <2>2. StartIs("key", app.key, app.todo, app.notices, app.retry)
    BY <1>1, <2>1, StartMoves DEF StartupInv, StartupPc
  <2>3. main' \in History /\ (main # Absent => main' = main)
    BY <1>3, <2>1, EmptyHistory DEF StartupInv, StartupTypeOK
  <2>4. StartupTypeOK'
    BY <1>1, <2>2, <2>3
    DEF StartupInv, StartupTypeOK, StartIs, StepWorks, startupHistory
  <2>5. Placed'
    BY <1>1, <2>2, <2>3 DEF Placed, Opened, Keyed, StartIs
  <2>6. LossKnown'
    BY <1>1, <1>3, <2>2, <2>3, HistoryFacts
    DEF StartupInv, LossKnown, StartIs, startupHistory, Visible, VisibleClips, Has
  <2> QED
    BY <1>1, <2>1, <2>2, <2>4, <2>5, <2>6, OtherMain DEF Early, StartIs, startupHistory
<1> QED
  BY <1>2, <1>3

\* A key is put where there is none, by this start or by another.
LEMMA NewKey ==
    ASSUME StartupInv, StartupTypeOK', Placed', LossKnown', app'.pc \in Early,
           storageKey = Absent, refresh = Idle,
           UNCHANGED <<main, bak, files, older, refresh, brought>>
    PROVE  StartupInv'
<1>1. storageKey' = Absent => storageKey' = storageKey
  OBVIOUS
<1>2. InOrder' /\ Originals' /\ Counted'
  BY StartFacts DEF StartupInv, InOrder, Originals, Counted, Early, Has
<1>3. AllMarked'
  BY <1>1 DEF StartupInv, AllMarked, Marked, Has
<1> QED
  BY <1>2, <1>3 DEF StartupInv

\* The key is put in place, or the one that is there is taken.
LEMMA InstallKeyStep ==
    ASSUME StartupInv, InstallKey
    PROVE  StartupInv'
<1>1. /\ app.pc = "install" /\ refresh = Idle /\ main \in History /\ main # Torn
      /\ app.key \in Keys /\ Absent \notin Keys /\ storageKey \in Keys \cup {Absent}
      /\ UNCHANGED <<main, sidecar, bak, fresh, files, older, refresh, startupHistory>>
  BY HistoryFacts, DatabaseAssumption
  DEF StartupInv, InstallKey, At, Placed, Opened, StartupTypeOK
<1>2. ASSUME NEW key \in Keys, storageKey' = key, StepWorks,
             StartIs("migrate", key, app.todo, app.notices, app.retry)
      PROVE  StartupTypeOK' /\ Placed' /\ LossKnown'
  <2>1. StartupTypeOK'
    BY <1>1, <1>2 DEF StartupInv, StartupTypeOK, StartIs, StepWorks, startupHistory
  <2>2. Placed'
    BY <1>1, <1>2 DEF Placed, Opened, Keyed, StartIs
  <2>3. LossKnown'
    BY <1>1, <1>2
    DEF StartupInv, LossKnown, StartIs, startupHistory, Visible, VisibleClips, Has
  <2> QED
    BY <2>1, <2>2, <2>3
<1>3. CASE storageKey = Absent /\ storageKey' = app.key /\ Go("migrate") /\ StepWorks
  <2>1. StartIs("migrate", app.key, app.todo, app.notices, app.retry)
    BY <1>1, <1>3, StartMoves DEF StartupInv, StartupPc
  <2> QED
    BY <1>1, <1>2, <1>3, <2>1, NewKey DEF Early, StartIs, startupHistory
<1>4. CASE /\ storageKey # Absent /\ UNCHANGED storageKey /\ StepWorks
           /\ app' = [app EXCEPT !.pc = "migrate", !.key = storageKey]
  <2>1. StartIs("migrate", storageKey, app.todo, app.notices, app.retry)
    BY <1>1, <1>4, StartMoves DEF StartupInv, StartupPc
  <2> QED
    BY <1>1, <1>2, <1>4, <2>1, QuietStart DEF Early, QuietRefresh, StartIs, startupHistory
<1>5. CASE UNCHANGED storageKey /\ Stops /\ StepFails
  BY <1>1, <1>5, StopsStep DEF StartupInv, StartupTypeOK
<1> QED
  BY <1>3, <1>4, <1>5 DEF InstallKey

\* Another first start puts its key there.
LEMMA RivalStep ==
    ASSUME StartupInv, RivalInstallsKey
    PROVE  StartupInv'
<1>1. /\ app.pc = "install" /\ storageKey = Absent /\ storageKey' \in Keys /\ refresh = Idle
      /\ UNCHANGED <<main, sidecar, bak, fresh, files, older, app, refresh, startupHistory, counts>>
  BY DEF StartupInv, RivalInstallsKey, At, Placed
<1>2. StartupTypeOK'
  BY <1>1 DEF StartupInv, StartupTypeOK, startupHistory
<1>3. Placed'
  BY <1>1 DEF StartupInv, Placed, Opened, Keyed
<1>4. LossKnown'
  BY <1>1 DEF StartupInv, LossKnown, startupHistory, Visible, VisibleClips, Has
<1> QED
  BY <1>1, <1>2, <1>3, <1>4, NewKey DEF Early, startupHistory

\* The application ends where it is: a notice that has not reached the log is lost.
LEMMA CrashStep ==
    ASSUME StartupInv, Crash
    PROVE  StartupInv'
<1>1. /\ app.pc # "off" /\ refresh' = Idle
      /\ app' = Off(app.lost \/ (app.notices /\ ~At("up")))
      /\ main' \in IF At("copy") THEN {Absent, Torn} ELSE {main}
      /\ counts.crashes < MaxCrashes /\ counts' = [counts EXCEPT !.crashes = @ + 1]
      /\ UNCHANGED <<sidecar, bak, fresh, files, older, storageKey, expected, told, brought>>
  BY DEF Crash, At
<1>2. /\ app' \in [pc : {"off"}, lost : BOOLEAN] /\ app'.pc = "off"
      /\ app'.lost = (app.lost \/ (app.notices /\ app.pc # "up"))
  BY <1>1, StartFacts DEF StartupInv, Off, At
<1>3. StartupTypeOK'
  <2>1. counts' \in [writes : 0 .. MaxWrites, failures : 0 .. MaxStepFailures,
                     crashes : 0 .. MaxCrashes, days : 0 .. MaxDays, damage : 0 .. MaxFileDamage]
    BY <1>1, DatabaseAssumption DEF StartupInv, StartupTypeOK
  <2> QED
    BY <1>1, <1>2, <2>1 DEF StartupInv, StartupTypeOK
<1>4. Placed'
  BY <1>1, <1>2 DEF Placed, Opened, Keyed
<1>5. LossKnown'
  <2>1. CASE app.pc = "copy"
    BY <1>2, <2>1 DEF StartupInv, Placed, LossKnown
  <2>2. CASE app.pc # "copy"
    BY <1>1, <1>2, <2>2
    DEF StartupInv, LossKnown, At, Visible, VisibleClips, Has
  <2> QED
    BY <2>1, <2>2
<1> QED
  BY <1>1, <1>2, <1>3, <1>4, <1>5, OtherMain DEF Early

\* The disk damages the file.
LEMMA DamageStep ==
    ASSUME StartupInv, DamageMain
    PROVE  StartupInv'
<1>1. /\ app.pc = "off" /\ refresh = Idle /\ main' = Torn /\ sidecar' \in BOOLEAN
      /\ counts.damage < MaxFileDamage /\ counts' = [counts EXCEPT !.damage = @ + 1]
      /\ UNCHANGED <<bak, fresh, files, older, storageKey, app, refresh, startupHistory>>
  BY DEF StartupInv, DamageMain, At, Placed
<1>2. StartupTypeOK'
  <2>1. counts' \in [writes : 0 .. MaxWrites, failures : 0 .. MaxStepFailures,
                     crashes : 0 .. MaxCrashes, days : 0 .. MaxDays, damage : 0 .. MaxFileDamage]
    BY <1>1, DatabaseAssumption DEF StartupInv, StartupTypeOK
  <2> QED
    BY <1>1, <2>1 DEF StartupInv, StartupTypeOK, startupHistory
<1>3. Placed' /\ LossKnown'
  BY <1>1 DEF StartupInv, Placed, LossKnown, Opened, Keyed
<1> QED
  BY <1>1, <1>2, <1>3, OtherMain DEF Early, startupHistory

\* Nothing but the age of the backup, or nothing at all.
LEMMA DayStep ==
    ASSUME StartupInv, Day \/ UNCHANGED startupVars
    PROVE  StartupInv'
<1>1. /\ UNCHANGED <<main, sidecar, bak, files, older, storageKey, app, refresh, expected, told,
                     brought>>
      /\ fresh' \in BOOLEAN
      /\ counts' \in [writes : 0 .. MaxWrites, failures : 0 .. MaxStepFailures,
                      crashes : 0 .. MaxCrashes, days : 0 .. MaxDays, damage : 0 .. MaxFileDamage]
  <2>1. /\ fresh \in BOOLEAN
        /\ counts \in [writes : 0 .. MaxWrites, failures : 0 .. MaxStepFailures,
                       crashes : 0 .. MaxCrashes, days : 0 .. MaxDays, damage : 0 .. MaxFileDamage]
    BY DEF StartupInv, StartupTypeOK
  <2>2. CASE Day
    <3>1. /\ UNCHANGED <<main, sidecar, bak, files, older, storageKey, app, refresh, expected, told,
                        brought>>
          /\ fresh' = FALSE
          /\ counts.days < MaxDays /\ counts' = [counts EXCEPT !.days = @ + 1]
      BY <2>2 DEF Day, startupHistory
    <3>2. counts' \in [writes : 0 .. MaxWrites, failures : 0 .. MaxStepFailures,
                       crashes : 0 .. MaxCrashes, days : 0 .. MaxDays, damage : 0 .. MaxFileDamage]
      BY <2>1, <3>1, DatabaseAssumption
    <3> QED
      BY <3>1, <3>2
  <2>3. CASE UNCHANGED startupVars
    BY <2>1, <2>3 DEF startupVars
  <2> QED
    BY <2>2, <2>3
<1>2. StartupTypeOK' /\ Placed'
  BY <1>1 DEF StartupInv, StartupTypeOK, Placed, All, Has
<1>3. LossKnown' /\ Originals'
  BY <1>1 DEF StartupInv, LossKnown, Originals, Visible, VisibleClips, Has
<1>4. AllMarked' /\ InOrder'
  BY <1>1 DEF StartupInv, AllMarked, Marked, InOrder, All, Has
<1>5. Counted'
  BY <1>1 DEF StartupInv, Counted, Ample, NumClips, VisibleClips, Has
<1> QED
  BY <1>2, <1>3, <1>4, <1>5 DEF StartupInv

----------------------------------------------------------------------------
(* The migrations.                                                         *)

\* Nothing to see is lost with a row that stays visible.
LEMMA SameLoss ==
    ASSUME StartupInv, main \in History, main' \in History,
           \A c \in VisibleClips(main) : \E d \in VisibleClips(main)' : ContentOf[d] = ContentOf[c],
           UNCHANGED <<expected, told>>, app'.lost = app.lost, app'.notices = app.notices,
           app'.pc \notin {"off", "up"} \/ app.pc = "up"
    PROVE  LossKnown'
<1>1. Visible(main) \subseteq Visible(main)'
  BY DEF Visible
<1> QED
  BY <1>1, HistoryFacts DEF StartupInv, LossKnown

\* References to files are removed, and reported.
LEMMA MigrateStep ==
    ASSUME StartupInv, Migrate
    PROVE  StartupInv'
<1> DEFINE removed == All(main) \cap FileClips
           rows == [c \in Clips |-> IF c \in removed THEN Gone ELSE main.rows[c]]
<1>1. /\ app.pc = "migrate" /\ refresh = Idle /\ main \in History /\ main # Torn
      /\ app.key = storageKey /\ storageKey # Absent
      /\ UNCHANGED <<sidecar, bak, fresh, files, older, storageKey, refresh, told, brought>>
  BY HistoryFacts DEF StartupInv, Migrate, At, Placed, Opened, Keyed
<1>2. CASE Stops /\ StepFails /\ UNCHANGED <<main, expected>>
  BY <1>1, <1>2, StopsStep DEF StartupInv, StartupTypeOK, startupHistory
<1>3. CASE /\ main' = [main EXCEPT !.tables = TRUE, !.rows = rows]
           /\ expected' = IF removed = {} THEN expected ELSE
                             expected \ { ContentOf[c] : c \in removed }
           /\ app' = [app EXCEPT !.pc = "encrypt", !.todo = All(main) \ removed,
                                 !.notices = @ \/ removed # {}]
           /\ StepWorks
  <2>1. rows \in Rows
    BY <1>1, HistoryFacts DEF Rows
  <2>2. /\ main' \in History /\ main'.rows = rows /\ main'.encrypted = main.encrypted
        /\ main'.hashed = main.hashed /\ main'.unique = main.unique
    BY <1>1, <1>3, <2>1, RowsSet
  <2>3. /\ \A c \in Clips : Has(main', c) => Has(main, c) /\ main'.rows[c] = main.rows[c]
        /\ \A c \in Clips : c \notin removed => main'.rows[c] = main.rows[c]
        /\ \A c \in Clips : Has(main', c) <=> c \in All(main) \ removed
    BY <2>2 DEF Has, All
  <2>4. /\ All(main) \ removed \subseteq Clips
        /\ StartIs("encrypt", app.key, All(main) \ removed, app.notices \/ removed # {}, app.retry)
    <3>1. All(main) \ removed \in SUBSET Clips /\ (removed # {}) \in BOOLEAN
      BY DEF All
    <3> HIDE DEF removed
    <3> QED
      BY <1>1, <1>3, <3>1, StartMoves DEF StartupInv
  <2> HIDE DEF rows
  <2>5. StartupTypeOK'
    <3>1. expected' \subseteq Contents
      BY <1>3 DEF StartupInv, StartupTypeOK
    <3> QED
      BY <1>1, <1>3, <2>2, <2>4, <3>1 DEF StartupInv, StartupTypeOK, StartIs, StepWorks
  <2>6. Placed'
    BY <1>1, <2>2, <2>3, <2>4 DEF Placed, Opened, Keyed, StartIs, All
  <2>7. LossKnown'
    <3>1. CASE removed = {}
      <4>1. \A c \in VisibleClips(main) : c \in VisibleClips(main)'
        BY <2>3, <3>1 DEF VisibleClips, Has
      <4>2. app'.lost = app.lost /\ app'.notices = app.notices /\ app'.pc = "encrypt"
        BY <1>1, <2>4, <3>1, StartFacts DEF StartupInv, StartIs
      <4>3. UNCHANGED <<expected, told>>
        BY <1>1, <1>3, <3>1
      <4> QED
        BY <1>1, <2>2, <4>1, <4>2, <4>3, SameLoss
    <3>2. CASE removed # {}
      BY <2>4, <3>2 DEF LossKnown, StartIs
    <3> QED
      BY <3>1, <3>2
  <2>8. AllMarked'
    <3>1. Marked(bak)'
      BY <1>1 DEF StartupInv, AllMarked, Marked, Has
    <3>2. Marked(main)'
      BY <1>1, <2>2, <2>3 DEF StartupInv, AllMarked, Marked, Has
    <3> QED
      BY <1>1, <3>1, <3>2 DEF AllMarked
  <2>9. InOrder' /\ Counted'
    BY <1>1, <2>3, <2>4, StartFacts DEF StartupInv, InOrder, Counted, StartIs, All
  <2>10. Originals'
    BY <1>1, <2>2, <2>3, <2>4 DEF StartupInv, Originals, StartIs, Has
  <2> QED
    BY <2>5, <2>6, <2>7, <2>8, <2>9, <2>10 DEF StartupInv
<1> QED
  BY <1>2, <1>3 DEF Migrate

\* A row that is done is not left to do; what can be seen stays, and names what there is.
LEMMA RowDone ==
    ASSUME StartupInv, app.pc \in {"encrypt", "hash"}, StepWorks,
           NEW c \in app.todo, NEW r \in Row, OneRow(c, r),
           r.deleted = main.rows[c].deleted, r.original = "file" =>
               c \in files' \/ r.original = main.rows[c].original,
           r.original = "older" => r.original = main.rows[c].original /\ older' = older,
           older' \subseteq older, \A d \in older : d = c \/ d \in older',
           app.pc = "encrypt" => ~main.encrypted /\ r.key = app.key,
           app.pc = "hash" => ~main.hashed /\ r.key = main.rows[c].key /\ r.hash = 2,
           app' = [app EXCEPT !.todo = @ \ {c}], files \subseteq files', files' \subseteq Clips,
           UNCHANGED <<sidecar, bak, fresh, storageKey, refresh, startupHistory>>
    PROVE  StartupInv'
<1>1. /\ refresh = Idle /\ main \in History /\ app.key = storageKey /\ storageKey # Absent
      /\ app.todo \subseteq All(main) /\ c \in Clips /\ Has(main, c) /\ Marked(main)
  BY DEF StartupInv, Placed, Opened, Keyed, All, AllMarked
<1>2. StartIs(app.pc, app.key, app.todo \ {c}, app.notices, app.retry)
  BY StartMoves DEF StartupInv
<1>3. /\ main' \in History /\ main'.encrypted = main.encrypted /\ main'.hashed = main.hashed
      /\ main'.unique = main.unique /\ main'.rows[c] = r
      /\ \A d \in Clips : Has(main', d) <=> Has(main, d)
      /\ \A d \in Clips : d # c => main'.rows[d] = main.rows[d]
  BY <1>1, HistoryFacts DEF OneRow, Has
<1>4. StartupTypeOK'
  BY <1>2, <1>3 DEF StartupInv, StartupTypeOK, StartIs, StepWorks, startupHistory
<1>5. Placed'
  BY <1>1, <1>2, <1>3 DEF Placed, Opened, Keyed, StartIs, All
<1>6. LossKnown'
  <2>1. \A d \in VisibleClips(main) : d \in VisibleClips(main)'
    BY <1>3 DEF VisibleClips
  <2> QED
    BY <1>1, <1>2, <1>3, <2>1, SameLoss DEF StartIs, startupHistory
<1>7. AllMarked'
  <2>1. Marked(bak)'
    BY DEF StartupInv, AllMarked, Marked, Has
  <2>2. Marked(main)'
    <3>1. ~main.hashed
      BY <1>1 DEF StartupInv, InOrder, Marked
    <3>2. \A d \in Clips : Has(main, d) /\ main.encrypted => main'.rows[d].key = storageKey
      BY <1>1, <1>3 DEF Marked
    <3>3. \A d, e \in Clips : main.unique /\ Has(main, d) /\ Has(main, e) /\ d # e =>
              ContentOf[d] # ContentOf[e]
      BY <1>1 DEF Marked
    <3> QED
      BY <1>1, <1>3, <3>1, <3>2, <3>3 DEF Marked
  <2> QED
    BY <1>1, <2>1, <2>2 DEF AllMarked
<1>8. InOrder'
  <2>1. CASE app.pc = "encrypt"
    BY <1>1, <1>2, <1>3, <2>1 DEF StartupInv, InOrder, StartIs, All
  <2>2. CASE app.pc = "hash"
    BY <1>1, <1>2, <1>3, <2>2 DEF StartupInv, InOrder, StartIs, All
  <2> QED
    BY <2>1, <2>2
<1>9. Originals'
  BY <1>1, <1>2, <1>3 DEF StartupInv, Originals, StartIs, startupHistory
<1>10. Counted'
  BY <1>1, StartFacts DEF StartupInv, Counted
<1> QED
  BY <1>4, <1>5, <1>6, <1>7, <1>8, <1>9, <1>10 DEF StartupInv

\* A migration that is over is marked, or was before.
LEMMA MarkSet ==
    ASSUME StartupInv, StepWorks, UNCHANGED <<files, older>>,
           UNCHANGED <<sidecar, bak, fresh, storageKey, refresh, startupHistory>>,
           \/ /\ app.pc = "encrypt" /\ (main.encrypted \/ app.todo = {})
              /\ main' = [main EXCEPT !.encrypted = TRUE]
              /\ app' = [app EXCEPT !.pc = "hash", !.todo = All(main)]
           \/ /\ app.pc = "hash" /\ (main.hashed \/ app.todo = {})
              /\ main' = [main EXCEPT !.hashed = TRUE]
              /\ Go("unique")
    PROVE  StartupInv'
<1>1. /\ refresh = Idle /\ main \in History /\ app.key = storageKey /\ storageKey # Absent
      /\ Marked(main)
  BY DEF StartupInv, Placed, Opened, Keyed, AllMarked
<1>2. /\ main' \in History /\ main'.rows = main.rows /\ main'.unique = main.unique
      /\ main'.encrypted = (main.encrypted \/ app.pc = "encrypt")
      /\ main'.hashed = (main.hashed \/ app.pc = "hash")
  <2>1. main.encrypted \in BOOLEAN /\ main.hashed \in BOOLEAN
    BY <1>1, HistoryFacts
  <2> QED
    BY <1>1, <2>1, FlagSet
<1>3. StartIs(IF app.pc = "encrypt" THEN "hash" ELSE "unique", app.key,
              IF app.pc = "encrypt" THEN All(main) ELSE app.todo, app.notices, app.retry)
  <2>1. All(main) \in SUBSET Clips
    BY DEF All
  <2> QED
    BY <2>1, StartMoves DEF StartupInv, StartupPc
<1>4. StartupTypeOK'
  BY <1>2, <1>3 DEF StartupInv, StartupTypeOK, StartIs, StepWorks, startupHistory
<1>5. Placed'
  BY <1>1, <1>2, <1>3 DEF Placed, Opened, Keyed, StartIs, All, Has
<1>6. LossKnown'
  <2>1. \A d \in VisibleClips(main) : d \in VisibleClips(main)'
    BY <1>2 DEF VisibleClips, Has
  <2> QED
    BY <1>1, <1>2, <1>3, <2>1, SameLoss DEF StartIs, startupHistory
<1>7. AllMarked'
  <2>1. Marked(bak)'
    BY DEF StartupInv, AllMarked, Marked, Has
  <2>2. Marked(main)'
    <3>1. \A d \in Clips : Has(main, d) /\ main'.encrypted => main.rows[d].key = storageKey
      BY <1>1, <1>2 DEF StartupInv, InOrder, Marked, All
    <3>2. \A d \in Clips : Has(main, d) /\ main'.hashed => main.rows[d].hash = 2
      BY <1>1, <1>2 DEF StartupInv, InOrder, Marked, All
    <3>3. main'.hashed => main'.encrypted
      BY <1>1, <1>2 DEF StartupInv, InOrder, Marked
    <3>4. \A d, e \in Clips : main.unique /\ Has(main, d) /\ Has(main, e) /\ d # e =>
              ContentOf[d] # ContentOf[e]
      BY <1>1 DEF Marked
    <3> QED
      BY <1>1, <1>2, <3>1, <3>2, <3>3, <3>4 DEF Marked, Has
  <2> QED
    BY <1>1, <2>1, <2>2 DEF AllMarked
<1>8. InOrder'
  BY <1>2, <1>3 DEF StartupInv, InOrder, StartIs, All, Has
<1>9. Originals'
  BY <1>1, <1>2, <1>3 DEF StartupInv, Originals, StartIs, Has, startupHistory
<1>10. Counted'
  BY <1>1, StartFacts DEF StartupInv, Counted
<1> QED
  BY <1>4, <1>5, <1>6, <1>7, <1>8, <1>9, <1>10 DEF StartupInv

\* A row is encrypted, or all are.
LEMMA EncryptStep ==
    ASSUME StartupInv, Encrypt
    PROVE  StartupInv'
<1>1. /\ app.pc = "encrypt" /\ main \in History /\ main # Torn
      /\ app.todo \subseteq All(main) /\ files \subseteq Clips /\ older \subseteq Clips
      /\ app.key \in Keys \cup {Absent}
      /\ UNCHANGED <<sidecar, bak, fresh, storageKey, refresh, startupHistory>>
  BY HistoryFacts, StartFacts
  DEF StartupInv, StartupTypeOK, Encrypt, At, Placed, Opened
<1>2. ASSUME ~main.encrypted, NEW c \in app.todo,
             files' = (IF c \in Images THEN files \cup {c} ELSE files)
      PROVE  files \subseteq files' /\ files' \subseteq Clips /\ c \in Clips
             /\ (c \in Images => c \in files')
  BY <1>1, <1>2 DEF All
<1>3. ASSUME ~main.encrypted, NEW c \in app.todo,
             files' = (IF c \in Images THEN files \cup {c} ELSE files),
             SetRow(c, [main.rows[c] EXCEPT
                           !.key = app.key, !.hash = 1,
                           !.original = IF c \in Images THEN "file" ELSE @]),
             older' \in IF c \in Images THEN {older, older \ {c}} ELSE {older},
             app' = [app EXCEPT !.todo = @ \ {c}], StepWorks
      PROVE  StartupInv'
  <2> DEFINE original == IF c \in Images THEN "file" ELSE main.rows[c].original
             r == [main.rows[c] EXCEPT !.key = app.key, !.hash = 1, !.original = original]
  <2>1. main.rows[c] \in Row /\ c \in Clips
    BY <1>1, HistoryFacts DEF All
  <2>2. original \in {"none", "blob", "older", "file"}
    BY <2>1, HistoryFacts
  <2>3. SetRow(c, r)
    BY <1>3, <2>1
  <2>4. original = "file" => c \in files' \/ original = main.rows[c].original
    BY <1>2, <1>3
  <2>7. /\ original = "older" => original = main.rows[c].original /\ older' = older
        /\ older' \subseteq older /\ \A d \in older : d = c \/ d \in older'
    BY <1>3
  <2> HIDE DEF original
  <2>5. /\ r \in Row /\ r.deleted = main.rows[c].deleted /\ r.key = app.key
        /\ r.original = original
    <3>1. /\ Row = [key : Keys \cup {Absent}, hash : 0 .. 2, deleted : BOOLEAN,
                    pinned : BOOLEAN, original : {"none", "blob", "older", "file"}]
          /\ 1 \in 0 .. 2
      BY DEF Row
    <3> QED
      BY <1>1, <2>1, <2>2, <3>1
  <2> HIDE DEF r
  <2>6. OneRow(c, r)
    BY <1>1, <2>1, <2>3, <2>5, RowSet
  <2> QED
    BY <1>1, <1>2, <1>3, <2>4, <2>5, <2>6, <2>7, RowDone
<1>4. ASSUME ~main.encrypted, NEW c \in app.todo,
             files' = (IF c \in Images THEN files \cup {c} ELSE files),
             Stops, StepFails, UNCHANGED <<main, older>>
      PROVE  StartupInv'
  BY <1>1, <1>2, <1>4, StopsStep
<1>5. CASE /\ main.encrypted \/ app.todo = {}
           /\ main' = [main EXCEPT !.encrypted = TRUE]
           /\ app' = [app EXCEPT !.pc = "hash", !.todo = All(main)]
           /\ StepWorks /\ UNCHANGED <<files, older>>
  BY <1>1, <1>5, MarkSet
<1>6. CASE Stops /\ StepWorks /\ UNCHANGED <<main, files, older>>
  BY <1>1, <1>6, StopsStep
<1> QED
  BY <1>3, <1>4, <1>5, <1>6 DEF Encrypt

\* A row is hashed again, or all are.
LEMMA RehashStep ==
    ASSUME StartupInv, Rehash
    PROVE  StartupInv'
<1>1. /\ app.pc = "hash" /\ main \in History /\ main # Torn
      /\ app.todo \subseteq All(main) /\ files \subseteq Clips
      /\ UNCHANGED <<sidecar, bak, fresh, files, older, storageKey, refresh, startupHistory>>
  BY HistoryFacts DEF StartupInv, StartupTypeOK, Rehash, At, Placed, Opened
<1>2. ASSUME ~main.hashed, NEW c \in app.todo, main' = [main EXCEPT !.rows[c].hash = 2],
             app' = [app EXCEPT !.todo = @ \ {c}], StepWorks
      PROVE  StartupInv'
  <2> DEFINE r == [main.rows[c] EXCEPT !.hash = 2]
  <2>1. main.rows[c] \in Row /\ c \in Clips
    BY <1>1, HistoryFacts DEF All
  <2>2. /\ r \in Row /\ r.deleted = main.rows[c].deleted /\ r.key = main.rows[c].key
        /\ r.hash = 2 /\ r.original = main.rows[c].original
    BY <2>1 DEF Row
  <2>3. SetRow(c, r)
    BY <1>2, <2>1 DEF SetRow
  <2> HIDE DEF r
  <2>4. OneRow(c, r)
    BY <1>1, <2>1, <2>2, <2>3, RowSet
  <2> QED
    BY <1>1, <1>2, <2>2, <2>4, RowDone
<1>3. CASE Stops /\ StepFails /\ UNCHANGED main
  BY <1>1, <1>3, StopsStep
<1>4. CASE /\ main.hashed \/ app.todo = {}
           /\ main' = [main EXCEPT !.hashed = TRUE]
           /\ Go("unique") /\ StepWorks
  BY <1>1, <1>4, MarkSet
<1> QED
  BY <1>2, <1>3, <1>4 DEF Rehash

----------------------------------------------------------------------------
(* The merge of duplicates.                                                *)

\* Exactly one of each row's copies is kept.
LEMMA OneKept ==
    ASSUME NEW S, NEW T, IsFiniteSet(Clips), S \subseteq Clips, Cardinality(S \cap T) = 1
    PROVE  /\ \E k : k \in S \cap T
           /\ \A k, l : k \in S \cap T /\ l \in S \cap T => k = l
<1>1. S \cap T \in SUBSET Clips
  OBVIOUS
<1>2. IsFiniteSet(S \cap T)
  BY <1>1, FS_Subset
<1>3. \E x : S \cap T = {x}
  BY <1>2, FS_Singleton
<1> QED
  BY <1>3

\* The merge: one row of each content stays, a visible one if there is one, and what it
\* names is there.
LEMMA MergeFacts ==
    ASSUME StartupInv, app.pc = "unique", NEW keep \in SUBSET All(main),
           \A c \in All(main) : Cardinality(keep \cap Copies(c)) = 1,
           \A c \in keep : IsSurvivor(c),
           files' = files \cup Adopters(keep)
    PROVE  /\ keep \subseteq Clips /\ files \subseteq files' /\ files' \subseteq Clips
           /\ \A c \in VisibleClips(main) :
                 \E d \in keep : ~main.rows[d].deleted /\ ContentOf[d] = ContentOf[c]
           /\ \A c, d \in keep : ContentOf[c] = ContentOf[d] => c = d
           /\ \A c \in keep : /\ Merged(c) \in Row
                              /\ Merged(c).key = main.rows[c].key
                              /\ Merged(c).hash = main.rows[c].hash
                              /\ Merged(c).deleted = main.rows[c].deleted
                              /\ Merged(c).original = "file" => c \in files' \cup brought
                              /\ Merged(c).original = "older" => c \in older \cup brought
<1>1. /\ main \in History /\ main.hashed /\ All(main) \subseteq Clips /\ keep \subseteq Clips
      /\ files \subseteq Clips
  BY DEF StartupInv, Placed, Opened, InOrder, All, StartupTypeOK
<1>2. \A c \in All(main) : main.rows[c].hash = 2 /\ main.rows[c] \in Row
  BY <1>1, HistoryFacts DEF StartupInv, AllMarked, Marked, All
<1>3. \A c, d \in All(main) : d \in Copies(c) <=> ContentOf[d] = ContentOf[c]
  BY <1>2 DEF Copies
<1>4. files \subseteq files' /\ files' \subseteq Clips
  BY <1>1 DEF Adopters
<1>5. ASSUME NEW c \in VisibleClips(main)
      PROVE  \E d \in keep : ~main.rows[d].deleted /\ ContentOf[d] = ContentOf[c]
  <2>1. c \in All(main) /\ ~main.rows[c].deleted
    BY DEF VisibleClips, All
  <2>2. PICK d : d \in keep \cap Copies(c)
    <3>1. Cardinality(keep \cap Copies(c)) = 1
      BY <2>1
    <3>2. keep \subseteq Clips /\ IsFiniteSet(Clips)
      BY <1>1, DatabaseAssumption
    <3>3. \E k : k \in keep \cap Copies(c)
      BY <3>1, <3>2, OneKept
    <3> QED
      BY <3>3
  <2>3. d \in keep /\ d \in All(main) /\ ContentOf[d] = ContentOf[c] /\ c \in Copies(d)
    BY <1>3, <2>1, <2>2
  <2>4. ~main.rows[d].deleted
    BY <2>1, <2>3 DEF IsSurvivor
  <2> QED
    BY <2>3, <2>4
<1>6. ASSUME NEW c \in keep, NEW d \in keep, ContentOf[c] = ContentOf[d]
      PROVE  c = d
  <2>1. c \in keep \cap Copies(c) /\ d \in keep \cap Copies(c)
    BY <1>3, <1>6
  <2>2. Cardinality(keep \cap Copies(c)) = 1
    OBVIOUS
  <2> QED
    BY <1>1, <2>1, <2>2, OneKept, DatabaseAssumption
<1>7. ASSUME NEW c \in keep
      PROVE  /\ Merged(c) \in Row
             /\ Merged(c).key = main.rows[c].key
             /\ Merged(c).hash = main.rows[c].hash
             /\ Merged(c).deleted = main.rows[c].deleted
             /\ Merged(c).original = "file" => c \in files' \cup brought
             /\ Merged(c).original = "older" => c \in older \cup brought
  <2> DEFINE adopts == ~Live(c) /\ \E d \in Copies(c) : Live(d)
             from == CHOOSE d \in Copies(c) : Live(d)
             pinned == \E d \in Copies(c) : main.rows[d].pinned
             original == IF adopts THEN main.rows[from].original ELSE main.rows[c].original
  <2>1. c \in All(main) /\ c \in Clips /\ Has(main, c) /\ main.rows[c] \in Row
    BY <1>1, <1>2 DEF All
  <2>2. Merged(c) = [main.rows[c] EXCEPT !.pinned = pinned, !.original = original]
    BY <2>1 DEF Merged
  <2>3. adopts => from \in Copies(c) /\ Live(from)
    OBVIOUS
  <2>4. original \in {"none", "blob", "older", "file"}
    <3>1. adopts => main.rows[from] \in Row
      BY <1>2, <2>3 DEF Copies
    <3> HIDE DEF adopts, from
    <3> QED
      BY <2>1, <3>1, HistoryFacts
  <2>5. original = "file" => c \in files' \cup brought
    <3>1. CASE adopts /\ original = "file"
      <4>1. from \in Copies(c) /\ Live(from) /\ main.rows[from].original = "file" /\ ~Live(c)
        BY <2>3, <3>1
      <4> HIDE DEF from
      <4>2. c \in Adopters(keep)
        BY <4>1 DEF Adopters
      <4> QED
        BY <4>2
    <3>2. CASE ~adopts /\ original = "file"
      BY <1>1, <1>4, <2>1, <3>2 DEF StartupInv, Originals
    <3> QED
      BY <3>1, <3>2
  <2>7. original = "older" => c \in older \cup brought
    <3>1. CASE adopts
      BY <2>3, <3>1 DEF Live
    <3>2. CASE ~adopts /\ original = "older"
      BY <1>1, <2>1, <3>2 DEF StartupInv, Originals
    <3> QED
      BY <3>1, <3>2
  <2>6. pinned \in BOOLEAN
    OBVIOUS
  <2> HIDE DEF pinned, original
  <2> QED
    BY <2>1, <2>2, <2>4, <2>5, <2>6, <2>7 DEF Row
<1> QED
  BY <1>1, <1>4, <1>5, <1>6, <1>7

\* The merge is over, and what it has left is in order.
LEMMA MergeEnds ==
    ASSUME StartupInv, app.pc = "unique", refresh = Idle,
           app' = [app EXCEPT !.pc = "unlink", !.todo = app'.todo], app'.todo \in SUBSET Clips,
           StepWorks \/ StepFails, main' \in History, main'.encrypted, main'.hashed,
           Marked(main)', files' \subseteq Clips,
           \A c \in VisibleClips(main) : \E d \in VisibleClips(main)' : ContentOf[d] = ContentOf[c],
           \A c \in Clips :
               Has(main', c) /\ main'.rows[c].original = "file" => c \in files' \cup brought,
           \A c \in Clips :
               Has(main', c) /\ main'.rows[c].original = "older" => c \in older \cup brought,
           \A c \in app'.todo : ~Has(main', c),
           UNCHANGED <<sidecar, bak, fresh, older, storageKey, refresh, startupHistory>>
    PROVE  StartupInv'
<1>1. main \in History /\ app.key = storageKey /\ storageKey # Absent
  BY DEF StartupInv, Placed, Opened, Keyed
<1>2. StartIs("unlink", app.key, app'.todo, app.notices, app.retry)
  BY StartMoves DEF StartupInv, StartupPc
<1>3. StartupTypeOK'
  BY <1>1, <1>2, CountsTyped DEF StartupInv, StartupTypeOK, StartIs, startupHistory
<1>4. Placed' /\ InOrder'
  BY <1>1, <1>2 DEF Placed, InOrder, Opened, Keyed, StartIs
<1>5. LossKnown'
  BY <1>1, <1>2, SameLoss DEF StartIs, startupHistory
<1>6. AllMarked'
  BY <1>1 DEF StartupInv, AllMarked, Marked, Has
<1>7. Originals'
  BY <1>1, <1>2 DEF Originals, StartIs, startupHistory
<1>8. Counted'
  BY StartFacts DEF StartupInv, Counted
<1> QED
  BY <1>3, <1>4, <1>5, <1>6, <1>7, <1>8 DEF StartupInv

\* The merge, or its failure.
LEMMA UniqueStep ==
    ASSUME StartupInv, Unique
    PROVE  StartupInv'
<1>1. /\ app.pc = "unique" /\ refresh = Idle /\ main \in History /\ Marked(main)
      /\ app.key = storageKey /\ storageKey # Absent /\ main.encrypted /\ main.hashed
      /\ UNCHANGED <<sidecar, bak, fresh, older, storageKey, refresh, startupHistory>>
  BY DEF StartupInv, Unique, At, Placed, Opened, Keyed, AllMarked, InOrder
<1>2. PICK keep \in SUBSET All(main) :
          /\ \A c \in All(main) : Cardinality(keep \cap Copies(c)) = 1
          /\ \A c \in keep : IsSurvivor(c)
          /\ files' = files \cup Adopters(keep)
          /\ \/ /\ main' = [main EXCEPT
                     !.rows = [c \in Clips |-> IF c \in keep THEN Merged(c) ELSE Gone],
                     !.unique = TRUE]
                /\ app' = [app EXCEPT !.pc = "unlink",
                            !.todo = { c \in All(main) \ keep : main.rows[c].original = "file" }]
                /\ StepWorks
             \/ /\ UNCHANGED main /\ StepFails
                /\ app' = [app EXCEPT !.pc = "unlink", !.todo = {}]
  BY DEF Unique
<1>3. /\ keep \subseteq Clips /\ files \subseteq files' /\ files' \subseteq Clips
      /\ \A c \in VisibleClips(main) :
            \E d \in keep : ~main.rows[d].deleted /\ ContentOf[d] = ContentOf[c]
      /\ \A c, d \in keep : ContentOf[c] = ContentOf[d] => c = d
      /\ \A c \in keep : /\ Merged(c) \in Row
                         /\ Merged(c).key = main.rows[c].key
                         /\ Merged(c).hash = main.rows[c].hash
                         /\ Merged(c).deleted = main.rows[c].deleted
                         /\ Merged(c).original = "file" => c \in files' \cup brought
                         /\ Merged(c).original = "older" => c \in older \cup brought
  BY <1>1, <1>2, MergeFacts
<1>5. CASE /\ main' = [main EXCEPT
                    !.rows = [c \in Clips |-> IF c \in keep THEN Merged(c) ELSE Gone],
                    !.unique = TRUE]
           /\ app' = [app EXCEPT !.pc = "unlink",
                       !.todo = { c \in All(main) \ keep : main.rows[c].original = "file" }]
           /\ StepWorks
  <2> DEFINE rows == [c \in Clips |-> IF c \in keep THEN Merged(c) ELSE Gone]
             todo == { c \in All(main) \ keep : main.rows[c].original = "file" }
  <2>1. rows \in Rows /\ todo \in SUBSET Clips
    BY <1>3 DEF Rows, All
  <2>2. \A c \in Clips : rows[c] = IF c \in keep THEN Merged(c) ELSE Gone
    OBVIOUS
  <2>3. \A c \in todo : c \in Clips /\ c \notin keep
    BY <2>1
  <2>4. app' = [app EXCEPT !.pc = "unlink", !.todo = todo] /\ app'.todo = todo
    <3>1. app \in AppType /\ app' = [app EXCEPT !.pc = "unlink", !.todo = todo]
      BY <1>1, <1>5, StartFacts DEF StartupInv
    <3> HIDE DEF todo
    <3> QED
      BY <3>1 DEF AppType
  <2>5. main' = [main EXCEPT !.rows = rows, !.unique = TRUE]
    BY <1>5
  <2> HIDE DEF rows, todo
  <2>6. /\ main' \in History /\ main'.rows = rows /\ main'.encrypted /\ main'.hashed
    BY <1>1, <2>1, <2>5 DEF History
  <2>7. \A c \in Clips : Has(main', c) <=> c \in keep
    BY <1>3, <2>2, <2>6, HistoryFacts DEF Has
  <2>8. \A c \in keep : main'.rows[c] = Merged(c)
    BY <1>3, <2>2, <2>6
  <2>9. Marked(main)'
    <3>1. \A c \in keep : Has(main, c) /\ main.rows[c].key = storageKey /\ main.rows[c].hash = 2
      BY <1>1, <1>2, <1>3 DEF Marked, All
    <3>2. \A c \in Clips : Has(main', c) =>
              main'.rows[c].key = storageKey /\ main'.rows[c].hash = 2
      BY <1>3, <2>7, <2>8, <3>1
    <3>3. \A c \in Clips : Has(main', c) =>
              \A d \in Clips \ {c} : Has(main', d) => ContentOf[d] # ContentOf[c]
      BY <1>3, <2>7
    <3> QED
      BY <1>1, <2>6, <3>2, <3>3 DEF Marked, startupHistory
  <2>10. \A c \in VisibleClips(main) : \E d \in VisibleClips(main)' :
            ContentOf[d] = ContentOf[c]
    <3>1. \A d \in keep : ~main.rows[d].deleted => d \in VisibleClips(main)'
      BY <1>3, <2>7, <2>8 DEF VisibleClips
    <3> QED
      BY <1>3, <3>1
  <2>11. \A c \in Clips :
            Has(main', c) /\ main'.rows[c].original = "file" => c \in files' \cup brought
    BY <1>3, <2>7, <2>8
  <2>14. \A c \in Clips :
            Has(main', c) /\ main'.rows[c].original = "older" => c \in older \cup brought
    BY <1>3, <2>7, <2>8
  <2>12. \A c \in todo : ~Has(main', c)
    BY <2>3, <2>7
  <2>13. StepWorks \/ StepFails
    BY <1>5
  <2> QED
    BY <1>1, <1>3, <2>1, <2>4, <2>6, <2>9, <2>10, <2>11, <2>12, <2>13,
       <2>14, MergeEnds
<1>6. CASE /\ UNCHANGED main /\ StepFails
           /\ app' = [app EXCEPT !.pc = "unlink", !.todo = {}]
  <2>1. Marked(main)' /\ main' \in History /\ main'.encrypted /\ main'.hashed
    BY <1>1, <1>6 DEF Marked, Has
  <2>2. \A c \in VisibleClips(main) : \E d \in VisibleClips(main)' :
            ContentOf[d] = ContentOf[c]
    BY <1>6 DEF VisibleClips, Has
  <2>3. \A c \in Clips :
            Has(main', c) /\ main'.rows[c].original = "file" => c \in files' \cup brought
    BY <1>1, <1>3, <1>6 DEF StartupInv, Originals, Has
  <2>6. \A c \in Clips :
            Has(main', c) /\ main'.rows[c].original = "older" => c \in older \cup brought
    BY <1>1, <1>3, <1>6 DEF StartupInv, Originals, Has
  <2>4. app'.todo = {} /\ app' = [app EXCEPT !.pc = "unlink", !.todo = {}]
    BY <1>1, <1>6, StartFacts DEF StartupInv, AppType
  <2>5. StepWorks \/ StepFails
    BY <1>6
  <2> QED
    BY <1>1, <1>3, <2>1, <2>2, <2>3, <2>4, <2>5, <2>6, MergeEnds
<1> QED
  BY <1>2, <1>5, <1>6

\* The notices of a start are told when it is over.
LEMMA UnlinkStep ==
    ASSUME StartupInv, Unlink
    PROVE  StartupInv'
<1>1. /\ app.pc = "unlink" /\ refresh = Idle /\ main \in History
      /\ app.key = storageKey /\ storageKey # Absent
      /\ UNCHANGED <<main, sidecar, bak, fresh, older, storageKey, refresh, expected, brought,
                     counts>>
  BY DEF StartupInv, Unlink, At, Placed, Opened, Keyed
<1>2. ASSUME NEW c \in app.todo, files' \in {files, files \ {c}},
             app' = [app EXCEPT !.todo = @ \ {c}], UNCHANGED told
      PROVE  StartupInv'
  <2>1. StartIs(app.pc, app.key, app.todo \ {c}, app.notices, app.retry)
    BY <1>1, <1>2, StartMoves DEF StartupInv
  <2>2. StartupTypeOK' /\ Placed' /\ InOrder'
    BY <1>1, <1>2, <2>1
    DEF StartupInv, StartupTypeOK, Placed, InOrder, Opened, Keyed, StartIs
  <2>3. LossKnown' /\ AllMarked'
    BY <1>1, <1>2, <2>1
    DEF StartupInv, LossKnown, AllMarked, Marked, StartIs, Visible, VisibleClips, Has
  <2>4. Originals'
    BY <1>1, <1>2, <2>1 DEF StartupInv, Originals, StartIs, Has
  <2>5. Counted'
    BY <1>1, StartFacts DEF StartupInv, Counted
  <2> QED
    BY <2>2, <2>3, <2>4, <2>5 DEF StartupInv
<1>3. ASSUME Go("up"), told' = (told \/ app.notices), UNCHANGED files
      PROVE  StartupInv'
  <2>1. StartIs("up", app.key, app.todo, app.notices, app.retry)
    BY <1>1, <1>3, StartMoves DEF StartupInv, StartupPc
  <2>2. app.notices \in BOOLEAN /\ told \in BOOLEAN
    BY <1>1, StartFacts DEF StartupInv, StartupTypeOK
  <2>3. StartupTypeOK'
    <3>1. told' \in BOOLEAN
      BY <1>3, <2>2
    <3> QED
      BY <1>1, <1>3, <2>1, <3>1 DEF StartupInv, StartupTypeOK, StartIs
  <2>4. Placed' /\ InOrder'
    BY <1>1, <1>3, <2>1 DEF StartupInv, Placed, InOrder, Opened, Keyed, StartIs
  <2>5. LossKnown'
    <3>1. (expected \subseteq Visible(main)) => (expected \subseteq Visible(main))'
      BY <1>1 DEF Visible, VisibleClips, Has
    <3> QED
      BY <1>1, <1>3, <2>1, <3>1, HistoryFacts DEF StartupInv, LossKnown, StartIs
  <2>6. AllMarked' /\ Originals'
    BY <1>1, <1>3, <2>1
    DEF StartupInv, AllMarked, Marked, Originals, StartIs, Has
  <2>7. Counted'
    BY <1>1, StartFacts DEF StartupInv, Counted
  <2> QED
    BY <2>3, <2>4, <2>5, <2>6, <2>7 DEF StartupInv
<1> QED
  BY <1>2, <1>3 DEF Unlink

----------------------------------------------------------------------------
(* The refresh of the backup, and the session.                             *)

\* The clips that are counted.
LEMMA ClipCounts ==
    /\ \A h : NumClips(h) \in Nat
    /\ \A h, g : VisibleClips(h) \subseteq VisibleClips(g) => NumClips(h) <= NumClips(g)
<1>1. \A h : VisibleClips(h) \in SUBSET Clips
  BY DEF VisibleClips
<1>2. \A h : IsFiniteSet(VisibleClips(h))
  BY <1>1, FS_Subset, DatabaseAssumption
<1>3. \A h : Cardinality(VisibleClips(h)) \in Nat
  BY <1>2, FS_CardinalityType
<1>4. ASSUME NEW h, NEW g, VisibleClips(h) \subseteq VisibleClips(g)
      PROVE  NumClips(h) <= NumClips(g)
  <2>1. Cardinality(VisibleClips(h)) <= Cardinality(VisibleClips(g))
    BY <1>2, <1>4, FS_Subset
  <2> QED
    BY <2>1 DEF NumClips
<1> QED
  BY <1>3, <1>4 DEF NumClips

\* A refresh changes neither the file nor the start that waits for it.
LEMMA RefreshMoves ==
    ASSUME StartupInv, app.pc \in {"refresh", "up"},
           app' = app \/ (\E again \in BOOLEAN : Retry(again)),
           StepWorks \/ StepFails \/ UNCHANGED counts,
           bak' \in {bak, Absent, refresh.copy}, bak' # bak => refresh # Idle,
           fresh' \in BOOLEAN, refresh' \in {Idle} \cup RefreshType,
           refresh' # Idle =>
               \/ refresh'.copy \in {Absent, Torn, main}
               \/ refresh # Idle /\ refresh'.copy = refresh.copy,
           Counted', UNCHANGED <<main, sidecar, files, older, storageKey, startupHistory>>
    PROVE  StartupInv'
<1>1. StartIs(app.pc, app.key, app.todo, app.notices, app'.retry)
  <2>1. ASSUME app' = app
        PROVE  StartIs(app.pc, app.key, app.todo, app.notices, app'.retry)
    BY <2>1, StartFacts DEF StartupInv, StartIs
  <2>2. ASSUME NEW again \in BOOLEAN, Retry(again)
        PROVE  StartIs(app.pc, app.key, app.todo, app.notices, app'.retry)
    <3>1. StartIs(app.pc, app.key, app.todo, app.notices, again)
      BY <2>2, StartMoves DEF StartupInv
    <3> QED
      BY <3>1 DEF StartIs
  <2> QED
    BY <2>1, <2>2
<1>2. StartupTypeOK'
  <2>1. counts' \in [writes : 0 .. MaxWrites, failures : 0 .. MaxStepFailures,
                     crashes : 0 .. MaxCrashes, days : 0 .. MaxDays, damage : 0 .. MaxFileDamage]
    BY CountsTyped DEF StartupInv, StartupTypeOK
  <2>2. bak' \in History \cup {Absent, Torn}
    BY StartFacts DEF StartupInv, StartupTypeOK
  <2> QED
    BY <1>1, <2>1, <2>2 DEF StartupInv, StartupTypeOK, StartIs, startupHistory
<1>3. Placed' /\ InOrder'
  BY <1>1 DEF StartupInv, Placed, InOrder, Opened, Keyed, StartIs
<1>4. LossKnown'
  BY <1>1
  DEF StartupInv, LossKnown, StartIs, startupHistory, Visible, VisibleClips, Has
<1>5. AllMarked'
  <2>1. /\ Marked(main)' /\ \A h : Marked(h) /\ (h = bak' \/ h = refresh'.copy) =>
               (h = bak' => Marked(bak)') /\ (h = refresh'.copy => Marked(refresh.copy)')
    BY DEF StartupInv, AllMarked, Marked, Has
  <2>2. Marked(bak')
    BY HistoryFacts DEF StartupInv, AllMarked, Marked
  <2>3. refresh' # Idle => Marked(refresh'.copy)
    BY HistoryFacts DEF StartupInv, AllMarked, Marked
  <2> QED
    BY <2>1, <2>2, <2>3 DEF AllMarked
<1>6. Originals'
  BY <1>1 DEF StartupInv, Originals, StartIs, Has, startupHistory
<1> QED
  BY <1>2, <1>3, <1>4, <1>5, <1>6 DEF StartupInv

\* Where a refresh is.
LEMMA RefreshKinds ==
    ASSUME NEW r \in RefreshType
    PROVE  /\ r # Idle /\ r.pc \in {"count", "copy", "install", "recover"} /\ r.deleted \in BOOLEAN
           /\ r.uncounted \in BOOLEAN
           /\ \A pc \in {"count", "copy", "install", "recover"} :
                 refresh' = [r EXCEPT !.pc = pc] =>
                     /\ refresh' \in RefreshType /\ refresh'.pc = pc
                     /\ refresh'.copy = r.copy /\ refresh'.deleted = r.deleted
                     /\ refresh'.uncounted = r.uncounted
           /\ \A copy \in History \cup {Absent, Torn} :
                 refresh' = [r EXCEPT !.pc = "install", !.copy = copy] =>
                     /\ refresh' \in RefreshType /\ refresh'.pc = "install"
                     /\ refresh'.copy = copy /\ refresh'.deleted = r.deleted
                     /\ refresh'.uncounted = r.uncounted
           /\ \A copy \in History \cup {Absent, Torn}, deletes \in BOOLEAN :
                 refresh' = [r EXCEPT !.copy = copy, !.deleted = @ \/ deletes] =>
                     /\ refresh' \in RefreshType /\ refresh'.pc = r.pc
                     /\ refresh'.copy = copy /\ refresh'.deleted = (r.deleted \/ deletes)
                     /\ refresh'.uncounted = r.uncounted
           /\ refresh' = [r EXCEPT !.pc = "copy", !.uncounted = TRUE] =>
                 /\ refresh' \in RefreshType /\ refresh'.pc = "copy"
                 /\ refresh'.copy = r.copy /\ refresh'.uncounted
<1> DEFINE C == History \cup {Absent, Torn}
<1>1. RefreshType = [pc : {"count", "copy", "install", "recover"}, copy : C, deleted : BOOLEAN,
                   uncounted : BOOLEAN]
  BY DEF RefreshType
<1> HIDE DEF C
<1>2. /\ r # Idle /\ r.pc \in {"count", "copy", "install", "recover"}
      /\ r.deleted \in BOOLEAN /\ r.uncounted \in BOOLEAN
  BY <1>1 DEF Idle
<1>3. ASSUME NEW pc \in {"count", "copy", "install", "recover"},
             refresh' = [r EXCEPT !.pc = pc]
      PROVE  /\ refresh' \in RefreshType /\ refresh'.pc = pc
             /\ refresh'.copy = r.copy /\ refresh'.deleted = r.deleted
             /\ refresh'.uncounted = r.uncounted
  BY <1>1, <1>3
<1>4. ASSUME NEW copy \in C, NEW deletes \in BOOLEAN,
             refresh' = [r EXCEPT !.copy = copy, !.deleted = @ \/ deletes]
      PROVE  /\ refresh' \in RefreshType /\ refresh'.pc = r.pc
             /\ refresh'.copy = copy /\ refresh'.deleted = (r.deleted \/ deletes)
             /\ refresh'.uncounted = r.uncounted
  <2>1. (r.deleted \/ deletes) \in BOOLEAN
    BY <1>2, <1>4
  <2> QED
    BY <1>1, <1>4, <2>1
<1>5. ASSUME NEW copy \in C, refresh' = [r EXCEPT !.pc = "install", !.copy = copy]
      PROVE  /\ refresh' \in RefreshType /\ refresh'.pc = "install"
             /\ refresh'.copy = copy /\ refresh'.deleted = r.deleted
             /\ refresh'.uncounted = r.uncounted
  BY <1>1, <1>5
<1>6. ASSUME refresh' = [r EXCEPT !.pc = "copy", !.uncounted = TRUE]
      PROVE  /\ refresh' \in RefreshType /\ refresh'.pc = "copy"
             /\ refresh'.copy = r.copy /\ refresh'.uncounted
  BY <1>1, <1>6
<1> QED
  BY <1>2, <1>3, <1>4, <1>5, <1>6 DEF C

\* A refresh begins.
LEMMA TickStep ==
    ASSUME StartupInv, Tick
    PROVE  StartupInv'
<1>1. /\ app.pc = "up" /\ refresh' = Counting
      /\ refresh' \in RefreshType /\ UNCHANGED <<storage, app, startupHistory, counts>>
  BY DEF Tick, At, RefreshType, Counting
<1>2. Counted'
  BY <1>1 DEF Counted, Counting
<1> QED
  BY <1>1, <1>2, RefreshMoves
  DEF storage, startupHistory, StartupInv, StartupTypeOK, Counting

\* Nothing is copied that was not looked at.
LEMMA CountStep ==
    ASSUME StartupInv, CountClips
    PROVE  StartupInv'
<1>1. /\ refresh # Idle /\ refresh \in RefreshType /\ app.pc \in {"refresh", "up"}
      /\ UNCHANGED <<storage, startupHistory>> /\ fresh \in BOOLEAN
  BY StartFacts DEF StartupInv, CountClips, Placed, StartupTypeOK
<1>2. CASE Refused /\ refresh' = Idle /\ Retry(FALSE) /\ StepWorks
  <2>1. Counted'
    BY <1>2, StartFacts DEF StartupInv, Counted
  <2> QED
    BY <1>1, <1>2, <2>1, RefreshMoves DEF storage
<1>3. CASE /\ bak # Absent => Countable /\ ~Refused
           /\ refresh' = [refresh EXCEPT !.pc = "copy"] /\ StepWorks /\ UNCHANGED app
  <2>1. refresh' \in RefreshType /\ refresh'.pc = "copy" /\ refresh'.copy = refresh.copy
    BY <1>1, <1>3, RefreshKinds
  <2>2. Ample(main)'
    <3>1. bak \in History /\ NumClips(bak) >= RichBackup => NumClips(main) * 10 >= NumClips(bak)
      <4>1. NumClips(main) \in Nat /\ NumClips(bak) \in Nat
        BY ClipCounts
      <4> QED
        BY <1>3, <4>1, HistoryFacts DEF Refused
    <3> QED
      BY <1>1, <3>1 DEF Ample, storage, NumClips, VisibleClips, Has
  <2>3. Counted'
    BY <2>1, <2>2 DEF Counted
  <2> QED
    BY <1>1, <1>3, <2>1, <2>3, RefreshMoves DEF storage
<1>4. CASE /\ refresh' = [refresh EXCEPT !.pc = "copy", !.uncounted = TRUE]
           /\ StepWorks \/ StepFails
           /\ UNCHANGED app
  <2>1. /\ refresh' \in RefreshType /\ refresh'.pc = "copy" /\ refresh'.copy = refresh.copy
        /\ refresh'.uncounted
    BY <1>1, <1>4, RefreshKinds
  <2>2. Counted'
    BY <2>1 DEF Counted, Ample
  <2> QED
    BY <1>1, <1>4, <2>1, <2>2, RefreshMoves DEF storage
<1> QED
  BY <1>2, <1>3, <1>4 DEF CountClips

\* The file is copied, torn or whole.
LEMMA CopyStep ==
    ASSUME StartupInv, CopyMain
    PROVE  StartupInv'
<1>1. /\ refresh # Idle /\ refresh \in RefreshType /\ app.pc \in {"refresh", "up"}
      /\ UNCHANGED <<storage, startupHistory>> /\ fresh \in BOOLEAN
      /\ main \in History \cup {Absent, Torn} /\ Ample(main)
  BY StartFacts DEF StartupInv, CopyMain, Placed, StartupTypeOK, Counted
<1>2. CASE /\ refresh' = [refresh EXCEPT !.pc = "install",
                             !.copy = IF @ = Torn THEN Torn ELSE main]
           /\ StepWorks /\ UNCHANGED app
  <2> DEFINE copy == IF refresh.copy = Torn THEN Torn ELSE main
  <2>1. copy \in History \cup {Absent, Torn} /\ copy \in {Torn, main}
    BY <1>1
  <2>2. refresh' = [refresh EXCEPT !.pc = "install", !.copy = copy]
    BY <1>1, <1>2
  <2> HIDE DEF copy
  <2>3. /\ refresh' \in RefreshType /\ refresh'.pc = "install" /\ refresh'.copy = copy
        /\ refresh'.deleted = refresh.deleted /\ refresh'.uncounted = refresh.uncounted
    BY <1>1, <2>1, <2>2, RefreshKinds
  <2>4. copy \in History => copy = main
    BY <2>1, HistoryFacts
  <2>5. Counted'
    BY <1>1, <2>3, <2>4
    DEF Counted, Ample, storage, NumClips, VisibleClips, Has
  <2> QED
    BY <1>1, <1>2, <2>1, <2>3, <2>5, RefreshMoves DEF storage
<1>3. CASE refresh' = Idle /\ Retry(TRUE) /\ StepFails
  <2>1. Counted'
    BY <1>3, StartFacts DEF StartupInv, Counted
  <2> QED
    BY <1>1, <1>3, <2>1, RefreshMoves DEF storage
<1> QED
  BY <1>2, <1>3 DEF CopyMain

\* The copy takes the place of the backup, or not.
LEMMA InstallStep ==
    ASSUME StartupInv, Install \/ RecoverBackup
    PROVE  StartupInv'
<1>1. /\ refresh # Idle /\ refresh \in RefreshType /\ app.pc \in {"refresh", "up"}
      /\ UNCHANGED <<main, sidecar, files, older, storageKey, startupHistory>> /\ fresh \in BOOLEAN
  BY StartFacts DEF StartupInv, Install, RecoverBackup, Placed, StartupTypeOK
<1>2. CASE Installed
  <2>1. Counted'
    BY <1>2, StartFacts DEF StartupInv, Counted, Installed
  <2> QED
    BY <1>1, <1>2, <2>1, RefreshMoves DEF Installed
<1>3. CASE /\ bak' \in {bak, Absent} /\ StepFails
           /\ refresh' = [refresh EXCEPT !.pc = "recover"]
           /\ UNCHANGED <<fresh, app>>
  <2>1. refresh' \in RefreshType /\ refresh'.pc = "recover" /\ refresh'.copy = refresh.copy
    BY <1>1, <1>3, RefreshKinds
  <2>2. Counted'
    BY <2>1 DEF Counted
  <2> QED
    BY <1>1, <1>3, <2>1, <2>2, RefreshMoves
<1>4. CASE /\ IF bak # Absent THEN StepWorks ELSE StepFails
           /\ refresh' = Idle /\ Retry(TRUE)
           /\ UNCHANGED <<bak, fresh>>
  <2>1. Counted'
    BY <1>4, StartFacts DEF StartupInv, Counted
  <2> QED
    BY <1>1, <1>4, <2>1, RefreshMoves
<1> QED
  BY <1>2, <1>3, <1>4 DEF Install, RecoverBackup

\* A write tears the copy that is being made, or not.
LEMMA CopyDuringWrite ==
    ASSUME StartupTypeOK, NEW deletes \in BOOLEAN, WrittenDuringCopy(deletes)
    PROVE  /\ refresh = Idle => refresh' = Idle
           /\ refresh # Idle =>
                 /\ refresh' \in RefreshType /\ refresh' # Idle /\ refresh'.pc = refresh.pc
                 /\ refresh'.copy \in {refresh.copy, Torn}
                 /\ refresh.pc = "install" => refresh'.copy = refresh.copy
                 /\ refresh'.deleted = (refresh.deleted \/ deletes)
                 /\ refresh'.uncounted = refresh.uncounted
           /\ refresh' \in {Idle} \cup RefreshType
<1>1. CASE refresh = Idle
  BY <1>1 DEF WrittenDuringCopy
<1>2. CASE refresh # Idle
  <2>1. refresh \in RefreshType /\ refresh.copy \in History \cup {Absent, Torn}
    BY <1>2, StartFacts
  <2>2. PICK torn \in BOOLEAN :
            refresh' = [refresh EXCEPT
                           !.copy = IF refresh.pc = "copy" /\ torn THEN Torn ELSE @,
                           !.deleted = @ \/ deletes]
    BY <1>2 DEF WrittenDuringCopy
  <2> DEFINE copy == IF refresh.pc = "copy" /\ torn THEN Torn ELSE refresh.copy
  <2>3. copy \in History \cup {Absent, Torn} /\ copy \in {refresh.copy, Torn}
        /\ (refresh.pc = "install" => copy = refresh.copy)
    BY <2>1
  <2>4. refresh' = [refresh EXCEPT !.copy = copy, !.deleted = @ \/ deletes]
    BY <2>2
  <2> HIDE DEF copy
  <2>5. refresh' \in RefreshType /\ refresh'.pc = refresh.pc /\ refresh'.copy = copy
        /\ refresh'.deleted = (refresh.deleted \/ deletes)
        /\ refresh'.uncounted = refresh.uncounted
    <3>1. \A c \in History \cup {Absent, Torn}, d \in BOOLEAN :
             refresh' = [refresh EXCEPT !.copy = c, !.deleted = @ \/ d] =>
                 /\ refresh' \in RefreshType /\ refresh'.pc = refresh.pc
                 /\ refresh'.copy = c /\ refresh'.deleted = (refresh.deleted \/ d)
                 /\ refresh'.uncounted = refresh.uncounted
      BY <2>1, RefreshKinds
    <3> QED
      BY <2>3, <2>4, <3>1
  <2> QED
    BY <1>2, <2>3, <2>5, RefreshKinds
<1> QED
  BY <1>1, <1>2

\* What is counted while the session writes: no fewer clips, or the user deleted some.
LEMMA StillCounted ==
    ASSUME StartupInv, NEW deletes \in BOOLEAN, WrittenDuringCopy(deletes), UNCHANGED bak,
           deletes \/ NumClips(main) <= NumClips(main')
    PROVE  Counted'
<1>1. ASSUME NEW h, Ample(h), refresh.deleted \/ deletes => refresh'.deleted,
             refresh.uncounted => refresh'.uncounted,
             NEW g, deletes \/ NumClips(h) <= NumClips(g)
      PROVE  bak \in History /\ NumClips(bak) >= RichBackup =>
                 refresh'.deleted \/ refresh'.uncounted \/ NumClips(g) * 10 >= NumClips(bak)
  <2>1. NumClips(h) \in Nat /\ NumClips(g) \in Nat /\ NumClips(bak) \in Nat
    BY ClipCounts
  <2> QED
    BY <1>1, <2>1 DEF Ample
<1>2. CASE refresh = Idle
  BY <1>2, CopyDuringWrite, StartFacts DEF StartupInv, Counted
<1>3. CASE refresh # Idle
  <2>1. /\ refresh'.pc = refresh.pc /\ refresh'.copy \in {refresh.copy, Torn}
        /\ refresh.deleted \/ deletes => refresh'.deleted
        /\ refresh.uncounted => refresh'.uncounted
    BY <1>3, CopyDuringWrite DEF StartupInv
  <2>2. refresh.pc = "copy" /\ bak \in History /\ NumClips(bak) >= RichBackup =>
            refresh'.deleted \/ refresh'.uncounted \/ NumClips(main') * 10 >= NumClips(bak)
    BY <1>1, <1>3, <2>1 DEF StartupInv, Counted
  <2>3. ASSUME refresh.pc = "install", refresh'.copy \in History
        PROVE  bak \in History /\ NumClips(bak) >= RichBackup =>
                   \/ refresh'.deleted \/ refresh'.uncounted
                   \/ NumClips(refresh.copy) * 10 >= NumClips(bak)
    <3>1. Ample(refresh.copy) /\ NumClips(refresh.copy) <= NumClips(refresh.copy)
      BY <2>1, <2>3, HistoryFacts, ClipCounts DEF StartupInv, Counted
    <3> QED
      BY <1>1, <1>3, <2>1, <3>1
  <2>4. refresh'.copy \in History => refresh'.copy = refresh.copy
    BY <2>1, HistoryFacts
  <2>5. NumClips(main)' = NumClips(main') /\ NumClips(refresh.copy)' = NumClips(refresh'.copy)
    BY DEF NumClips, VisibleClips, Has
  <2>6. refresh'.pc = "copy" => Ample(main)'
    BY <2>1, <2>2, <2>5 DEF Ample, NumClips, VisibleClips, Has
  <2>7. refresh'.pc = "install" /\ refresh'.copy \in History => Ample(refresh.copy)'
    BY <2>1, <2>3, <2>4, <2>5 DEF Ample, NumClips, VisibleClips, Has
  <2> QED
    BY <2>6, <2>7 DEF Counted
<1> QED
  BY <1>2, <1>3

\* A write of the session to the history.
LEMMA SessionWrites ==
    ASSUME StartupInv, app.pc = "up", CountWrite, NEW deletes \in BOOLEAN,
           WrittenDuringCopy(deletes), deletes \/ NumClips(main) <= NumClips(main'),
           main' \in History, Marked(main)', main'.encrypted = main.encrypted,
           main'.hashed = main.hashed, files' \subseteq Clips, expected' \subseteq Contents,
           brought' \subseteq Clips,
           expected \subseteq Visible(main) => (expected \subseteq Visible(main))',
           \A c \in Clips :
               Has(main', c) /\ main'.rows[c].original = "file" => c \in files' \cup brought',
           \A c \in Clips :
               Has(main', c) /\ main'.rows[c].original = "older" => c \in older \cup brought',
           UNCHANGED <<sidecar, bak, fresh, older, storageKey, app, told>>
    PROVE  StartupInv'
<1>1. main \in History /\ app \in AppType /\ main.hashed /\ main.encrypted
      /\ app.key = storageKey /\ storageKey # Absent
  BY StartFacts DEF StartupInv, Placed, Opened, Keyed, InOrder
<1>2. StartupTypeOK'
  BY <1>1, CountsTyped, CopyDuringWrite DEF StartupInv, StartupTypeOK
<1>3. Placed' /\ InOrder'
  BY <1>1 DEF Placed, InOrder, Opened, Keyed
<1>4. LossKnown'
  BY <1>1, HistoryFacts DEF StartupInv, LossKnown
<1>5. AllMarked'
  <2>1. Marked(bak)'
    BY DEF StartupInv, AllMarked, Marked, Has
  <2>2. refresh' # Idle => refresh # Idle /\ refresh'.copy \in {refresh.copy, Torn}
    BY CopyDuringWrite DEF StartupInv
  <2>3. refresh' # Idle => Marked(refresh.copy)'
    BY <2>2, HistoryFacts DEF StartupInv, AllMarked, Marked, Has
  <2> QED
    BY <2>1, <2>3 DEF AllMarked
<1>6. Originals'
  BY <1>1 DEF Originals
<1>7. Counted'
  BY StillCounted
<1> QED
  BY <1>2, <1>3, <1>4, <1>5, <1>6, <1>7 DEF StartupInv

\* A capture stores a new clip.
LEMMA StoreStep ==
    ASSUME StartupInv, NEW c \in Clips, Capture(c)
    PROVE  StartupInv'
<1> DEFINE r == [key |-> app.key, hash |-> 2, deleted |-> FALSE, pinned |-> FALSE,
                 original |-> IF c \in Images THEN "file" ELSE "none"]
<1>1. /\ app.pc = "up" /\ CountWrite /\ ~Has(main, c) /\ WrittenDuringCopy(FALSE)
      /\ \A d \in All(main) : ContentOf[d] # ContentOf[c]
      /\ SetRow(c, r)
      /\ files' = (IF c \in Images THEN files \cup {c} ELSE files)
      /\ expected' = expected \cup {ContentOf[c]} /\ brought' = brought \ {c}
      /\ UNCHANGED <<sidecar, bak, fresh, older, storageKey, app, told>>
  BY DEF Capture, At
<1>2. /\ main \in History /\ app.key = storageKey /\ storageKey # Absent /\ main.hashed
      /\ main.encrypted /\ Marked(main) /\ app.key \in Keys \cup {Absent}
      /\ files \subseteq Clips /\ expected \subseteq Contents /\ brought \subseteq Clips
      /\ ContentOf[c] \in Contents
  BY <1>1, StartFacts, DatabaseAssumption
  DEF StartupInv, StartupTypeOK, Placed, Opened, Keyed, InOrder, AllMarked
<1>3. r \in Row
  BY <1>2 DEF Row
<1>4. OneRow(c, r)
  BY <1>1, <1>2, <1>3, RowSet
<1>5. /\ r.key = storageKey /\ r.hash = 2 /\ ~r.deleted
      /\ (r.original = "file" => c \in files') /\ r.original # "older"
  BY <1>1, <1>2
<1> HIDE DEF r
<1>6. /\ main' \in History /\ main'.rows[c] = r /\ Has(main', c)
      /\ \A d \in Clips : d # c => main'.rows[d] = main.rows[d]
      /\ \A d \in Clips : d # c => (Has(main', d) <=> Has(main, d))
      /\ main'.encrypted = main.encrypted /\ main'.hashed = main.hashed
      /\ main'.unique = main.unique
  BY <1>3, <1>4, HistoryFacts DEF OneRow, Has
<1>7. c \in VisibleClips(main') /\ VisibleClips(main) \subseteq VisibleClips(main')
  BY <1>1, <1>5, <1>6 DEF VisibleClips
<1>8. NumClips(main) <= NumClips(main')
  BY <1>7, ClipCounts
<1>9. Marked(main)'
  <2>1. \A d \in Clips : Has(main', d) =>
            main'.rows[d].key = storageKey /\ main'.rows[d].hash = 2
    BY <1>2, <1>5, <1>6 DEF Marked
  <2>2. ASSUME main.unique, NEW d \in Clips, NEW e \in Clips, Has(main', d), Has(main', e), d # e
        PROVE  ContentOf[d] # ContentOf[e]
    <3>1. CASE d # c /\ e # c
      BY <1>2, <1>6, <2>2, <3>1 DEF Marked
    <3>2. CASE d = c \/ e = c
      BY <1>1, <1>6, <2>2, <3>2 DEF All
    <3> QED
      BY <3>1, <3>2
  <2> QED
    BY <1>1, <1>2, <1>6, <2>1, <2>2 DEF Marked
<1>10. expected \subseteq Visible(main) => (expected \subseteq Visible(main))'
  BY <1>1, <1>7 DEF Visible, VisibleClips, Has
<1>11. \A d \in Clips :
          Has(main', d) /\ main'.rows[d].original = "file" => d \in files' \cup brought'
  <2>1. \A d \in Clips :
            Has(main, d) /\ main.rows[d].original = "file" => d \in files \cup brought
    BY <1>2 DEF StartupInv, Originals
  <2> QED
    BY <1>1, <1>5, <1>6, <2>1
<1>13. \A d \in Clips :
          Has(main', d) /\ main'.rows[d].original = "older" => d \in older \cup brought'
  <2>1. \A d \in Clips :
            Has(main, d) /\ main.rows[d].original = "older" => d \in older \cup brought
    BY <1>2 DEF StartupInv, Originals
  <2> QED
    BY <1>1, <1>5, <1>6, <2>1
<1>12. files' \subseteq Clips /\ expected' \subseteq Contents /\ brought' \subseteq Clips
  BY <1>1, <1>2
<1> QED
  BY <1>1, <1>6, <1>8, <1>9, <1>10, <1>11, <1>12, <1>13, SessionWrites

\* The user clears the history.
LEMMA DeleteStep ==
    ASSUME StartupInv, DeleteAll
    PROVE  StartupInv'
<1> DEFINE rows == [c \in Clips |-> Gone]
<1>1. /\ app.pc = "up" /\ CountWrite /\ WrittenDuringCopy(TRUE)
      /\ main' = [main EXCEPT !.rows = rows]
      /\ files' \subseteq files /\ expected' = {}
      /\ UNCHANGED <<sidecar, bak, fresh, older, storageKey, app, told, brought>>
  BY DEF DeleteAll, At
<1>2. /\ main \in History /\ Marked(main) /\ rows \in Rows
      /\ files \subseteq Clips /\ brought \subseteq Clips
  BY <1>1 DEF StartupInv, StartupTypeOK, Placed, Opened, AllMarked, Rows
<1>3. \A c \in Clips : rows[c] = Gone
  OBVIOUS
<1> HIDE DEF rows
<1>4. /\ main' \in History /\ main'.rows = rows /\ main'.encrypted = main.encrypted
      /\ main'.hashed = main.hashed
  BY <1>1, <1>2, RowsSet
<1>5. \A c \in Clips : ~Has(main', c)
  BY <1>3, <1>4 DEF Has
<1>6. Marked(main)'
  BY <1>1, <1>2, <1>4, <1>5 DEF Marked
<1>7. (expected \subseteq Visible(main))'
  BY <1>1
<1> QED
  BY <1>1, <1>2, <1>4, <1>5, <1>6, <1>7, SessionWrites

----------------------------------------------------------------------------
(* The theorems.                                                           *)

\* The invariant is inductive.
LEMMA StartupSteps == StartupInv /\ [StartupNext]_startupVars => StartupInv'
<1> SUFFICES ASSUME StartupInv, [StartupNext]_startupVars PROVE StartupInv'
  OBVIOUS
<1>1. CASE Launch
  BY <1>1, LaunchStep
<1>2. CASE Assess
  BY <1>2, AssessStep
<1>3. CASE AfterRefresh
  BY <1>3, AfterRefreshStep
<1>4. CASE QuarantineMain
  BY <1>4, QuarantineStep
<1>5. CASE QuarantineSidecar
  BY <1>5, SidecarStep
<1>6. CASE Restore
  BY <1>6, RestoreStep
<1>7. CASE RestoreCopy
  BY <1>7, RestoreCopyStep
<1>8. CASE Open
  BY <1>8, OpenStep
<1>9. CASE LoadKey
  BY <1>9, LoadKeyStep
<1>10. CASE InstallKey
  BY <1>10, InstallKeyStep
<1>11. CASE RivalInstallsKey
  BY <1>11, RivalStep
<1>12. CASE Migrate
  BY <1>12, MigrateStep
<1>13. CASE Encrypt
  BY <1>13, EncryptStep
<1>14. CASE Rehash
  BY <1>14, RehashStep
<1>15. CASE Unique
  BY <1>15, UniqueStep
<1>16. CASE Unlink
  BY <1>16, UnlinkStep
<1>17. CASE Tick
  BY <1>17, TickStep
<1>18. CASE CountClips
  BY <1>18, CountStep
<1>19. CASE CopyMain
  BY <1>19, CopyStep
<1>20. CASE Install \/ RecoverBackup
  BY <1>20, InstallStep
<1>21. CASE \E c \in Clips : Capture(c)
  BY <1>21, StoreStep
<1>22. CASE DeleteAll
  BY <1>22, DeleteStep
<1>23. CASE Crash
  BY <1>23, CrashStep
<1>24. CASE DamageMain
  BY <1>24, DamageStep
<1>25. CASE Day \/ UNCHANGED startupVars
  BY <1>25, DayStep
<1> QED
  BY <1>1, <1>2, <1>3, <1>4, <1>5, <1>6, <1>7, <1>8, <1>9, <1>10, <1>11, <1>12, <1>13, <1>14,
     <1>15, <1>16, <1>17, <1>18, <1>19, <1>20, <1>21, <1>22, <1>23, <1>24, <1>25
  DEF StartupNext, Start, Refresh

\* Each step of a start finds the history, the key and the rows it needs (type correctness
\* is part of it), through quarantine, restore, crashes and the refresh of the backup.
THEOREM StartupInvariance == StartupSpec => []StartupInv
BY StartupBegins, StartupSteps, PTL DEF StartupSpec

\* Nothing the user had is missing from a running application unless the log says so, or a
\* start that rewrote the history ended before it could.
THEOREM LossesAreTold == StartupSpec => []NothingLostSilently
<1>1. StartupInv => NothingLostSilently
  BY HistoryFacts DEF StartupInv, Placed, Opened, LossKnown, NothingLostSilently, At
<1> QED
  BY <1>1, StartupInvariance, PTL

\* A file or backup that is marked as encrypted, hashed or free of duplicates is so to the
\* last row, wherever a start ended.
THEOREM MarksAreTrue == StartupSpec => []MarkedIsDone
<1>1. StartupInv => MarkedIsDone
  BY DEF StartupInv, StartupTypeOK, AllMarked, Marked, MarkedIsDone, Whole
<1> QED
  BY <1>1, StartupInvariance, PTL

\* A row of the history names an original that is there, its own file or that of an older
\* version, or has come back with a restored backup.
THEOREM OriginalsExist == StartupSpec => []NamedOriginalsExist
<1>1. StartupInv => NamedOriginalsExist
  BY DEF StartupInv, StartupTypeOK, Originals, NamedOriginalsExist, Whole
<1> QED
  BY <1>1, StartupInvariance, PTL

\* Only Install replaces a backup by another, and no step replaces a key.
LEMMA LastResortStep ==
    ASSUME StartupInv, [StartupNext]_startupVars
    PROVE  /\ [ Whole(bak) /\ Whole(bak') /\ NumClips(bak) >= RichBackup
                  => \/ NumClips(bak') * 10 >= NumClips(bak)
                     \/ refresh.deleted \/ refresh.uncounted ]_bak
           /\ [ storageKey # Absent => FALSE ]_storageKey
<1>1. ASSUME bak' # bak, Whole(bak), Whole(bak'), NumClips(bak) >= RichBackup
      PROVE  NumClips(bak') * 10 >= NumClips(bak) \/ refresh.deleted \/ refresh.uncounted
  <2>1. Install /\ Installed
    BY <1>1
    DEF StartupNext, Start, Refresh, startupVars, storage, Launch, Assess, AfterRefresh,
        QuarantineMain, QuarantineSidecar, Restore, RestoreCopy, Open, LoadKey, InstallKey,
        RivalInstallsKey, Migrate, Encrypt, Rehash, Unique, Unlink, Tick, CountClips, CopyMain,
        Install, RecoverBackup, Capture, DeleteAll, Crash, DamageMain, Day, Whole
  <2>2. refresh.pc = "install" /\ bak' = refresh.copy /\ refresh # Idle
    BY <2>1, StartFacts DEF Install, Installed, StartupInv
  <2>3. bak \in History /\ refresh.copy \in History
    BY <1>1, <2>2, StartFacts DEF StartupInv, StartupTypeOK, Whole
  <2> QED
    BY <1>1, <2>2, <2>3 DEF StartupInv, Counted, Ample
<1>2. storageKey' = storageKey \/ storageKey = Absent
  BY DEF StartupNext, Start, Refresh, startupVars, storage, Launch, Assess, AfterRefresh,
      QuarantineMain, QuarantineSidecar, Restore, RestoreCopy, Open, LoadKey, InstallKey,
      RivalInstallsKey, Migrate, Encrypt, Rehash, Unique, Unlink, Tick, CountClips, CopyMain,
      Install, RecoverBackup, Capture, DeleteAll, Crash, DamageMain, Day
<1> QED
  BY <1>1, <1>2

\* A rich backup is replaced by a poor one only when the user deleted clips meanwhile, or when
\* one of the two could not be counted; and a storage key is never replaced, not even by
\* another first start.
THEOREM LastResorts == StartupSpec => LastResortsKept
<1>1. StartupInv /\ [StartupNext]_startupVars =>
          /\ [ Whole(bak) /\ Whole(bak') /\ NumClips(bak) >= RichBackup
                 => \/ NumClips(bak') * 10 >= NumClips(bak)
                    \/ refresh.deleted \/ refresh.uncounted ]_bak
          /\ [ storageKey # Absent => FALSE ]_storageKey
  BY LastResortStep
<1> QED
  BY <1>1, StartupInvariance, PTL
  DEF StartupSpec, LastResortsKept, RichBackupKept, KeyIsNeverReplaced
=============================================================================
