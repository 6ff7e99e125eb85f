# Cubby: a TLA+ verification

Cubby is a clipboard manager for Windows (Rust and Tauri, `src/src-tauri`). It listens to the
clipboard, keeps a searchable, encrypted history in SQLite, recognises text in images and pastes
clips back. This directory models the parts whose logic is concurrent, has to survive failures, or
both: the way of a copy from the Windows clipboard to a row of the history, and out again when a
password manager clears the clipboard; the queue that recognises text; the search index; the
files and stores the history, the preferences and its backups live in; and the hotkeys and windows
the user reaches it through.

Paths below are relative to `src/src-tauri/src/` unless they say otherwise.

## The system

| Part | State | Operations | Hard because |
|---|---|---|---|
| Clipboard listener (`clipboard.rs` 801-1595) | the monitor and its shutdown slot, `LAST_HANDLED_SEQUENCE`, `LAST_CLIPBOARD_EVENT_UNIX_MS`, `DEFERRED_*`, `CAPTURE_STATE` | supervise sessions, bind a sequence number, read markers and formats, queue, defer | every read may see another copy; notifications are lost; owners hold the clipboard |
| Watchdog (704-746) | none of its own | compare sequence numbers every two seconds, drop the monitor | races with the session it judges |
| Snapshot queue (`clipboard/snapshot_queue.rs`) | a `VecDeque` and a byte count | enqueue with eviction, dequeue | two budgets, clears that may not be lost, oversize items |
| Snapshot channel (`clipboard/snapshot_channel.rs`) | the queue under a mutex, closing flags, a `Notify` | send, recv, two drops | the wake-up comes after the unlock |
| Self-paste ignore (`clipboard/ignore_hash.rs`) | one live marker with a TTL, the last consumed generation | set, bind, consume, release | echoes are delayed, evicted and overtaken by user copies |
| Capture processing (`clipboard.rs` 2538-3161) | `CLIPBOARD_SYNC`, `LAST_STABLE_HASH`, `LAST_ACCEPTED_CAPTURE`, the `clips` table | gate, dedupe, look up, write, retention | awaits between every two steps while commands change the table |
| Forget on clear (`clipboard.rs` 3163-3426, `clipboard/forget_on_clear.rs`) | the capture an attempt has taken, its tries left | take the marker, look up, guarded delete, retry | retries run long after the world moved on |
| Commands (`commands.rs`) | the `clips` table | delete, clear, dedupe, edit, pin, retention, paste | none of the table commands takes `CLIPBOARD_SYNC` |
| OCR queue (`ocr_queue.rs`) | a job table, pause flag | enqueue, claim, complete, fail, retry, rescan, recover | crashes between claim and result, user corrections while a job runs |
| Image store (`image_persist.rs`, `image_stage.rs`, `managed_image.rs`) | a row in `clips`, one in `clip_images`, `{uuid}.cubby` and its `.tmp` | stage, replace, recover, insert, roll back, retire, sweep | three stores that change one after another; a FAT replace deletes first |
| Search index (`search_index.rs`; lists in `commands.rs`) | the documents in memory, a generation | rebuild, upsert, update, remove, invalidate, page | rebuilt while it changes; messages sent after the commit; offsets that move |
| Startup (`database.rs`, `crypto.rs`, `lib.rs`) | `cubby.db`, its backup, the storage key | quarantine, restore, migrate, merge duplicates, refresh the backup | ends between any two steps; a refresh beside a session that writes |
| Settings (`settings_manager.rs`, `settings_load.rs`, `settings_commands.rs`) | `settings.json`, its temp, the copy in memory | load, set aside, adopt an older file, seed, update, save | torn files, a lost file that looks like a first start, commands that save old copies |
| Backup, Ditto import, path grants (`backup.rs`, `ditto_import.rs`, `path_grant.rs`) | the bundle file, the grants | export, import with roll-back, grant, consume | long loops over a history that changes; each part is a statement of its own |
| Shortcuts, Win+V helper (`shortcuts.rs`, `win_v_replacement.rs`) | registered hotkeys, the configuration, the helper process | register, restore, recover, save, restart | other programs take hotkeys; the helper dies; a save may fail after the hotkey changed |
| Flyout, paste engine (`lib.rs`, `window_state.rs`, `paste_engine.rs`, `paste_after_settle.rs`) | a request slot, two latches, the remembered window | show, hide, blur, outside click, paste | five threads, a window that loses the focus at any time |
| Reader, relay, secrets, keyboard hook, interface | see *What is not modelled* | | |

How they meet: the listener thread sends `ListenerEvent`s through the channel to one async
consumer; the consumer and the paste commands share `CLIPBOARD_SYNC` and the ignore marker; the
listener reads the ignore marker without that lock when it binds it to a snapshot; consumer,
forget retries, commands, imports, exports and the OCR worker share the database and nothing else;
whoever changes a row tells the index after the commit; the watchdog and the listener share
atomics; the start decides which history and which preferences all of them see.

What makes each part correct is the list of properties under *Runs*. What is hard to test is in
`PROJECT.json` under `hazards`, each at its line, with the properties that cover it or the reason
why none does.

## Modules

    SnapshotQueue            the queue as operators on a set ordered by arrival
      SnapshotChannel        one sender, one receiver, the mutex and the wake-up
      SelfPasteIgnore        paste command, listener, consumer, flood eviction
    CaptureListener          copies, notifications, sessions, watchdog, one bound capture
    CaptureHistory           capture processing, clears, forget retries, commands, database
    OcrQueue                 the job columns, the worker, pause, captures, commands, crashes
    SearchView               what the index promises: unavailable, or complete
      SearchIndex            index, writers, readers that page; implements SearchView
    ImageStore               rows, files and temps of originals
    Settings                 the preferences, their file, the commands that save
    DatabaseStartup          the history file, its key and its backup over many starts
    Backup                   export, two imports, the grants they need
    Shortcuts                hotkeys, recovery, the Win+V helper and its watchdog
    Flyout                   the flyout worker, animations, one paste
    CaptureListenerProofs, CaptureHistoryProofs, SearchIndexProofs, BackupProofs
                             the invariants and theorems of the module they are named after
    SnapshotProofs           those of SnapshotChannel and SelfPasteIgnore
    ImageProofs              those of OcrQueue and ImageStore
    StorageProofs            those of Settings and DatabaseStartup
    ShellProofs              those of Flyout and Shortcuts
    MC*                      instances for TLC

Every state machine states its types in `TypeOK`, which holds in the instance of its run; where a
proof needs types, it has its own form of them. Every module holds, just before the definition it
changes, the mutants that `PROJECT.json` pairs with the properties: a plausible slip that makes the
property fail.

**SnapshotQueue.** The `VecDeque` is only pushed at the back, popped at the front and thinned in
the middle, so it is a set of items with arrival numbers. The eviction loops take the oldest
droppable item until what is left fits; the victims are defined by that condition instead of by
a loop. The order of the steps of `enqueue` is kept: back replacement, oversize arrival, count,
coalescing, bytes, coalescing.

**SnapshotChannel** composes the queue with the transport. A critical section is one action; the
`notify_one` after it is another. `Notify` keeps at most one permit. The sender may close and the
consumer end at any time. The consumer (the loop in `init`) is the state `busy`.

**SelfPasteIgnore** composes the queue with the four users of the marker. The listener reads a
sequence in one step, binds it in another under the lock of the marker, and sends it in a third; a
send that evicts echoes releases their markers in the same step, since the code does both under the
queue's lock. The TTL is a flag that
may drop at any moment. History variables record which snapshot used up which generation.

**CaptureListener.** `copies` lists what each sequence number held; a read always returns the
last. A kind of copy says what the reads find: text, text with a privacy marker, nothing, empty
text, files, an image backed by a file, a private format. Each of the separate reads of
`capture_one_bound_sequence` is an action, and a history field collects the sequence numbers
that were really read. The watchdog's decision is one step, although the code loads its inputs
one after another, and its request another. Times are counts of ticks up to the threshold.

**CaptureHistory.** One action per stretch between two awaits. A row has the event that inserted it
for its uuid, the event that last touched it, and flags. `marker` and `stable` are
`LAST_ACCEPTED_CAPTURE` and `LAST_STABLE_HASH`. Retention cuts the history at two points, one of age
and one of overflow: age is told by `last_accessed` for images, which only the insert sets, and by
`created_at` for text; overflow always goes by `created_at`. A database call may fail, a bounded
number of times, the DELETE that takes a new row back among them: the row then stays. Forgets, the
consumer's own and the retries, each hold the capture they took. A run starts with an empty history,
or with one text that was soft-deleted and whose duplicate marker was reset. The user's commands
change the table between any two steps; those that delete reset the duplicate marker in a step of
their own.

**OcrQueue.** A job is the OCR columns of an image row. Each SQL statement is an action, and so is
each of the two stores to `PAUSED`; recognition, which runs between a claim and its result, is a
step of its own with every outcome `classify_failure` tells apart. `stored` stands for the
`clip_images` row and its file together, and `due` for `ocr_next_retry_at`. A fault is a failing
call or the end of the process. The one-time reprocess runs beside the worker as in `init`.

**SearchView** is the abstract index: rows change and are owed to it, a message pays for one clip,
the view is dropped or filled. It is complete for every row that nobody is busy with and that no
two writers have changed at once.

**SearchIndex.** A writer (the capture consumer, or a command) changes the database in one step and
sends its message in another; `upsert` and the updates bump the generation with or without an index.
A reader waits for the index, builds it from a SELECT and publishes it if the generation stands;
then it orders the candidates by a second query, starts behind the last row shown, and fetches
batches until the page is full. A document is reduced to whether body and notes match. Rows that
cannot be decrypted are passed over. `recency` is the place of each row (copies of one second, which
the uuid puts in order, stand as they came); a row that is captured again or used moves to the
front. Owed and contested rows are history variables; the refinement maps them, the rows and the
index to the view. `moved` says that rows under a scan have changed places, or that the last row it
has shown is not found any more: then `source_start_for_ids` goes by the number of rows shown, and
a row may come twice or be passed over.

**ImageStore.** A capture stages a temp, stores the row, replaces the file and indexes it, with
every roll-back; a replace on FAT may delete the old file and then fail, which leaves the temp as
the only copy. Deletes, retention and the sweep of a start change rows in a transaction and unlink
afterwards; a reader looks the path up, opens the file, and falls back to the thumbnail. Retention
after a capture may take the clip just captured: a copy does not refresh `last_accessed`. The
application can end between any two of these. Whatever cleans up may fail as well, and the code goes
on: the DELETE of a roll-back, which leaves the row; an unlink (`Remove`), which leaves the file;
the removal of a temp (`DropTemp`), at a capture and at a start. `excused` collects the files that a
failed commit or unlink, or an end, has left behind, `kept` the temps that could not be removed,
`doomed` the clips brought back while their old file waits to be unlinked.

**Settings.** `SettingsManager::new` is a sequence of steps that read, promote the temp, set a
damaged file aside, adopt the file of an older release or the old settings table, and seed the
password managers. A file that is there and cannot be read is set aside like one that does not
parse, and a query of the old table that fails leaves the defaults, as in the code; both count as
failures of the run. A save serialises, writes the temp and replaces. Commands take a copy of the
preferences, change it, and save all of it; `raced` notes that one has saved over another's change.

**DatabaseStartup.** `app` walks through `run_app` and `Database::new`: health check, moving the
damaged file and its sidecars aside, copying the backup, the key, the encryption and the hash
migrations row by row, the merge of duplicates with the adoption of files, the unique index, the
sweep. A session writes; the hourly refresh counts, checks, copies and renames. A number that cannot
be had, because the query fails or because a file has no tables yet, lets the copy through
(`uncounted`). Rows are reduced to their key, the form of their hash, and where an original is: in
the table, in a file of an older version (`older`), which the encryption reads and unlinks after its
commit, if that works, or in `{uuid}.cubby`.

**Backup.** An export takes the rows once and then the parts of each clip; a row that was changed or
removed meanwhile is in `overtaken`. An import writes the row, the parts and the original one
statement at a time and takes all of it back when one fails; an unlink may fail, and the file then
stays (`excused`). The bundle is written to a temp, which is removed when that or the replace fails,
unless `remove_backup_temp` gives up (`leftover`). A session may begin without a bundle. The other
import is one transaction per clip. A grant is left by a file dialog, looked at by a preview,
consumed by the command, and expires by wall clock, which may be set back.

**Shortcuts.** `register_shortcuts` is a sequence: release what is registered, try the new hotkey,
put the previous one back. A hotkey may be the fallback, or Win+Alt+V, which is the default and also
the bridge the Win+V helper sends: it is then registered once, for both. The start, its recovery
thread and a save of the settings call it, the latter two under a lock. Other programs take and
release hotkeys between any two steps, and Windows may refuse to release one (`stuck`). The helper
has a configuration and a child; the watchdog starts it again.

**Flyout.** A toggle or tray click fills the slot, then kicks the worker through
`FLYOUT_WORKER_LIVE`; the worker clears the latch and looks back. `IS_ANIMATING` is the lock of
whoever shows or hides. A paste hides, restores the window that was remembered at the show, waits
for it to settle, checks that it has the focus and, in a step of its own, sends the keys, while the
user clicks elsewhere, a hide panics or the lock is taken for longer than the paste waits. `slipped`
notes that the focus moved between that check and the keys, which no code can exclude. A press that
is over before the watcher polls, or whose place it cannot learn, goes unnoticed.

## Runs

| Run | Instance | What it shows |
|---|---|---|
| SnapshotChannel | 3 slots, budget 3, payloads 1, 3 and 4, 4 sends | `Bounded`: the queue stays in its bounds, counts its bytes and has no adjacent clears; `ClearNotLost`: floods lose no clear; `EvictsOnlyUnderPressure`; `NoLostWakeUp`: everything leaves the queue, and a close ends the receiver |
| SelfPasteIgnore | 3 slots, budget 6, two contents, one oversize, 4 writes, 2 pastes | `SpentMarkerNotLive`, `StaleNeverSwallows`, `NeverSpentTwiceInARow`: an echo is ignored once and nothing else is |
| CaptureListener | four kinds (a secret, an empty text, a file, an image backed by a file), 1 bind, 1 read, 2 deferrals, 2 copies after the start, 1 failure | `QueueFollowsTheClipboard`: what is queued is one copy each, in order; `HandledMeansCaptured`; `EveryCopySettles`; `RestartsEnd` |
| CaptureHistory | a password, a note, an image; 3 events, 1 command, 1 failure with 2 tries | `ClearTargetIsLastCopy`, `ForgetsOnlyEarlierUnpinned`: a clear never reaches past the last copy; `ClearedSecretIsForgotten` |
| OcrQueue | two images, 2 attempts, 1 recopy or command, 1 fault | `ProcessingIsOwned`: no job is stranded; `AttemptsBounded`: only a fault costs an attempt beyond the limit; `EveryImageSettles` |
| SearchIndex | two clips at the start, one of them unreadable, and one to come; pages of one row, 2 changes, 1 scan | `ScansAreExact`: an undisturbed scan misses and repeats no row, and a search whose rows keep their order repeats none; `ImplementsView`: the refinement; `EverySearchAnswers` |
| ImageStore | two uuids of one image and one more, 3 copies, 2 commands, 2 failures, 1 restart | `OriginalsAreKept`: a row that names an original has one, and the thumbnail is shown only if the reader was overtaken; `NothingLeftOver`: files are owned, and a temp is the last copy or could not be removed |
| Settings | a password manager, two commands at once, 3 commands, 2 failures, 3 restarts, 1 damage | `SavedSettingsSurvive`, `RetentionIsChosen`: nothing is deleted on the strength of a default nobody chose; `IgnoredAppsStay` |
| DatabaseStartup | two images with the same content, one in a file and one in the table of an older version, and a reference to a file, 3 writes, 2 failures, 2 crashes, 1 day, 1 damage | `NothingLostSilently`, `MarkedIsDone`, `NamedOriginalsExist`; `LastResortsKept`: a rich backup that can be counted and an installed key are not replaced |
| Backup | a text with two formats and a screenshot, a bundle of both or none, 4 uuids, 1 command, 2 failures, 1 crash, 2 picks, 2 ticks | `ExportIsComplete`; `ImportsAreWhole`: imported clips have their parts, can be found, and nothing half imported stays; `BundleKept`; `EveryWriteWasPicked` |
| Shortcuts | the user may choose a hotkey, the fallback or the bridge; 1 taken, 2 failures, 1 death, 1 save, 1 recovery attempt | `AlwaysAWayIn`: a hotkey, the helper, or the tray; `ConfigurationIsFollowed`; `RecoveryKeepsTheChoice`; `WinVComesBack` |
| Flyout | two windows, one of them manual, 1 caller between slot and latch | `OneAnimation`, `PasteLandsWhereChosen`; `EverythingIsAnswered`: requests are served, a paste is answered, an outside click closes |

A property named in the table may be the conjunction of named parts, which its module defines next
to it.

The bounds. Three slots are the smallest capacity for which the queue keeps its count (see
*Proofs*), and four sends overflow it; sizes below, at and above the budget reach every branch of
`enqueue`. Two pastes and four writes give a spent, a live and a stale generation together with user
copies between them. Three sequence numbers let a copy overtake a capture that overtook another; one
bind and one read make both run out. Three events are capture, copy and clear, or a clear between
two copies, with a command in between; one failure reaches every failure branch and leaves a forget
its last try. Two images are an older and a newer job, of which the newer is claimed first; two
attempts are a retry and the last try. Two changes are one by each writer, so that their messages
cross around a rebuild; pages of one row make every offset a page boundary. Two uuids of one image
are what a roll-back and a later copy of the same image need; two failures are a step that fails and
the repair that fails with it, here and in the modules below; one restart sees the sweep. Three
restarts are damage, a start cut short and a start that finds what it left. Two crashes end a
quarantine and the start that follows it; one day makes a backup stale. Two picks are an export and
an import, or one purpose picked again; two ticks let a grant expire and the clock be set back. One
hotkey taken by another program can be any of the three, at any time, and the default configuration,
whose hotkey is the bridge, is one of the starts. The numbers of windows and callers in Flyout are
proved not to matter for safety.

Deadlock is not checked: all copies may have been made and all events handled, all commands given,
and the application may end.

Fairness. `SnapshotChannel`: a thread that has released the lock reaches its `notify_one`, and
the runtime polls a task that was woken. `CaptureListener`: the listener and watchdog threads run
and time passes; nobody has to copy or fail. `CaptureHistory`: the consumer runs, and a forget
that keeps asking for `CLIPBOARD_SYNC` gets it (strong fairness), because the tokio mutex queues
its waiters in order. Failures are bounded in number: a database that never comes back is not
recovered from. `OcrQueue`: the worker's loop looks for work every `IDLE_POLL_INTERVAL` even when no
wake-up comes, its supervisor restarts it, retry times pass, and a process that ended is started
again; nothing is assumed of the user, and `EveryImageSettles` stops asking while the queue is
paused. `SearchIndex`: the three tasks are polled; no user has to search or change anything, and
changes are bounded, as a rebuild that is always overtaken starts again. `Shortcuts`: the steps of a
registration run to their end, the recovery thread and the watchdog wake up; nobody has to release a
hotkey. `Flyout`: each thread runs, events arrive; the user does nothing in particular.

## Proofs

All twelve runs are of modules with theorems, checked by TLAPS for every value of the constants that
meets the assumption each module names: `QueueAssumption` and `ChannelAssumption`,
`IgnoreAssumption`, `ListenerAssumption`, `HistoryAssumption`, `OcrAssumption`, `ImageAssumption`,
`IndexAssumption`, `SettingsAssumption`, `DatabaseAssumption` and `OlderAssumption`,
`FlyoutAssumption`, `ShortcutsAssumption`, `BackupAssumption` and `InputAssumption`. Apart from the
capacity of the queue, the history an older version has left (rows of the type, not encrypted, with
originals in the table or in files of other names), and the histories and bundles a session of
`Backup` begins with, these only say that sets are finite or disjoint, that bounds are numbers, some
of them positive, and that model values differ.

**The channel.** `SnapshotProofs` holds for every capacity of at least three, every byte budget,
every set of payload sizes and every bound on the sends. Assumed: `QueueAssumption` and
`ChannelAssumption`. The code asserts a capacity of at least one and ships with 128. Three is what
the count bound needs: with two slots, evicting the content of [clear, content] for an arriving
clear leaves two clears and nothing to evict.

The invariant of the channel, `IInv`:

  * the history: `sent` has one event per arrival number up to its size, and what waits and what
    was delivered is part of it, so that an arrival is newer than everything;
  * the claims themselves, which need one another: the count bound at an arrival needs
    `NoAdjacentClears` (a full queue then holds a content to evict, since clears may not be
    neighbours), the byte bound needs `BytesExact` only for the counter, and `ClearNotLost` needs
    `Fifo`, because a clear that is coalesced away is stood for by one behind it, and a later
    delivery must not slip in between.

Its first part proves what `enqueue` does to any queue: it leaves a free slot
(`EnqueueCount`, from `RoomHasSlot`), stays in the byte budget (`EnqueueBytes`,
`EnqueueOneOversize`), leaves no adjacent clears (`EnqueueNoAdjacent`), keeps a stand-in for every
clear (`EnqueueStands`) and drops nothing without pressure (`NothingLostWithoutPressure`). The
proofs order finite sets by arrival number; the least element comes from well-founded induction.

Results: `TypeCorrect`, `NeverOverCapacity`, `NeverOverBudget`, `ByteCounterExact`,
`ClearsCoalesced` and their conjunction `AlwaysBounded`, `ClearsSurvive`, `InOrder` and the action
property `OnlyUnderPressure`.

**The OCR queue.** `ImageProofs` proves, for every set of images and every bound on attempts,
requests and faults (`OcrAssumption`), `TypeCorrect`, `NoJobStranded` (`ProcessingIsOwned`) and
`AttemptsAreBounded`. `ProcessingIsOwned` is inductive with the types. The bound on attempts is
not: a claim adds one, so a row that may be claimed must be strictly below the bound.
`AttemptsLeft` says so, also of the rows a starting worker is about to recover, where the fault
that cut them short has paid for the attempt, and ties the worker's own count to that of its row,
which a rescan may have reset. The steps that leave the worker alone are handled together:
`QuietStep` needs of them only that they ask for a job afresh or do not bring it closer to a
claim.

**The image store.** `ImageProofs` also proves `OriginalsKept` (`OriginalsAreKept`) and
`NothingStays` (`NothingLeftOver`), for any images, any number of clips and every bound on copies,
commands, failures and restarts (`ImageAssumption`); it extends `OcrQueue` as well, which is why the
names of `ImageStore` carry a prefix where both have one. A named original is in place, or its temp
is whole, or it is *doomed*: brought back by a copy while a command that had deleted its row still
held its path. That is not inductive, since the row is written after the file. `InPlace` says what
each step of a capture has in hand: a temp is opened and written beside an original that stays where
it is, and from the replace on the file is whole and no command is about to unlink it, or it is
doomed. `DoomedOnly` says the latter of every named file. `TempFits` says that a temp is part or
whole as the step says, and that a temp *beside* a file belongs to the capture at work or is one
that could not be removed, so that what a start finds is the last copy or a leftover beside its
file. `Shaped` separates the captures of new clips, which may be rolled back, from those of stored
ones, which may not, and keeps the row of a clip for as long as its transaction has it. `Owned` and
`ReaderSees` are the properties themselves with what each step needs to go on. There is one lemma
per action, `StoreNextInv` puts them together.

**The index.** `SearchIndexProofs` proves that `SearchIndex` implements `SearchView`
(`Implements`) and, before that, that the view is complete whenever it can be searched
(`AlwaysComplete`); `SettledRows` says it of the index itself. The invariant (`Invariant`):
the owed clips are those the writers still owe; a clip both owe is contested; a uuid is given out
once, so a new row cannot be owed or indexed already; a writer's row says what its message will
(`Told`), or the clip is contested; and the index is level with the rows but for owed and
contested ones. The last has to hold of the reader's snapshot as well, while the generation is the
one it saw: that is what the generation is for, and the mutant that publishes anyway breaks it.
Each step then changes rows (`Change`), pays for one (`Tell`), drops, fills or gives up the view,
or stutters.

`Scans` proves `ScansAreExact` on top of it, for every page size. `TotalOrder` to `SortedIsInOrder`
say that the order of the rows is total, and that a sorted sequence of all rows of a set is the one
the query returns. The invariant, `ScanInv`, is about the rows scanned so far, those shown and
those of the page being filled. `Ahead` is what survives changes: the scanned rows that are still
there are in order, none comes twice, and what is left of the source comes after them all. New
copies and deletions keep it, since they move no row that stays (`OrderKept`); the search for the
last row shown brings it back for the next page (`Continues`), and a batch adds to it (`Appends`).
`Whole` is what holds while nothing changes: the scanned rows are the first of those wanted, at the
places of the source passed so far. It needs the index to say what the rows say (`IndexIsRows`), so
no writer may owe anything (`Quiet`), and that only a batch at the end of the list is short
(`ShortBatch`). An earlier form of the property forgot that an edit may take the last row shown
out of a search; with two pages and two copies it failed, and `moved` covers it since.

**The ignore marker.** `SnapshotProofs` also proves `SpentIsNotLive`, `StaleSwallowsNothing` and
`SpentOnce`, for every capacity the queue allows (`IgnoreAssumption`); `SelfPasteIgnore` prefixes
the names that both its modules would have. The invariant is `IgnoreInv`. The live marker is that
of the last generation. Snapshots, in the listener's hands or in the queue, have ids in the order
they were read and carry a binding that was fresh when they were bound; a generation that is used
up is never that of the live marker, because consuming drops the marker, and the last generation an
eviction takes is one it releases or one that was used up before.

**The listener.** `CaptureListenerProofs` proves `AlwaysFollows` (`QueueFollowsTheClipboard`),
`AlwaysCaptured` (`HandledMeansCaptured`), on top of the types, for any number of copies and any
budgets (`ListenerAssumption`). Neither property is inductive, since both are about what has been
read so far. `Order` says that a capture under way is of a copy newer than the last one handled, and
has read that one or later ones. `Steady` says that as long as the clipboard's sequence still is the
expected one, what was read is what is there: this is the whole point of comparing the sequence
again after a read, and it turns into `Whole` at the moment of the comparison: a payload past its
last guard, with its marker, is of one copy. `Budget` bounds what is counted. The thirty steps are
sorted by what they do to a capture: begin one, read on (`ReadOn`), lose an attempt (`RebindStory`),
settle (`Settled`, `ToSend`), leave (`Away`), or nothing (`SamePlace`), and one lemma speaks for
each kind.

**Settings.** `StorageProofs` proves `TypeCorrect`, `AlwaysSurvive` (`SavedSettingsSurvive`),
`AlwaysChosen` (`RetentionIsChosen`) and `AlwaysIgnored` (`IgnoredAppsStay`), for every set of
applications and commands and any number of failures, ends and damage (`SettingsAssumption`). The
invariant has a part per question. `OneSaver`: a save belongs to the start or to one command, whose
copy it writes. `OwnTemp`: its temp is empty, torn or whole as its step says, so that a replace
that has deleted the file leaves a whole one. `Survives`: on a sound disk, and unless a start could
not read the file, the file, or else the temp, is one of those that may be there, and a start never
gets to set anything aside. `AllMeant`:
thirty days are somebody's choice in every place they can be loaded from, the copies of commands
included. That a start asks the old database only on a true first launch needs `NothingYet`: with
no file, and none set aside, what the older places say counts as chosen; a failed query of the
old table is the other way to thirty days, and `misled` notes it. `Kept`: a command's copy
that is not stale differs from the preferences by its own change only.

**The history file.** `StorageProofs` extends `DatabaseStartup` too, which is why the names of the
latter carry a prefix where both have one. It proves `LossesAreTold` (`NothingLostSilently`),
`MarksAreTrue` (`MarkedIsDone`), `OriginalsExist` (`NamedOriginalsExist`) and the action properties
of `LastResorts` (`LastResortsKept`), for every history an older version may have left, any clips
and contents, and every bound on writes, failures, ends, days and damage (`DatabaseAssumption`,
`OlderAssumption`). The invariant, `StartupInv`, follows a start. `Placed` says what each step
finds: a history from the opening on, the key from its installation on, a notice once a file has
been set aside. `LossKnown` is the first property wherever the application is: what is missing has
been told, or there is a notice of it, or the start that had one has ended (`lost`), or the damage
has yet to be looked at. `Marked` is what a mark means, of the file, of the backup, and of the copy
that is about to become the backup, since a restore brings back whatever was marked then; that the
key is never replaced is what keeps it true of rows nobody touches. `InOrder` says that a row which
is not left to do is done, and that hashing follows encryption, without which the encryption of a
row, which hashes it the old way, could undo a later mark. `Originals` adds to the third property,
for both kinds of files, that what is about to be unlinked belongs to rows that are gone: the merge
(`MergeFacts`) keeps one row of each content (`OneKept`), a visible one if there is one, and copies
a file before a row names it. `Counted` carries the comparison of the counts from the look to the
copy and to the replace: a session that writes meanwhile only adds clips, or has noted that the user
deleted some; a refresh that could not count has noted that.

**Clears.** `CaptureHistoryProofs` proves `TargetIsLast` and `ForgetsWithinBounds`. A clear target
is the last copy heard, and no other content counts as stored; the marker is empty while a capture
is being stored. A forget that the consumer waits for keeps that fact of the capture it took, and
this is why it may put the target back when it fails. Events are numbered, and so are the rows
they insert: what a forget holds is older than its clear.

**The hotkeys.** `ShellProofs` extends `Flyout` and `Shortcuts`, which is why the names of the
latter carry a prefix where both have one. It proves `WayInAlways` (`AlwaysAWayIn`),
`FollowedAlways` (`ConfigurationIsFollowed`) and the action property `ChoiceIsKept`
(`RecoveryKeepsTheChoice`), for any hotkeys, the fallback and the bridge among them, and any number
of takes, failures, deaths, saves and attempts (`ShortcutsAssumption`, which only keeps the fallback
and the bridge apart). The properties only ask between calls; the invariant says what
holds inside them. `Actors` says which call belongs to whom: the start, its recovery, or a save;
the recovery works on what is saved, and a call that is under way remembers the configuration it
found. `Registered`: unless Windows has refused a release, what is live is what is noted, which is
the current configuration, except between a release and the next registration, where it is
nothing. `WayIn`: the tray icon is there whenever no hotkey is current. `Helped`: the helper is
wanted only with a working channel, its process was started with the hotkey it has been given, and
that one is current or saved, or will be saved by the save under way. Who changes the hotkey
configures the helper before it is done or puts the hotkey back.

**Exports and imports.** `BackupProofs` proves `ExportsAreComplete` (`ExportIsComplete`),
`NothingByHalves` (`ImportsAreWhole`), `BundleStaysPut` (`BundleKept`) and the action property
`GrantsAreSpentOnce` (`EveryWriteWasPicked`), for any contents, number of formats and other
database, and every bound on rows, commands, failures, crashes and picks (`BackupAssumption`). A
session begins with a history whose clips are whole and whose uuids were given out in order, and
with no bundle or one of clips an export can write (`InputAssumption`): everything after that is the
invariant's business. It has a part for each actor. `Importing` is what an import has in hand: until
the row is inserted nobody else can know its uuid, so the row is not there and its file is exactly
the one the import wrote (`Place`, `OwnsFile`); from then on the user, retention and another capture
see the row as well, and `PartsFit` says what is left of it: unless an early edit has spoiled it or
retention has had its original, the content and hash are the bundle's and it has as many parts as
the import has stored, and where the row has gone and left its file, a part is still missing, so
that the roll-back removes the file, or notes that it could not. `Restored` and `UnseenNoted` are
what the import says when it is over, with the clip it is busy with excepted. `SeenStands` relates
an export to a history that moves: a row it has read and nobody has overtaken still has at least the
parts it had, since an import only adds to its own row. `Exported` is the property for the part of
the work that is done, `BundleStays` says when there may be a temp (an export, a crash, or a removal
that gave up) or no bundle (none yet, or a replace that took it), and `Granted` that every grant is
a pick nothing has used yet.

**The flyout.** `ShellProofs` proves `OneAtATime` and `LandsWhereChosen`. The latch is set exactly
while a worker lives, and each value of the lock has exactly one holder; the target of a paste is
the window remembered, unless the flyout has been opened over another one since, or a window took
the focus between the last check and the keys, in which cases the property does not ask (see below).

Only model-checked: the liveness properties, out of reach of the provers as is everything that needs
fairness or ENABLED. Every invariant a run checks is also proved.

## Where the code and its comments differ

Six properties state what a comment promises and do not hold. Each is defined in its module with
the comment it quotes; adding it to the configuration of the run, as an INVARIANT (the first) or a
PROPERTY (the others), makes TLC print the steps.

| Property | Code | In short |
|---|---|---|
| `OneShotPerGeneration` (SelfPasteIgnore) | `clipboard/ignore_hash.rs:202` | "consuming an echo must not swallow a later same-hash snapshot that bound the same generation" (`ignore_hash.rs:7`). Only the last generation consumed is remembered: a user copy bound to generation 1 waits in the queue, a second paste is spent, and the copy is swallowed. |
| `NoSilentDrop` (CaptureHistory) | `commands.rs:2476` | `reset_capture_dedup` is called after deletes because without it "deleting a clip and copying the same content again is silently dropped" (`clipboard.rs:189`). `apply_retention` deletes and does not call it. |
| `ForgetsOnlySecrets` (CaptureHistory) | `commands.rs:1742` | An auto-clear only forgets credential-shaped captures (`clipboard.rs:98`). An edit leaves the clear target as it was: a credential that was edited into a note is forgotten. |
| `TimelyClearForgets` (CaptureHistory) | `clipboard.rs:2770` | "Forget the last capture when the clipboard is cleared shortly afterward" (`clipboard.rs:3163`). A duplicate copy does not renew the window: copied, copied again later, cleared at once, and kept. |
| `RevivedOriginalSurvives` (CaptureHistory) | `image_persist.rs:184` | `last_accessed` is refreshed when an original is restored, or it "would be expired again before the user could ever paste it" (`database.rs:1654`). A capture that restores one does not refresh it, and ends with retention. |
| `CorrectionSurvives` (OcrQueue) | `ocr_queue.rs:502` | A corrected clip counts as processed, as the worker would otherwise "overwrite the correction on its next pass" (`commands.rs:1699`). A job already claimed does overwrite it. |

The watchdog measures its five seconds from the last clipboard event and not from the first missed
advance (`clipboard.rs` 132, 703-746), so a listener that was idle can be restarted when the
watchdog looks between a copy and its capture. The restart loses nothing, as `HandledMeansCaptured`
and `EveryCopySettles` show.

What follows was met while modelling. The models have these steps where they are named in a
history variable, and their properties do not ask for more than the code does.

  * Search. `ensure_ready` and the search are two calls: an `invalidate` between them makes an
    empty answer. A row that comes back from a soft delete is indexed without its notes and its
    recognised text. The roll-back of a new clip sends no `remove`; failed formats on a revived
    row send no message. The messages of two writers are not ordered (contested). When the row a
    cursor names is deleted, or edited so that a search no longer finds it, paging falls back to
    an offset and may repeat or skip a row (`commands.rs:388`); list
    start and offset are separate queries (`commands.rs:1105`).
  * Images. `apply_retention` may unlink the file of a clip that was copied again meanwhile
    (`doomed`). An end of the application between commit and unlink, and an unlink that fails, which
    is only logged (`managed_image.rs:26`), leave an orphan; the sweep makes one of a torn temp. A
    staging temp that could not be removed makes later captures of that clip fail until a start. A
    roll-back whose DELETE fails leaves a row without its original. A capture sets
    `LAST_STABLE_HASH` after a delete has reset it. On FAT a reader between delete and rename gets
    the thumbnail.
  * Settings. `recover_from_unreadable_settings` speaks of a file that cannot be parsed, but
    `parse_settings_file` (`settings_manager.rs:187`) takes a failed read for the same, and a good
    file is set aside for safe defaults (`spoiled`). A first launch whose query of the old table
    fails (`settings_manager.rs:325`) gets the defaults, with thirty days (`misled`). Two commands
    that took their copies at the same time lose one change (`raced`). A stale temp beside a file
    that was set aside makes saves refuse. When the first save after that fails or never comes, the
    next start takes the directory for a first launch, with its thirty days (`misled`). A failed
    copy of the older file leaves part of it.
  * Startup. An end, or a sidecar that cannot be moved, between quarantine and restore makes the
    next start silently empty (`told`). Notices before the logger starts are lost. The refresh
    counts first and copies later: a history emptied or damaged in between replaces the last good
    backup. "A rich backup must never be clobbered by a drastically smaller database (fresh file
    after a corruption event ...)" (`database.rs:909`), but a start that ends between its
    quarantine, a failed restore and the migration leaves a file without tables, whose count is
    unknown, and the refresh of a later start may copy it over the backup before it has tables
    (`uncounted`). A backup restored half encrypted may name a file that has been unlinked since:
    each start then ends with "image payload is missing" (`commands.rs:544`). Leftover `*.bak.*.tmp`
    are never looked for. `Database::new` runs before the single-instance plug-in, so two starts may
    overlap. `migrate_clip_format_model` runs again at each start if an expired image cannot be
    hashed again.
  * Backup. A temp that `remove_backup_temp` cannot remove in five tries stays beside the bundle for
    good (`leftover`). A clip edited or deleted while it is exported is stored as a mixture
    (`overtaken`), and an image deleted then fails the export. An import has no transaction around a
    clip: an end of the application leaves half of it, which later counts as a duplicate. A failed
    duplicate check returns without invalidating the index. A soft-deleted row counts as present. An
    expired image is exported as its thumbnail and imported beside the original. A wall clock set
    back makes an old grant fresh.
  * Shortcuts. A failed release forgets the registrations while the configuration stays (`stuck`).
    When a save fails and the saved hotkey has been taken meanwhile, the new one stays live. A
    helper that fails to start when it is first enabled gets no watchdog. A save of
    `replace_win_v` alone, on the fallback, gives the helper the saved hotkey and not the active
    one. A hotkey that another program takes between release and restore is lost, and only the
    tray says so.
  * Flyout. A flyout opened again over another window while a paste settles makes the check follow
    that window (`moved`). Between the last look at the focus and the keys another window may take
    it (`slipped`). A click shorter than the 20 ms of the watcher's poll closes nothing. A copy made
    before the delayed Ctrl+V is what is pasted. The watcher ends at the first outside click even
    when the hide it asked for was skipped; what it relies on is that focus loss asks again.
    Requests that do not get the lock within a second are dropped.
  * Keyboard hook (`win_v_activation.rs`, `bin/win_v_helper.rs`; read, not modelled). V that
    repeats after Win was released first types a v. A Win release the hook does not see makes a
    later plain V a chord, and the replay leaves Win down. When SendInput is blocked,
    `activation_failed` swallows the release of Win. The configured chord is no longer suppressed
    once Cubby has the focus, against its comment, and a chord whose activation failed passes its
    key-down and swallows its key-up.

## What is not modelled

  * The keyboard hook of the Win+V helper and the activation channel to it: key events of one
    thread against the state of the keyboard, which the helper only guesses. `Shortcuts` has the
    helper's life, and what it was read for is noted above.
  * Remote Desktop polling and the remote relay: a second source of copies that does not advance
    the sequence number. Its states multiply those of `CaptureListener`, which has 635 thousand.
  * Data conversion: formats, HTML, thumbnails, previews, encryption, the sealing of a bundle, the
    tables of other clipboard managers. Reads and conversions appear as steps that succeed or
    fail.
  * Secret patterns, ranking of matches, recognition, the keys sent to each program, placement and
    effects of windows, logging, the interface. `CaptureHistory` takes the verdict on a secret as
    a set of contents; `SearchIndex` takes a match as a flag.
  * Commands that make and rename folders, hide clips, copy several at once, and the pickers: each
    is a single statement, or none.
  * The probes, budgets and the compatibility matrix under `bin/`, the build and the release
    scripts: not part of the running program.
  * One model of the whole way of a copy. The channel, the marker and the history are composed in
    pairs (queue with channel, queue with marker), and `CaptureHistory` takes its inbox without
    the losses of a flood; the product of all three has too many states to say anything at useful
    bounds.

Inside the models: `DatabaseStartup` has no row ids and merges neither notes, folders nor
recognised texts; removing the temp of a refresh is assumed to succeed there. `Shortcuts`
stores `SHORTCUT_READY` together with the spawn, reads the settings once, and does not model two
spellings of one hotkey. `Flyout` joins the look at the window and the slot in a toggle, and leaves
out the settings window. `SearchIndex` does not repeat
`update_ocr`, which has the form of `update_notes`. The recognition's word boxes and the health
report are left out.
