----------------------------- MODULE ImageStore -----------------------------
(***************************************************************************)
(* The originals of image clips: one row in clips, one in clip_images that *)
(* names a file, and the file {uuid}.cubby itself, which is written to     *)
(* {uuid}.cubby.tmp first (src-tauri/src/image_persist.rs, image_stage.rs, *)
(* managed_image.rs; clipboard.rs: process_clipboard_snapshot;             *)
(* commands.rs: retention, deletion, load_full_image_content).             *)
(*                                                                         *)
(* The rows change in transactions; the files change outside of them.  The *)
(* capture consumer writes files, commands and retention unlink them after *)
(* their transaction, a reader looks the path up before it opens the file, *)
(* and the application can end between any two of these steps.             *)
(***************************************************************************)
EXTENDS Naturals, FiniteSets

CONSTANTS
    Clips,          \* uuids, given out once
    Hashes,         \* what is copied, as content hashes
    ImageOf,        \* the image each uuid will be given to
    None,
    MaxCaptures,    \* bound on copies
    MaxCommands,    \* bound on commands, and on maintenance at the start
    MaxFailures,    \* bound on steps in which a disk or database call fails
    MaxRestarts     \* bound on ends of the application

ASSUME ImageAssumption ==
    /\ IsFiniteSet(Clips) /\ ImageOf \in [Clips -> Hashes]
    /\ None \notin Hashes \cup Clips
    /\ {MaxCaptures, MaxCommands, MaxFailures, MaxRestarts} \subseteq Nat

Row == [deleted : BOOLEAN, pinned : BOOLEAN, expired : BOOLEAN, text : BOOLEAN]
Gone == [gone |-> TRUE]

VARIABLES
    clips,      \* the clips table
    named,      \* uuids with a row in clip_images, whose file_path is {uuid}.cubby
    file,       \* uuids whose {uuid}.cubby exists
    temp,       \* uuids whose {uuid}.cubby.tmp exists: "part" or "full"
    torn,       \* uuids whose file is incomplete
    unused,
    lastStable, \* LAST_STABLE_HASH
    capture,    \* the copy under way
    command,    \* the command or maintenance task under way
    reader,     \* a paste, a copy or a preview of an original
    doomed,     \* history: brought back while its old file was about to be unlinked
    excused,    \* history: files that a failed commit or unlink, or an end, left behind
    kept,       \* history: temps that could not be removed or renamed
    count       \* copies, commands, failures and restarts so far

storeVars ==
    <<clips, named, file, temp, torn, unused, lastStable, capture, command, reader, doomed,
      excused, kept, count>>
rows == <<clips, named>>
files == <<file, temp, torn>>
history == <<doomed, excused, kept>>

Stored(u) == clips[u] # Gone
Shown(u) == Stored(u) /\ ~clips[u].deleted

Idle == [pc |-> "idle"]

CapturePc == {"lookup", "stage", "write", "update", "replace", "recover", "commit",
              "insert", "index", "undo", "undoFile", "formats", "path", "drop",
              "unlink", "stable", "retention", "retired"}

\* The type invariant.
StoreTypeOK ==
    /\ clips \in [Clips -> Row \cup {Gone}]
    /\ named \subseteq Clips /\ file \subseteq Clips
    /\ temp \in [Clips -> {"none", "part", "full"}]
    /\ torn \subseteq file /\ unused \subseteq Clips
    /\ lastStable \in Hashes \cup {None}
    /\ capture \in {Idle} \cup [pc : CapturePc, image : Hashes, clip : Clips \cup {None},
                                new : BOOLEAN, paths : SUBSET Clips]
    /\ command \in {Idle} \cup [pc : {"unlink"}, paths : SUBSET Clips, dedup : BOOLEAN]
    /\ reader \in {Idle} \cup
          [pc : {"path", "read", "done"}, clip : Clips, whole : BOOLEAN,
           overtaken : BOOLEAN, result : {"none", "original", "thumbnail", "refused"}]
    /\ doomed \subseteq Clips /\ excused \subseteq Clips /\ kept \subseteq Clips
    /\ count \in [captures : 0 .. MaxCaptures, commands : 0 .. MaxCommands,
                  failures : 0 .. MaxFailures, restarts : 0 .. MaxRestarts]

StoreInit ==
    /\ clips = [u \in Clips |-> Gone]
    /\ named = {} /\ file = {} /\ torn = {}
    /\ temp = [u \in Clips |-> "none"]
    /\ unused = Clips
    /\ lastStable = None
    /\ capture = Idle /\ command = Idle /\ reader = Idle
    /\ doomed = {} /\ excused = {} /\ kept = {}
    /\ count = [captures |-> 0, commands |-> 0, failures |-> 0, restarts |-> 0]

Fails == count.failures < MaxFailures /\ count' = [count EXCEPT !.failures = @ + 1]
Works == UNCHANGED count

\* SQLite has one writer: from its UPDATE to its COMMIT a recapture keeps others out.
Writable == capture.pc \in {"replace", "recover", "commit"} => capture.new

\* What a transaction that deletes D, and expires E, tells a reader at work.
Overtake(S) ==
    reader' = IF reader # Idle /\ reader.clip \in S
              THEN [reader EXCEPT !.overtaken = TRUE] ELSE reader

\* A transaction deletes rows D; their clip_images rows go with them.
DeleteRows(D) ==
    /\ clips' = [u \in Clips |-> IF u \in D THEN Gone ELSE clips[u]]
    /\ named' = named \ D

----------------------------------------------------------------------------
(* A copy of an image: process_clipboard_snapshot, on one thread.          *)

At(pc) == capture.pc = pc
Go(pc) == capture' = [capture EXCEPT !.pc = pc]
End == capture' = Idle

\* A copy equal to the last one is skipped, unless its original has expired: then
\* it is captured again to bring the original back.  A lookup that fails counts
\* as a reason to capture.
Skipped(i) == lastStable = i /\ \A u \in Clips : Stored(u) /\ ImageOf[u] = i => ~clips[u].expired

Copy(i) ==
    /\ capture = Idle
    /\ count.captures < MaxCaptures
    /\ ~Skipped(i)
    /\ capture' = [pc |-> "lookup", image |-> i, clip |-> None, new |-> FALSE, paths |-> {}]
    /\ count' = [count EXCEPT !.captures = @ + 1]
    /\ UNCHANGED <<rows, files, unused, lastStable, command, reader, history>>

\* A row with that hash, soft-deleted or not, is brought up to date.
Lookup ==
    /\ At("lookup")
    /\ \/ \E u \in Clips :
             /\ Stored(u) /\ ImageOf[u] = capture.image
             /\ capture' = [capture EXCEPT !.pc = "stage", !.clip = u]
       \/ /\ \A u \in Clips : Stored(u) => ImageOf[u] # capture.image
          /\ \E u \in unused :
                /\ ImageOf[u] = capture.image
                /\ capture' = [capture EXCEPT !.pc = "insert", !.clip = u, !.new = TRUE]
    /\ Works
    /\ UNCHANGED <<rows, files, unused, lastStable, command, reader, history>>

Insert ==
    /\ At("insert") /\ Writable
    /\ clips' = [clips EXCEPT ![capture.clip] =
                   [deleted |-> FALSE, pinned |-> FALSE, expired |-> FALSE, text |-> FALSE]]
    /\ unused' = unused \ {capture.clip}
    /\ Go("stage") /\ Works
    /\ UNCHANGED <<named, files, lastStable, command, reader, history>>

\* write_staged_image_temp opens the temp only if there is none ...
Stage ==
    /\ At("stage")
    /\ IF temp[capture.clip] = "none"
       THEN /\ temp' = [temp EXCEPT ![capture.clip] = "part"]
            /\ Go("write")
       ELSE /\ UNCHANGED temp
            /\ IF capture.new THEN Go("undo") ELSE End
    /\ Works
    /\ UNCHANGED <<rows, file, torn, unused, lastStable, command, reader, history>>

\* The temp is removed again; that this fails is ignored, and the temp stays
\* (write_staged_image_temp, StagedImageFile::drop).
DropTemp(failed) ==
    \/ /\ temp' = [temp EXCEPT ![capture.clip] = "none"]
       /\ IF failed THEN Fails ELSE Works
       /\ UNCHANGED kept
    \/ kept' = kept \cup {capture.clip} /\ Fails /\ UNCHANGED temp

\* ... and writes and flushes it, or drops it.
Write ==
    /\ At("write")
    /\ \/ /\ temp' = [temp EXCEPT ![capture.clip] = "full"]
          /\ Go(IF capture.new THEN "replace" ELSE "update") /\ Works
          /\ UNCHANGED kept
       \/ DropTemp(TRUE) /\ (IF capture.new THEN Go("undo") ELSE End)
    /\ UNCHANGED <<rows, file, torn, unused, lastStable, command, reader, doomed, excused>>

\* apply_existing_image_recapture: UPDATE and INSERT OR REPLACE in a transaction
\* that is still open.  A row that is gone meanwhile fails the foreign key, and the
\* staged file is dropped.
Update ==
    /\ At("update") /\ Writable
    /\ \/ /\ Stored(capture.clip)
          /\ Go("replace") /\ Works
          /\ UNCHANGED <<temp, kept>>
       \/ DropTemp(Stored(capture.clip)) /\ End
    /\ UNCHANGED <<rows, file, torn, unused, lastStable, command, reader, doomed, excused>>

Unlink(S) == file' = file \ S /\ torn' = torn \ S

Renamed ==
    /\ file' = file \cup {capture.clip}
    /\ temp' = [temp EXCEPT ![capture.clip] = "none"]
    /\ torn' = torn \ {capture.clip}
    /\ doomed' = IF command # Idle /\ capture.clip \in command.paths
                 THEN doomed \cup {capture.clip} ELSE doomed \ {capture.clip}

AfterReplace == IF capture.new THEN "index" ELSE "commit"

\* StagedImageFile::commit.  On FAT a replace that fails may have deleted the file
\* that was there.
Replace ==
    /\ At("replace")
    /\ \/ Renamed /\ Go(AfterReplace) /\ Works /\ UNCHANGED reader
       \/ /\ \/ UNCHANGED <<file, torn, reader>>
             \/ Unlink({capture.clip}) /\ Overtake({capture.clip})
          /\ Go("recover") /\ Fails
          /\ UNCHANGED <<temp, doomed>>
    /\ UNCHANGED <<rows, unused, lastStable, command, excused, kept>>

\* Mutant: the temp is dropped whatever became of the file.
RecoverByDropping ==
    /\ At("recover")
    /\ \/ /\ capture.clip \notin file
          /\ Renamed /\ Go(AfterReplace) /\ Works
       \/ /\ temp' = [temp EXCEPT ![capture.clip] = "none"]
          /\ IF capture.clip \in file THEN Works ELSE Fails
          /\ UNCHANGED <<file, torn, doomed>>
          /\ IF capture.new THEN Go("undo") ELSE End
    /\ UNCHANGED <<rows, unused, lastStable, command, reader, excused, kept>>

\* recover_dest_gone_replace, then the two error paths of commit_with: the temp is
\* dropped only if the file is still there.
RecoverDestGone ==
    /\ At("recover")
    /\ \/ /\ capture.clip \notin file
          /\ Renamed /\ Go(AfterReplace) /\ Works
          /\ UNCHANGED kept
       \/ /\ IF capture.clip \in file THEN DropTemp(FALSE)
             ELSE Fails /\ UNCHANGED <<temp, kept>>
          /\ UNCHANGED <<file, torn, doomed>>
          /\ IF capture.new THEN Go("undo") ELSE End
    /\ UNCHANGED <<rows, unused, lastStable, command, reader, excused>>

\* The transaction commits once the file is in place, or the new file stays with
\* the row as it was.
Commit ==
    /\ At("commit")
    /\ \/ /\ clips' = [clips EXCEPT ![capture.clip] =
                         [@ EXCEPT !.deleted = FALSE, !.expired = FALSE]]
          /\ named' = named \cup {capture.clip}
          /\ excused' = excused \ {capture.clip}
          /\ Go("formats") /\ Works
       \/ /\ UNCHANGED rows
          /\ excused' = IF capture.clip \in named THEN excused ELSE excused \cup {capture.clip}
          /\ End /\ Fails
    /\ UNCHANGED <<files, unused, lastStable, command, reader, doomed, kept>>

\* Mutant: a file whose row could not be written stays behind.
IndexOrDrop ==
    /\ At("index") /\ Writable
    /\ \/ /\ Stored(capture.clip)
          /\ named' = named \cup {capture.clip}
          /\ Go("formats") /\ Works
       \/ /\ UNCHANGED named
          /\ Go("undo")
          /\ IF Stored(capture.clip) THEN Fails ELSE Works
    /\ UNCHANGED <<clips, files, unused, lastStable, command, reader, history>>

\* A new clip: its file is in place and is now named, unless its row is gone.
Index ==
    /\ At("index") /\ Writable
    /\ \/ /\ Stored(capture.clip)
          /\ named' = named \cup {capture.clip}
          /\ Go("formats") /\ Works
       \/ /\ UNCHANGED named
          /\ Go("undoFile")
          /\ IF Stored(capture.clip) THEN Fails ELSE Works
    /\ UNCHANGED <<clips, files, unused, lastStable, command, reader, history>>

\* The new row is deleted again, and then its file if it has one.  A DELETE that
\* fails is ignored: the row stays, without an original.
Undo ==
    /\ At("undo") \/ At("undoFile")
    /\ \/ /\ Writable /\ Works
          /\ DeleteRows({capture.clip})
          /\ Overtake({capture.clip})
       \/ Fails /\ UNCHANGED <<rows, reader>>
    /\ IF At("undo") THEN End
       ELSE capture' = [capture EXCEPT !.pc = "unlink", !.paths = {capture.clip}]
    /\ UNCHANGED <<files, unused, lastStable, command, history>>

\* replace_clip_formats.  If it fails for a new clip, the file's path is looked up,
\* or made up if the lookup fails, the row deleted, and the file unlinked; a row
\* that cannot be deleted stays, with its file.
Formats ==
    /\ At("formats")
    /\ \/ Go("stable") /\ Works
       \/ (IF capture.new THEN Go("path") ELSE End) /\ Fails
    /\ UNCHANGED <<rows, files, unused, lastStable, command, reader, history>>

RollBackPath ==
    /\ At("path")
    /\ \/ capture' = [capture EXCEPT !.pc = "drop", !.paths = {capture.clip} \cap named] /\ Works
       \/ capture' = [capture EXCEPT !.pc = "drop", !.paths = {capture.clip}] /\ Fails
    /\ UNCHANGED <<rows, files, unused, lastStable, command, reader, history>>

RollBackRow ==
    /\ At("drop")
    /\ \/ /\ Writable
          /\ DeleteRows({capture.clip})
          /\ Overtake({capture.clip})
          /\ Go("unlink") /\ Works
       \/ End /\ Fails /\ UNCHANGED <<rows, reader>>
    /\ UNCHANGED <<files, unused, lastStable, command, history>>

SetStable ==
    /\ At("stable")
    /\ lastStable' = capture.image
    /\ Go("retention")
    /\ UNCHANGED <<rows, files, unused, command, reader, history, count>>

----------------------------------------------------------------------------
(* enforce_retention_in_pool                                               *)

\* S are the unpinned clips that are too old or too many.  Images with recognized
\* text stay as a thumbnail; the others go, and everything soft-deleted goes.
Retainable(u) == Shown(u) /\ ~clips[u].pinned /\ ~clips[u].expired
Preserved(S) == { u \in S : Retainable(u) /\ clips[u].text }
Removed(S) == (S \ Preserved(S))
                \cup { u \in Clips : Stored(u) /\ clips[u].deleted /\ ~clips[u].pinned }

Retention(S) ==
    /\ \A u \in S : Retainable(u)
    /\ Writable
    /\ clips' = [u \in Clips |-> IF u \in Removed(S) THEN Gone
                                 ELSE IF u \in Preserved(S)
                                      THEN [clips[u] EXCEPT !.expired = TRUE]
                                      ELSE clips[u]]
    /\ named' = named \ (S \cup Removed(S))
    /\ Overtake(S \cup Removed(S))

\* The files its transaction has left without a row.
Left(S) == (S \cup Removed(S)) \cap named

\* After a capture.  The clip it has stored may be among S: a recapture does not
\* renew last_accessed, by which images age, and created_at is in whole seconds.
CaptureRetention(S) ==
    /\ At("retention")
    /\ Retention(S)
    /\ capture' = [capture EXCEPT !.pc = "unlink", !.paths = Left(S)]
    /\ UNCHANGED <<files, unused, lastStable, command, history, count>>

RetentionFails ==
    /\ At("retention")
    /\ End /\ Fails
    /\ UNCHANGED <<rows, files, unused, lastStable, command, reader, history>>

\* remove_full_image_file: that an unlink fails is logged, and the file stays.
Remove(u) ==
    \/ Unlink({u}) /\ Works /\ UNCHANGED excused
    \/ excused' = excused \cup ({u} \ named) /\ Fails /\ UNCHANGED <<file, torn>>

\* remove_clip_image_files: one file after the other.
CaptureUnlink ==
    /\ At("unlink")
    /\ \/ \E u \in capture.paths : Remove(u) /\ capture' = [capture EXCEPT !.paths = @ \ {u}]
       \/ capture.paths = {} /\ End /\ Works /\ UNCHANGED <<file, torn, excused>>
    /\ UNCHANGED <<rows, temp, unused, lastStable, command, reader, doomed, kept>>

----------------------------------------------------------------------------
(* Commands of the user, retention at the start, and the OCR worker.       *)

Begin(paths, dedup) ==
    /\ command = Idle
    /\ count.commands < MaxCommands
    /\ count' = [count EXCEPT !.commands = @ + 1]
    /\ command' = [pc |-> "unlink", paths |-> paths, dedup |-> dedup]
    /\ Writable

\* apply_retention, and the retention of the start.
ApplyRetention(S) ==
    /\ Begin(Left(S), FALSE)
    /\ Retention(S)
    /\ UNCHANGED <<files, unused, lastStable, capture, history>>

\* delete_clip and forget_captured_clip; clear_unpinned_clips, clear_all_clips,
\* remove_duplicate_clips: each deletes some rows and unlinks their files.
Hard(D) ==
    /\ Begin(D \cap named, TRUE)
    /\ DeleteRows(D)
    /\ Overtake(D)
    /\ UNCHANGED <<files, unused, lastStable, capture, history>>

DeleteClip(u) == Stored(u) /\ Hard({u})

ClearClips(preservePinned) ==
    Hard({ u \in Clips : Stored(u) /\ ~(preservePinned /\ Shown(u) /\ clips[u].pinned) })

RemoveDuplicates == Hard({ u \in Clips : Stored(u) /\ clips[u].deleted /\ ~clips[u].pinned })

SoftDelete(u) ==
    /\ Shown(u)
    /\ Begin({}, TRUE)
    /\ clips' = [clips EXCEPT ![u].deleted = TRUE]
    /\ UNCHANGED <<named, files, unused, lastStable, capture, reader, history>>

TogglePin(u) ==
    /\ Shown(u) /\ Writable
    /\ count.commands < MaxCommands
    /\ count' = [count EXCEPT !.commands = @ + 1]
    /\ clips' = [clips EXCEPT ![u].pinned = ~@]
    /\ UNCHANGED <<named, files, unused, lastStable, capture, command, reader, history>>

\* mark_completed of the OCR worker.
TextRecognized(u) ==
    /\ Shown(u) /\ Writable
    /\ u \in named /\ u \in file /\ ~clips[u].text
    /\ clips' = [clips EXCEPT ![u].text = TRUE]
    /\ UNCHANGED <<named, files, unused, lastStable, capture, command, reader, history, count>>

CommandUnlink ==
    /\ command # Idle
    /\ \/ \E u \in command.paths :
             /\ Remove(u)
             /\ command' = [command EXCEPT !.paths = @ \ {u}]
             /\ UNCHANGED lastStable
       \/ /\ command.paths = {}
          /\ command' = Idle
          /\ lastStable' = IF command.dedup THEN None ELSE lastStable
          /\ Works /\ UNCHANGED <<file, torn, excused>>
    /\ UNCHANGED <<rows, temp, unused, capture, reader, doomed, kept>>

----------------------------------------------------------------------------
(* load_full_image_content, for a paste, a copy or a preview.              *)

ReadRow(u) ==
    /\ reader = Idle \/ reader.pc = "done"
    /\ Shown(u)
    /\ reader' = [pc |-> IF clips[u].expired THEN "done" ELSE "path",
                  clip |-> u, whole |-> u \in (named \cap file) \ torn,
                  overtaken |-> \/ capture # Idle /\ capture.clip = u
                                \/ command # Idle /\ u \in command.paths,
                  result |-> IF clips[u].expired THEN "refused" ELSE "none"]
    /\ UNCHANGED <<rows, files, unused, lastStable, capture, command, history, count>>

\* Without a path or a blob the content of the clips row is left: the thumbnail.
ReadPath ==
    /\ reader.pc = "path"
    /\ reader' = IF reader.clip \in named THEN [reader EXCEPT !.pc = "read"]
                 ELSE [reader EXCEPT !.pc = "done", !.result = "thumbnail"]
    /\ UNCHANGED <<rows, files, unused, lastStable, capture, command, history, count>>

ReadFile ==
    /\ reader.pc = "read"
    /\ reader' = [reader EXCEPT !.pc = "done",
                    !.result = IF reader.clip \in file \ torn THEN "original" ELSE "thumbnail"]
    /\ UNCHANGED <<rows, files, unused, lastStable, capture, command, history, count>>

----------------------------------------------------------------------------

Temps == { u \in Clips : temp[u] # "none" }
Promoted(stuck) == Temps \ (file \cup stuck)

\* sweep_stale_image_temps of the start: a temp without a file becomes the file,
\* and a temp beside a file is removed; the stuck ones stay as they are.
Sweep(stuck) ==
    /\ file' = file \cup Promoted(stuck)
    /\ torn' = torn \cup { u \in Promoted(stuck) : temp[u] = "part" }
    /\ temp' = [u \in Clips |-> IF u \in stuck THEN temp[u] ELSE "none"]
    /\ kept' = stuck

\* The application ends and starts again: an open transaction is rolled back, what
\* was to be unlinked stays.
Restart(stuck) ==
    /\ count.restarts < MaxRestarts
    /\ count' = [count EXCEPT !.restarts = @ + 1,
                             !.failures = IF stuck = {} THEN @ ELSE @ + 1]
    /\ count'.failures <= MaxFailures
    /\ Sweep(stuck)
    /\ excused' = excused \cup (Promoted(stuck) \ named)
          \cup (IF command = Idle THEN {} ELSE command.paths)
          \cup (IF capture = Idle THEN {}
                ELSE capture.paths \cup ({capture.clip} \cap (Clips \ named)))
    /\ capture' = Idle /\ command' = Idle /\ reader' = Idle
    /\ lastStable' = None
    /\ UNCHANGED <<rows, unused, doomed>>

CaptureStep ==
    \/ Lookup \/ Insert \/ Stage \/ Write \/ Update \/ Replace \/ RecoverDestGone \/ Commit
    \/ Index \/ Undo \/ Formats \/ RollBackPath \/ RollBackRow \/ SetStable
    \/ RetentionFails \/ CaptureUnlink

StoreNext ==
    \/ CaptureStep
    \/ \E i \in Hashes : Copy(i)
    \/ \E S \in SUBSET Clips : CaptureRetention(S) \/ ApplyRetention(S)
    \/ \E u \in Clips :
          DeleteClip(u) \/ SoftDelete(u) \/ TogglePin(u) \/ TextRecognized(u) \/ ReadRow(u)
    \/ \E preservePinned \in BOOLEAN : ClearClips(preservePinned)
    \/ RemoveDuplicates \/ CommandUnlink
    \/ ReadPath \/ ReadFile
    \/ \E stuck \in SUBSET Temps : Restart(stuck)

StoreSpec == StoreInit /\ [][StoreNext]_storeVars

----------------------------------------------------------------------------
(* Properties.                                                             *)

\* A row that is committed names an original that is there and complete, or whose
\* only copy is a complete temp, whatever failed and wherever the application ended
\* (apply_existing_image_recapture, sweep_stale_image_temps).  The exception is an
\* expired image that was copied again while a command was still about to unlink
\* its old file: the new one has the same name.
NamedFilesExist ==
    \A u \in named : u \in file \ torn \/ temp[u] = "full" \/ u \in doomed

\* Every file belongs to a row, or somebody is about to name or unlink it; only an
\* end of the application in between, a commit or an unlink that failed, or a
\* promoted temp of a row that has gone leaves one behind.
FilesAreOwned ==
    \A u \in file :
        \/ u \in named \cup excused
        \/ capture # Idle /\ (capture.clip = u \/ u \in capture.paths)
        \/ command # Idle /\ u \in command.paths

\* A temp beside a file belongs to the capture at work: any other temp is the last
\* copy of its original, also after a start, or could not be removed
\* (recover_dest_gone_replace, StagedImageFile::drop).
TempIsLastCopy ==
    \A u \in (Temps \cap file) \ kept : capture # Idle /\ capture.clip = u

\* Nothing is left over in the folder of the images, but for an end or a failed
\* commit, unlink or removal in between: an operation that fails otherwise cleans up
\* (managed_image.rs, StagedImageFile, process_clipboard_snapshot).
NothingLeftOver == FilesAreOwned /\ TempIsLastCopy

\* A paste hands out the thumbnail in place of the original only if the image was
\* not whole when it began, or was deleted, expired, or lost on a FAT volume,
\* while it was at work (load_full_image_content).
ThumbnailOnlyIfOvertaken ==
    reader # Idle /\ reader.result = "thumbnail" =>
        ~reader.whole \/ reader.overtaken

\* Originals are kept, and it is the originals that are pasted.
OriginalsAreKept == NamedFilesExist /\ ThumbnailOnlyIfOvertaken
=============================================================================
