------------------------------- MODULE Backup -------------------------------
(***************************************************************************)
(* Export of the history to a bundle, and the imports of a bundle and of   *)
(* another clipboard manager's database, beside a session that goes on     *)
(* (src-tauri/src/backup.rs, ditto_import.rs, path_grant.rs).              *)
(*                                                                         *)
(* An export reads the rows once and then, clip by clip, the rich formats  *)
(* and the original.  An import of a bundle stores the row, the entry of   *)
(* the original and each format by a statement of its own; the other       *)
(* import has one transaction per clip.  Each needs a grant, which a file  *)
(* dialog leaves for one purpose.                                          *)
(***************************************************************************)
EXTENDS Naturals, FiniteSets

CONSTANTS
    Texts, Images,  \* contents
    FormatCount,    \* the rich formats of a text
    DittoClips,     \* what the other database holds
    InitialRows, InitialBundles, None,
    MaxRows, MaxCommands, MaxFailures, MaxCrashes, MaxPicks, MaxClock

ASSUME BackupAssumption ==
    /\ IsFiniteSet(Texts \cup Images) /\ Texts \cap Images = {}
    /\ {FormatCount, MaxRows, MaxCommands, MaxFailures, MaxCrashes, MaxPicks, MaxClock}
           \subseteq Nat
    /\ FormatCount > 0 /\ None \notin Texts \cup Images

Contents == Texts \cup Images
Uuids == 1 .. MaxRows

\* The content hash covers the text and its formats, or the original of an image;
\* without an original, the thumbnail.  n: formats, or whether there is an original.
Parts(content) == IF content \in Images THEN 1 ELSE FormatCount
BundleClip == { c \in [content : Contents, n : 0 .. FormatCount, folder : BOOLEAN] :
                    c.n <= Parts(c.content) }

Gone == [gone |-> TRUE]
Row == [content : Contents, n : 0 .. FormatCount,   \* its content_hash
        parts : 0 .. FormatCount,   \* rows of clip_formats, or of clip_images
        expired : BOOLEAN, folder : BOOLEAN]

\* A history to begin with: uuids given out in order, and every clip whole.
WholeRow(r) ==
    /\ r.n <= Parts(r.content)
    /\ IF r.expired THEN r.content \in Images /\ r.parts = 0 ELSE r.parts = r.n
    /\ r.content \in Images /\ ~r.expired => r.n = 1

ASSUME InputAssumption ==
    /\ DittoClips \in SUBSET BundleClip
    /\ InitialBundles \subseteq {None} \cup SUBSET BundleClip
    /\ \A clips \in SUBSET BundleClip : clips # None
    /\ \A h \in InitialRows :
          /\ h \in [Uuids -> Row \cup {Gone}]
          /\ \E k \in 0 .. MaxRows : \A u \in Uuids : h[u] # Gone <=> u <= k
          /\ \A u \in Uuids : h[u] # Gone => WholeRow(h[u])

Purposes == {"save", "open", "ditto"}

VARIABLES
    rows,       \* clips, by uuid
    files,      \* the uuids whose {uuid}.cubby exists
    used,       \* the uuids given out
    folder,     \* whether the folder exists
    unseen,     \* the imported rows the search index was built without
    bundle,     \* the file the user has chosen
    temp,       \* whether a temp of an export is beside it
    grants,
    exporter, importer,
    overtaken,  \* history: rows edited, expired or removed since the export began
    removed,    \* history: clips taken from the history since the import began
    excused,    \* history: uuids a crash, a failure or an early edit has spoiled
    lost,       \* history: no bundle yet, or it went with a replace nothing could repair
    leftover,   \* history: a crash, or a removal that gave up, has left a temp
    unspent,    \* history: picks that no write has used and no refusal has ended
    count

vars == <<rows, files, used, folder, unseen, bundle, temp, grants, exporter, importer,
          overtaken, removed, excused, lost, leftover, unspent, count>>
database == <<rows, files, used, folder>>
disk == <<bundle, temp>>
history == <<overtaken, removed, excused, lost, leftover, unspent>>

Idle == [pc |-> "idle"]
NoClip == [content |-> None, n |-> 0, folder |-> FALSE]

\* What an export has read of a row, and the records of who is at work.
Seen == [u : Uuids, content : Contents, n : 0 .. FormatCount, expired : BOOLEAN,
         folder : BOOLEAN]
ExportType == [pc : {"clip", "install", "recover"}, seen : SUBSET Seen, todo : SUBSET Seen,
               clips : SUBSET BundleClip, failed : BOOLEAN]
ImportType == [pc : {"check", "insert", "parts", "rollback", "commit"},
               from : {"open", "ditto"}, all : SUBSET BundleClip, todo : SUBSET BundleClip,
               clip : BundleClip \cup {NoClip}, u : 0 .. MaxRows, done : 0 .. FormatCount,
               imported : SUBSET Uuids, errors : BOOLEAN]
CountType == [commands : 0 .. MaxCommands, failures : 0 .. MaxFailures,
              crashes : 0 .. MaxCrashes, picks : 0 .. MaxPicks, clock : 0 .. MaxClock]

\* The type invariant.
TypeOK ==
    /\ rows \in [Uuids -> Row \cup {Gone}]
    /\ files \subseteq Uuids /\ used \in 0 .. MaxRows
    /\ folder \in BOOLEAN /\ unseen \subseteq Uuids
    /\ bundle = None \/ bundle \subseteq BundleClip
    /\ temp \in BOOLEAN
    /\ grants \in [Purposes -> {"none", "fresh", "old"}]
    /\ exporter \in {Idle, [pc |-> "rows"]} \cup ExportType
    /\ importer \in {Idle} \cup ImportType
    /\ overtaken \subseteq Uuids /\ excused \subseteq Uuids
    /\ removed \subseteq [content : Contents, n : 0 .. FormatCount]
    /\ lost \in BOOLEAN /\ leftover \in BOOLEAN /\ unspent \subseteq Purposes
    /\ count \in CountType

Has(u) == rows[u] # Gone
Stored(c) == \E u \in Uuids : Has(u) /\ rows[u].content = c.content /\ rows[u].n = c.n

Init ==
    /\ rows \in InitialRows
    /\ used = Cardinality({ u \in Uuids : Has(u) })
    /\ files = { u \in Uuids : Has(u) /\ rows[u].content \in Images /\ rows[u].parts = 1 }
    /\ folder = (\E u \in Uuids : Has(u) /\ rows[u].folder)
    /\ unseen = {}
    /\ bundle \in InitialBundles /\ temp = FALSE
    /\ grants = [p \in Purposes |-> "none"]
    /\ exporter = Idle /\ importer = Idle
    /\ overtaken = {} /\ removed = {} /\ excused = {} /\ unspent = {}
    /\ lost = (bundle = None) /\ leftover = FALSE
    /\ count = [commands |-> 0, failures |-> 0, crashes |-> 0, picks |-> 0, clock |-> 0]

\* A row changes or goes under an export.
Overtakes(us) == overtaken' = IF exporter = Idle THEN {} ELSE overtaken \cup us

Counts(what, limit) == count[what] < limit /\ count' = [count EXCEPT ![what] = @ + 1]
Fails == Counts("failures", MaxFailures)
Works == UNCHANGED count

----------------------------------------------------------------------------
(* PathGrantTable.                                                         *)

\* The pick commands of the Settings window: a later pick replaces an earlier one.
Pick(p) ==
    /\ Counts("picks", MaxPicks)
    /\ grants' = [grants EXCEPT ![p] = "fresh"]
    /\ unspent' = unspent \cup {p}
    /\ UNCHANGED <<database, unseen, disk, exporter, importer, overtaken, removed, excused,
                   lost, leftover>>

\* A minute passes, or the wall clock is set, in either direction.
Clock(p) ==
    /\ grants[p] # "none"
    /\ Counts("clock", MaxClock)
    /\ grants' = [grants EXCEPT ![p] = IF @ = "fresh" THEN "old" ELSE "fresh"]
    /\ UNCHANGED <<database, unseen, disk, exporter, importer, history>>

\* drop_grants_if_settings_window.
CloseSettings ==
    /\ \E p \in Purposes : grants[p] # "none"
    /\ grants' = [p \in Purposes |-> "none"]
    /\ unspent' = {}
    /\ UNCHANGED <<database, unseen, disk, exporter, importer, overtaken, removed, excused,
                   lost, leftover, count>>

\* Mutant: an expired grant outlives a preview that has refused it.
RefusedOnce(p, consume) ==
    /\ grants' = [grants EXCEPT ![p] = IF consume THEN "none" ELSE @]
    /\ unspent' = unspent \ {p}

\* authorize refuses: an expired grant is dropped on sight, also by a dry run or by
\* another path.
Refused(p, consume) ==
    /\ grants' = [grants EXCEPT ![p] = IF @ = "old" THEN "none" ELSE @]
    /\ unspent' = IF grants[p] = "old" THEN unspent \ {p} ELSE unspent

\* A dry run that is accepted keeps the grant and changes nothing else.
RefusedRequest(p) ==
    /\ grants[p] = "old"
    /\ \E consume \in BOOLEAN : Refused(p, consume)
    /\ UNCHANGED <<database, unseen, disk, exporter, importer, overtaken, removed, excused,
                   lost, leftover, count>>

\* A mutating call that is accepted consumes the grant before it reads or writes.
Authorized(p) ==
    /\ grants[p] = "fresh"
    /\ grants' = [grants EXCEPT ![p] = "none"]
    /\ unspent' = unspent \ {p}

----------------------------------------------------------------------------
(* export_backup.                                                          *)

\* A passphrase that is too short is refused with the grant spent.
StartExport ==
    /\ exporter = Idle
    /\ Authorized("save")
    /\ \/ exporter' = [pc |-> "rows"] /\ overtaken' = {}
       \/ UNCHANGED <<exporter, overtaken>>
    /\ UNCHANGED <<database, unseen, disk, importer, removed, excused, lost, leftover, count>>

Version(u) == [u |-> u, content |-> rows[u].content, n |-> rows[u].parts,
               expired |-> rows[u].expired, folder |-> rows[u].folder]

ReadRows ==
    /\ exporter.pc = "rows"
    /\ \/ /\ LET seen == { Version(u) : u \in { v \in Uuids : Has(v) } }
             IN exporter' = [pc |-> "clip", seen |-> seen, todo |-> seen,
                             clips |-> {}, failed |-> FALSE]
          /\ Works
       \/ exporter' = Idle /\ Fails
    /\ UNCHANGED <<database, unseen, disk, grants, importer, history>>

\* Mutant: a part that cannot be read is left out.
AttachNothing(v, readable) ==
    [failed |-> FALSE,
     n |-> IF ~readable \/ (v.content \in Images /\ v.expired) THEN 0
           ELSE IF v.content \in Images THEN IF v.u \in files THEN 1 ELSE 0
           ELSE IF Has(v.u) THEN rows[v.u].parts ELSE 0]

\* attach_export_full_image and attach_export_formats read what is there now.
Attach(v, readable) ==
    IF v.content \in Images THEN
        IF v.expired THEN [failed |-> FALSE, n |-> 0]
        ELSE IF readable /\ v.u \in files THEN [failed |-> FALSE, n |-> 1]
        ELSE [failed |-> ~(Has(v.u) /\ rows[v.u].expired), n |-> 0]
    ELSE [failed |-> ~readable, n |-> IF Has(v.u) THEN rows[v.u].parts ELSE 0]

ExportClip ==
    /\ exporter.pc = "clip"
    /\ \E v \in exporter.todo, readable \in BOOLEAN :
          LET attached == Attach(v, readable)
              clip == [content |-> v.content, n |-> attached.n, folder |-> v.folder]
          IN /\ exporter' = [exporter EXCEPT
                    !.todo = @ \ {v},
                    !.failed = @ \/ attached.failed,
                    !.clips = IF attached.failed THEN @ ELSE @ \cup {clip}]
             /\ IF readable THEN Works ELSE Fails
    /\ UNCHANGED <<database, unseen, disk, grants, importer, history>>

\* remove_backup_temp gives up after five tries.
RemoveTemp ==
    \/ temp' = leftover /\ UNCHANGED leftover
    \/ temp' = TRUE /\ leftover' = TRUE

\* persist_backup_file_with: the temp is written and flushed ...
WriteBundle ==
    /\ exporter.pc = "clip" /\ exporter.todo = {}
    /\ \/ exporter.failed /\ exporter' = Idle /\ Works /\ UNCHANGED <<temp, leftover>>
       \/ /\ ~exporter.failed
          /\ exporter' = [exporter EXCEPT !.pc = "install"]
          /\ temp' = TRUE /\ Works /\ UNCHANGED leftover
       \/ ~exporter.failed /\ exporter' = Idle /\ Fails /\ RemoveTemp
    /\ UNCHANGED <<database, unseen, bundle, grants, importer, overtaken, removed, excused,
                   lost, unspent>>

Installed ==
    /\ bundle' = exporter.clips /\ lost' = FALSE
    /\ temp' = leftover /\ UNCHANGED leftover
    /\ exporter' = Idle /\ Works

\* ... and takes the place of the old bundle.  On FAT the old one may be gone when
\* that fails.
InstallBundle ==
    /\ exporter.pc = "install"
    /\ \/ Installed
       \/ /\ bundle' \in {bundle, None} /\ Fails
          /\ exporter' = [exporter EXCEPT !.pc = "recover"]
          /\ UNCHANGED <<temp, lost, leftover>>
    /\ UNCHANGED <<database, unseen, grants, importer, overtaken, removed, excused, unspent>>

\* Mutant: the temp is removed whether or not the old bundle is there.
RecoverNothing ==
    /\ exporter.pc = "recover"
    /\ temp' = leftover /\ exporter' = Idle /\ Works
    /\ UNCHANGED <<database, unseen, bundle, grants, importer, history>>

\* recover_dest_gone_replace; if that fails as well, the temp is removed all the same.
RecoverBundle ==
    /\ exporter.pc = "recover"
    /\ \/ bundle = None /\ Installed
       \/ /\ RemoveTemp /\ exporter' = Idle
          /\ lost' = (lost \/ bundle = None)
          /\ IF bundle = None THEN Fails ELSE Works
          /\ UNCHANGED bundle
    /\ UNCHANGED <<database, unseen, grants, importer, overtaken, removed, excused, unspent>>

----------------------------------------------------------------------------
(* import_backup_limited.                                                  *)

Import(p, clips) ==
    /\ importer = Idle
    /\ Authorized(p)
    /\ importer' = [pc |-> "check", from |-> p, all |-> clips, todo |-> clips,
                    clip |-> NoClip, u |-> 0, done |-> 0, imported |-> {}, errors |-> FALSE]
    /\ removed' = {}
    /\ UNCHANGED <<database, unseen, disk, exporter, overtaken, excused, lost, leftover, count>>

\* A file that cannot be read, or opened with the passphrase, changes nothing.
StartImport == bundle # None /\ Import("open", bundle)
StartDitto == Import("ditto", DittoClips)

NextClip(imported, error) ==
    importer' = [importer EXCEPT !.pc = "check", !.clip = NoClip, !.u = 0, !.done = 0,
                                 !.imported = @ \cup imported,
                                 !.errors = @ \/ error]

\* The duplicate check, of soft-deleted rows as well.  If it fails the import ends at
\* once, except for an image of the other database.
CheckClip ==
    /\ importer.pc = "check"
    /\ \E c \in importer.todo :
          \/ /\ importer' = [importer EXCEPT !.todo = @ \ {c},
                               !.pc = IF Stored(c) THEN @ ELSE "insert",
                               !.clip = IF Stored(c) THEN NoClip ELSE c]
             /\ Works /\ UNCHANGED excused
          \/ /\ importer.from = "ditto" /\ c.content \in Images
             /\ importer' = [importer EXCEPT !.todo = @ \ {c}, !.errors = TRUE]
             /\ Fails /\ UNCHANGED excused
          \/ /\ importer.from = "open" \/ c.content \in Texts
             /\ importer' = Idle /\ excused' = excused \cup unseen
             /\ Fails
    /\ UNCHANGED <<database, unseen, disk, grants, exporter, overtaken, removed, lost, leftover,
                   unspent>>

OwnsFile == importer.clip.content \in Images /\ importer.clip.n = 1

\* An unlink that fails is logged, or not even that, and the caller goes on.
Unlink(us) ==
    \E stay \in SUBSET (us \cap files) :
        files' = files \ (us \ stay) /\ excused' = excused \cup stay

Unlocked == importer.pc # "commit"

\* ensure_folder, the encryption and persist_imported_original; a folder that cannot
\* be had is an error and the clip goes without.
PrepareClip ==
    /\ importer.pc = "insert" /\ importer.u = 0
    /\ used < MaxRows
    /\ importer.from = "open"
    /\ \/ /\ importer' = [importer EXCEPT !.u = used + 1]
          /\ folder' = (folder \/ importer.clip.folder)
          /\ Works /\ files' = IF OwnsFile THEN files \cup {used + 1} ELSE files
       \/ /\ importer.clip.folder /\ ~folder
          /\ importer' = [importer EXCEPT !.u = used + 1, !.clip.folder = FALSE, !.errors = TRUE]
          /\ files' = IF OwnsFile THEN files \cup {used + 1} ELSE files
          /\ Fails /\ UNCHANGED folder
       \/ /\ NextClip({}, TRUE) /\ Fails
          /\ folder' = (folder \/ importer.clip.folder)
          /\ UNCHANGED files
    /\ used' = used + 1
    /\ UNCHANGED <<rows, unseen, disk, grants, exporter, history>>

NewRow(parts) ==
    [content |-> importer.clip.content, n |-> importer.clip.n, parts |-> parts,
     expired |-> importer.clip.content \in Images /\ importer.clip.n = 0,
     folder |-> importer.clip.folder]

Insertable == ~Stored(importer.clip) /\ (importer.clip.folder => folder)

\* The row.  It fails if the clip has been captured, or the folder deleted, since.
InsertRow ==
    /\ importer.pc = "insert" /\ importer.u # 0
    /\ \/ /\ Insertable
          /\ rows' = [rows EXCEPT ![importer.u] = NewRow(0)]
          /\ importer' = [importer EXCEPT !.pc = "parts"]
          /\ unseen' = unseen \cup {importer.u}
          /\ Works /\ UNCHANGED <<files, excused>>
       \/ /\ Unlink({importer.u})
          /\ NextClip({}, TRUE)
          /\ IF Insertable THEN Fails ELSE Works
          /\ UNCHANGED <<rows, unseen>>
    /\ UNCHANGED <<used, folder, disk, grants, exporter, overtaken, removed, lost, leftover,
                   unspent>>

\* index_imported_original, or the next format of persist_imported_formats: a row that
\* has been deleted takes none.
StorePart ==
    /\ importer.pc = "parts"
    /\ LET u == importer.u
           more == importer.done < importer.clip.n
       IN \/ ~more /\ NextClip({u}, FALSE) /\ Works /\ UNCHANGED rows
          \/ /\ more /\ Has(u)
             /\ rows' = [rows EXCEPT ![u].parts = @ + 1]
             /\ importer' = [importer EXCEPT !.done = @ + 1]
             /\ Works
          \/ /\ more
             /\ importer' = [importer EXCEPT !.pc = "rollback"]
             /\ IF Has(u) THEN Fails ELSE Works
             /\ UNCHANGED rows
    /\ UNCHANGED <<files, used, folder, unseen, disk, grants, exporter, history>>

\* Mutant: the row stays.
RollBackNothing ==
    /\ importer.pc = "rollback"
    /\ files' = files \ {importer.u}
    /\ NextClip({}, TRUE) /\ Works
    /\ UNCHANGED <<rows, used, folder, unseen, disk, grants, exporter, history>>

\* The row is deleted again, and then the file; a row that cannot be deleted keeps it.
RollBack ==
    /\ importer.pc = "rollback"
    /\ LET u == importer.u
       IN \/ /\ rows' = [rows EXCEPT ![u] = Gone]
             /\ Unlink({u})
             /\ Overtakes({u}) /\ Works
          \/ /\ excused' = excused \cup {u}
             /\ Fails /\ UNCHANGED <<rows, files, overtaken>>
    /\ NextClip({}, TRUE)
    /\ UNCHANGED <<used, folder, unseen, disk, grants, exporter, removed, lost, leftover, unspent>>

\* The search index is invalidated, and rebuilt on its next use.
EndImport ==
    /\ importer.pc = "check" /\ importer.todo = {}
    /\ importer' = Idle
    /\ unseen' = IF importer.imported # {} THEN {} ELSE unseen
    /\ UNCHANGED <<database, disk, grants, exporter, history, count>>

----------------------------------------------------------------------------
(* import_from_ditto: a transaction per clip, which locks the database.    *)

DittoClip ==
    /\ importer.pc = "insert" /\ importer.from = "ditto"
    /\ used < MaxRows
    /\ used' = used + 1
    /\ \/ /\ ~Stored(importer.clip)
          /\ importer' = [importer EXCEPT !.pc = "commit", !.u = used + 1]
          /\ files' = IF OwnsFile THEN files \cup {used + 1} ELSE files
          /\ Works
       \/ /\ NextClip({}, TRUE) /\ UNCHANGED files
          /\ IF Stored(importer.clip) THEN Works ELSE Fails
    /\ UNCHANGED <<rows, folder, unseen, disk, grants, exporter, history>>

CommitDitto ==
    /\ importer.pc = "commit"
    /\ \/ /\ rows' = [rows EXCEPT ![importer.u] = NewRow(importer.clip.n)]
          /\ unseen' = unseen \cup {importer.u}
          /\ NextClip({importer.u}, FALSE)
          /\ Works /\ UNCHANGED <<files, excused>>
       \/ /\ Unlink({importer.u})
          /\ NextClip({}, TRUE)
          /\ Fails /\ UNCHANGED <<rows, unseen>>
    /\ UNCHANGED <<used, folder, disk, grants, exporter, overtaken, removed, lost, leftover,
                   unspent>>

----------------------------------------------------------------------------
(* The session beside them.                                                *)

Command == Unlocked /\ Counts("commands", MaxCommands)
Removes(us) ==
    removed' = IF importer = Idle THEN {}
               ELSE removed \cup { [content |-> rows[u].content, n |-> rows[u].n] : u \in us }

Capture(content) ==
    LET clip == [content |-> content, n |-> Parts(content)]
        u == used + 1
    IN /\ Command
       /\ used < MaxRows /\ ~Stored(clip)
       /\ rows' = [rows EXCEPT ![u] = [content |-> content, n |-> clip.n, parts |-> clip.n,
                                       expired |-> FALSE, folder |-> FALSE]]
       /\ files' = IF content \in Images THEN files \cup {u} ELSE files
       /\ used' = u
       /\ UNCHANGED <<folder, unseen, disk, grants, exporter, importer, history>>

\* Rows go with their entries, and the files these name.
Delete(us) ==
    /\ Command
    /\ us # {} /\ \A u \in us : Has(u)
    /\ rows' = [u \in Uuids |-> IF u \in us THEN Gone ELSE rows[u]]
    /\ Unlink({ u \in us : rows[u].content \in Images /\ rows[u].parts = 1 })
    /\ Overtakes(us) /\ Removes(us)
    /\ UNCHANGED <<used, folder, unseen, disk, grants, exporter, importer, lost, leftover, unspent>>

\* edit_clip_content makes a plain text of the row.  Nothing keeps the user from the row
\* of an import whose formats are still to come: they then go to the new text.
Edit(u, content) ==
    /\ Command
    /\ Has(u) /\ rows[u].content \in Texts
    /\ ~Stored([content |-> content, n |-> 0])
    /\ rows' = [rows EXCEPT ![u].content = content, ![u].n = 0, ![u].parts = 0]
    /\ Overtakes({u}) /\ Removes({u})
    /\ excused' = IF importer # Idle /\ importer.u = u THEN excused \cup {u} ELSE excused
    /\ UNCHANGED <<files, used, folder, unseen, disk, grants, exporter, importer, lost,
                   leftover, unspent>>

\* apply_retention: the original of an image goes.
Expire(u) ==
    /\ Command
    /\ Has(u) /\ rows[u].content \in Images /\ rows[u].parts = 1
    /\ rows' = [rows EXCEPT ![u].parts = 0, ![u].expired = TRUE]
    /\ Unlink({u})
    /\ Overtakes({u})
    /\ UNCHANGED <<used, folder, unseen, disk, grants, exporter, importer, removed, lost, leftover,
                   unspent>>

\* delete_folder takes the clips out first.
DeleteFolder ==
    /\ Command
    /\ folder /\ folder' = FALSE
    /\ rows' = [u \in Uuids |-> IF Has(u) THEN [rows[u] EXCEPT !.folder = FALSE] ELSE Gone]
    /\ UNCHANGED <<files, used, unseen, disk, grants, exporter, importer, history>>

\* The application ends and starts again.  The temp of an export stays.
Crash ==
    /\ exporter # Idle \/ importer # Idle
    /\ Counts("crashes", MaxCrashes)
    /\ exporter' = Idle /\ importer' = Idle
    /\ excused' = IF importer # Idle /\ importer.u # 0 THEN excused \cup {importer.u} ELSE excused
    /\ lost' = (lost \/ bundle = None) /\ leftover' = (leftover \/ temp)
    /\ unseen' = {} /\ grants' = [p \in Purposes |-> "none"] /\ unspent' = {}
    /\ UNCHANGED <<database, disk, overtaken, removed>>

Export == StartExport \/ ReadRows \/ ExportClip \/ WriteBundle \/ InstallBundle \/ RecoverBundle
ImportStep == \/ StartImport \/ StartDitto \/ CheckClip \/ PrepareClip \/ InsertRow
              \/ StorePart \/ RollBack \/ EndImport \/ DittoClip \/ CommitDitto

Next ==
    \/ \E p \in Purposes : Pick(p) \/ Clock(p) \/ RefusedRequest(p)
    \/ CloseSettings
    \/ Export \/ ImportStep
    \/ \E content \in Contents : Capture(content)
    \/ \E us \in SUBSET Uuids : Delete(us)
    \/ \E u \in Uuids, content \in Texts : Edit(u, content)
    \/ \E u \in Uuids : Expire(u)
    \/ DeleteFolder \/ Crash

Spec == Init /\ [][Next]_vars

----------------------------------------------------------------------------
(* Properties.                                                             *)

\* A bundle that is written holds every clip the history held when its rows were
\* read, with all of its formats and its original, except where the clip was edited,
\* expired or removed while the export went on: then it may be the old text without
\* its formats, which no version of the clip was (export_backup: "A successful export
\* is a complete export").
ExportIsComplete ==
    exporter.pc = "install" =>
        \A v \in exporter.seen : \E c \in exporter.clips :
            /\ c.content = v.content /\ c.folder = v.folder
            /\ c.n >= v.n \/ v.u \in overtaken

\* An import that ends without an error leaves every clip of the bundle in the
\* history, unless it was taken from it meanwhile (import_backup).
RestoreBringsBack ==
    importer.pc = "check" /\ importer.todo = {} /\ ~importer.errors =>
        \A c \in importer.all :
            Stored(c) \/ [content |-> c.content, n |-> c.n] \in removed

InFlight(u) == importer # Idle /\ importer.u = u

\* A row holds all that its hash was made from, and a file of an original has its
\* row, except for the clip an import is at and what a crash there, a rollback that
\* failed or an edit of a row without its formats yet has left: a later import takes
\* such a row for a duplicate (import_backup_limited, import_image_clip).
NothingHalfImported ==
    \A u \in Uuids \ excused : InFlight(u) \/
        /\ Has(u) => rows[u].expired \/ rows[u].parts = rows[u].n
        /\ u \in files <=> Has(u) /\ rows[u].content \in Images /\ ~rows[u].expired

\* Once an import is over, the search index knows its rows, unless it has ended at
\* once for a duplicate check that failed: the rows stored until then are not found.
ImportedAreFound ==
    importer = Idle => \A u \in unseen \ excused : ~Has(u)

\* An import that is over has done all of what it says, and nothing by halves.
ImportsAreWhole == RestoreBringsBack /\ NothingHalfImported /\ ImportedAreFound

\* When no export is under way, the bundle the user had, or has written first, is there,
\* as it was or replaced, and no temp beside it that a crash, or a removal that gave up,
\* has not left; a replace on FAT that fails twice, or ends in a crash, excepted
\* (persist_backup_file_with).
BundleKept ==
    exporter = Idle => (lost \/ bundle # None) /\ (temp => leftover)

\* Each write or import uses up a pick of its own, one the user has not left and
\* that no earlier request has found expired (PathGrantTable::authorize).
EveryWriteWasPicked ==
    [][ /\ exporter = Idle /\ exporter' # Idle => "save" \in unspent
        /\ importer = Idle /\ importer' # Idle => importer'.from \in unspent ]_vars
=============================================================================
