---------------------------- MODULE SearchIndex ----------------------------
(***************************************************************************)
(* The search index, the writers that keep it level with the database, and *)
(* the lists that are read through it (src-tauri/src/search_index.rs;      *)
(* src-tauri/src/commands.rs: get_clips, search_clips and the commands     *)
(* that change a row; src-tauri/src/clipboard.rs: the capture consumer).   *)
(*                                                                         *)
(* A writer changes the database and then sends the index a message; both  *)
(* are steps of their own.  A reader that finds no index builds one from a *)
(* SELECT, and publishes it only if the generation every message bumps is  *)
(* still the one it started from.  Candidates from the index are put in    *)
(* order by a second query and fetched page by page by further ones.       *)
(***************************************************************************)
EXTENDS Naturals, Sequences, SequencesExt, FiniteSets

CONSTANTS
    Clips,        \* clip uuids
    Unreadable,   \* those whose payload cannot be decrypted
    Stored,       \* those in the history at the start
    Ranks,        \* and the places of the rows then
    Limit,        \* rows per page
    MaxChanges,   \* bound on changes to the history
    MaxScans,     \* bound on lists and searches
    Operations,   \* what the writers may do in this instance
    Gone, None    \* no visible row; no index

AllOperations == {"capture", "edit", "annotate", "delete", "softDelete", "sweep",
                  "use", "pin"}

\* A row, reduced to whether its body (content, preview) and its notes (notes,
\* recognized text) contain the words a search looks for.
Docs == [body : BOOLEAN, notes : BOOLEAN]

ASSUME IndexAssumption ==
    /\ IsFiniteSet(Clips)
    /\ Unreadable \subseteq Clips /\ Stored \subseteq Clips
    /\ Ranks \in [Clips -> Nat \ {0}] /\ IsInjective(Ranks)
    /\ Limit \in Nat \ {0} /\ {MaxChanges, MaxScans} \subseteq Nat
    /\ Operations \subseteq AllOperations
    /\ Gone \notin Docs
    /\ None \notin [Clips -> Docs \cup {Gone}]

\* The task that handles copies, and the commands of the user (an OCR result is
\* written like an annotation).
Writers == {"capture", "user"}

Matching(doc) == doc # Gone /\ (doc.body \/ doc.notes)

VARIABLES
    rows,        \* the visible rows of the clips table
    hidden,      \* soft-deleted rows
    unused,      \* uuids not given out yet
    recency,     \* created_at: the place of each row, newest first
    pinned,
    index,       \* SearchIndex.state: None or the documents
    generation,  \* SearchIndex.generation
    jobs,        \* what each writer is doing
    owed,        \* history: rows changed, their message not sent yet
    contested,   \* history: rows whose messages may have crossed
    changes,     \* changes so far
    scans,       \* scans so far
    client       \* the list a user scrolls through

vars == <<rows, hidden, unused, recency, pinned, index, generation, jobs, owed,
          contested, changes, scans, client>>

database == <<rows, hidden, unused, recency, pinned>>

Visible == { c \in Clips : rows[c] # Gone }

\* ORDER BY is_pinned DESC, created_at DESC, uuid DESC
Before(c, d) == IF c \in pinned <=> d \in pinned THEN recency[c] < recency[d] ELSE c \in pinned

\* Rows S in that order.
Place(c, S) == Cardinality({ d \in S : Before(d, c) }) + 1
InOrder(S) == [i \in 1 .. Cardinality(S) |-> CHOOSE c \in S : Place(c, S) = i]

Idle == [op |-> "idle"]
Job == [op : {"capture"}, clip : Clips, body : BOOLEAN, new : BOOLEAN,
        pc : {"write", "formats", "message"}]
         \cup [op : {"edit"}, clip : Clips, body : BOOLEAN, pc : {"write", "message"}]
         \cup [op : {"annotate"}, clip : Clips, notes : BOOLEAN, pc : {"message"}]
         \cup [op : {"delete"}, clip : Clips, pc : {"message"}]
         \cup [op : {"sweep"}, gone : SUBSET Clips, pc : {"message"}]

Client == [mode : {"list", "search"},
           pc : {"idle", "generation", "select", "publish", "match", "order",
                 "fetch"},
           seen : 0 .. 2 * MaxChanges,
           snapshot : [Clips -> Docs \cup {Gone}] \cup {None},
           candidates : SUBSET Clips,
           ids : Seq(Clips), start : Nat,
           page : Seq(Clips), shown : Seq(Clips),
           calm : BOOLEAN, moved : BOOLEAN, ended : BOOLEAN]

\* The type invariant.
TypeOK ==
    /\ rows \in [Clips -> Docs \cup {Gone}]
    /\ hidden \in [Clips -> Docs \cup {Gone}]
    /\ unused \subseteq Clips /\ pinned \subseteq Clips
    /\ recency \in [Clips -> Nat]
    /\ index \in [Clips -> Docs \cup {Gone}] \cup {None}
    /\ generation \in Nat
    /\ jobs \in [Writers -> Job \cup {Idle}]
    /\ owed \subseteq Clips /\ contested \subseteq Clips
    /\ changes \in 0 .. MaxChanges /\ scans \in 0 .. MaxScans
    /\ client \in Client

NoPage == [mode |-> "search", pc |-> "idle", seen |-> 0, snapshot |-> None,
           candidates |-> {}, ids |-> <<>>, start |-> 0, page |-> <<>>,
           shown |-> <<>>, calm |-> TRUE, moved |-> FALSE, ended |-> FALSE]

\* A history of some rows; the index is built on first use.
Init ==
    /\ rows \in [Clips -> {Gone, [body |-> TRUE, notes |-> FALSE],
                           [body |-> FALSE, notes |-> TRUE]}]
    /\ Visible = Stored
    /\ hidden = [c \in Clips |-> Gone]
    /\ unused = Clips \ Visible
    /\ recency = Ranks
    /\ pinned = {}
    /\ index = None /\ generation = 0
    /\ jobs = [w \in Writers |-> Idle]
    /\ owed = {} /\ contested = {}
    /\ changes = 0 /\ scans = 0
    /\ client = NoPage

----------------------------------------------------------------------------
(* Changes to the database.                                                *)

\* A clip becomes the newest.
ToFront(c) == [d \in Clips |-> IF d = c THEN 1
                              ELSE IF recency[d] < recency[c] THEN recency[d] + 1
                              ELSE recency[d]]

\* What a scan under way must know about a change: that there was one, and
\* whether rows that were there have changed places.
Disturb(order) == client' = [client EXCEPT !.calm = FALSE, !.moved = @ \/ order]

Count == changes < MaxChanges /\ changes' = changes + 1

\* Rows S are changed by a writer that still owes the index a message; D of them
\* in a way the message cannot repair.
Owe(S, D) ==
    /\ owed' = owed \cup S
    /\ contested' = contested \cup (S \cap owed) \cup D

Begin(w, op) == jobs[w] = Idle /\ op \in Operations

\* process_clipboard_snapshot looks its content up: a visible row with that body,
\* a soft-deleted one, or none.
CaptureLookUp(c, b) ==
    /\ Begin("capture", "capture")
    /\ Count
    /\ \/ rows[c] # Gone /\ rows[c].body = b
       \/ hidden[c] # Gone /\ hidden[c].body = b
       \/ c \in unused
    /\ jobs' = [jobs EXCEPT !["capture"] =
                  [op |-> "capture", clip |-> c, body |-> b, new |-> c \in unused,
                   pc |-> "write"]]
    /\ UNCHANGED <<database, index, generation, owed, contested, client, scans>>

\* INSERT, or UPDATE of whatever row still has that uuid.  A text update does not
\* write the content again, and a row that comes back from a soft delete has
\* notes no message of a capture carries.
CaptureWrite ==
    LET job == jobs["capture"]
        c   == job.clip
        row == IF job.new THEN [body |-> job.body, notes |-> FALSE]
               ELSE IF rows[c] # Gone THEN rows[c] ELSE hidden[c] IN
    /\ job.op = "capture" /\ job.pc = "write"
    /\ rows' = [rows EXCEPT ![c] = row]
    /\ hidden' = [hidden EXCEPT ![c] = Gone]
    /\ unused' = unused \ {c}
    /\ recency' = IF row = Gone THEN recency ELSE ToFront(c)
    /\ jobs' = [jobs EXCEPT !["capture"].pc = "formats"]
    /\ Owe({c}, IF row = Gone \/ hidden[c] # Gone \/ row.body # job.body
                THEN {c} ELSE {})
    /\ Disturb(~job.new)
    /\ UNCHANGED <<pinned, index, generation, changes, scans>>

\* replace_clip_formats succeeds, or fails: then a new row is deleted again.  The
\* index, which may have been built meanwhile, is not told, and neither does it
\* learn of a row that came back from a soft delete: that one stays contested.
CaptureFormats ==
    /\ jobs["capture"].op = "capture" /\ jobs["capture"].pc = "formats"
    /\ jobs' = [jobs EXCEPT !["capture"].pc = "message"]
    /\ UNCHANGED <<database, index, generation, owed, contested, changes, client, scans>>

\* The rows writer w has changed and not sent its message for.
Owing(w) == IF jobs[w] = Idle THEN {}
            ELSE IF jobs[w].pc = "write" THEN {}
            ELSE IF jobs[w].op = "sweep" THEN jobs[w].gone ELSE {jobs[w].clip}

\* What is still owed once writer w has no message to send any more.
OwedBut(w) == UNION { Owing(v) : v \in Writers \ {w} }

CaptureRollBack ==
    LET job == jobs["capture"] IN
    /\ job.op = "capture" /\ job.pc = "formats"
    /\ jobs' = [jobs EXCEPT !["capture"] = Idle]
    /\ owed' = OwedBut("capture")
    /\ IF job.new
       THEN /\ rows' = [rows EXCEPT ![job.clip] = Gone]
            /\ Disturb(FALSE)
       ELSE UNCHANGED <<rows, client>>
    /\ UNCHANGED <<hidden, unused, recency, pinned, index, generation, contested, changes, scans>>

\* update_clip_text finds a text row, and then replaces its text.
EditCheck(c, b) ==
    /\ Begin("user", "edit")
    /\ Count
    /\ rows[c] # Gone
    /\ jobs' = [jobs EXCEPT !["user"] =
                  [op |-> "edit", clip |-> c, body |-> b, pc |-> "write"]]
    /\ UNCHANGED <<database, index, generation, owed, contested, client, scans>>

EditWrite ==
    LET job == jobs["user"] IN
    /\ job.op = "edit" /\ job.pc = "write"
    /\ IF rows[job.clip] # Gone
       THEN /\ rows' = [rows EXCEPT ![job.clip].body = job.body]
            /\ Disturb(FALSE)
       ELSE UNCHANGED <<rows, client>>
    /\ jobs' = [jobs EXCEPT !["user"].pc = "message"]
    /\ Owe({job.clip}, {})
    /\ UNCHANGED <<hidden, unused, recency, pinned, index, generation, changes, scans>>

\* set_clip_notes, set_clip_ocr_text, and mark_completed of the OCR worker.
Annotate(c, n) ==
    /\ Begin("user", "annotate")
    /\ Count
    /\ rows[c] # Gone
    /\ rows' = [rows EXCEPT ![c].notes = n]
    /\ jobs' = [jobs EXCEPT !["user"] =
                  [op |-> "annotate", clip |-> c, notes |-> n, pc |-> "message"]]
    /\ Owe({c}, {})
    /\ Disturb(FALSE)
    /\ UNCHANGED <<hidden, unused, recency, pinned, index, generation, scans>>

\* delete_clip, hard or soft, and forget_captured_clip.
Delete(c, soft) ==
    /\ Begin("user", IF soft THEN "softDelete" ELSE "delete")
    /\ Count
    /\ rows[c] # Gone
    /\ rows' = [rows EXCEPT ![c] = Gone]
    /\ hidden' = [hidden EXCEPT ![c] = IF soft THEN rows[c] ELSE Gone]
    /\ pinned' = pinned \ {c}
    /\ jobs' = [jobs EXCEPT !["user"] = [op |-> "delete", clip |-> c, pc |-> "message"]]
    /\ Owe({c}, {})
    /\ Disturb(FALSE)
    /\ UNCHANGED <<unused, recency, index, generation, scans>>

\* The commands that change many rows and drop the index: clear_unpinned_clips,
\* clear_all_clips, remove_duplicate_clips, apply_retention, imports.
Sweep(S) ==
    /\ Begin("user", "sweep")
    /\ Count
    /\ S # {} /\ S \subseteq Visible
    /\ rows' = [c \in Clips |-> IF c \in S THEN Gone ELSE rows[c]]
    /\ hidden' = [c \in Clips |-> Gone]
    /\ pinned' = pinned \ S
    /\ jobs' = [jobs EXCEPT !["user"] = [op |-> "sweep", gone |-> S, pc |-> "message"]]
    /\ Owe(S, {})
    /\ Disturb(FALSE)
    /\ UNCHANGED <<unused, recency, index, generation, scans>>

\* mark_clip_used after a paste or copy, and toggle_clip_pin: no text changes, but
\* the order of the rows does.
Use(c) ==
    /\ "use" \in Operations /\ Count
    /\ rows[c] # Gone
    /\ recency' = ToFront(c)
    /\ Disturb(TRUE)
    /\ UNCHANGED <<rows, hidden, unused, pinned, index, generation, jobs, owed, contested, scans>>

Pin(c) ==
    /\ "pin" \in Operations /\ Count
    /\ rows[c] # Gone
    /\ pinned' = IF c \in pinned THEN pinned \ {c} ELSE pinned \cup {c}
    /\ Disturb(TRUE)
    /\ UNCHANGED <<rows, hidden, unused, recency, index, generation, jobs, owed, contested, scans>>

----------------------------------------------------------------------------
(* Messages to the index.  Each bumps the generation, index or no index.   *)

EmptyDoc == [body |-> FALSE, notes |-> FALSE]
Existing(c) == IF index[c] = Gone THEN EmptyDoc ELSE index[c]

\* SearchIndex::upsert: new body, the notes of the document that was there.
Upsert(c, b) == [index EXCEPT ![c] = [body |-> b, notes |-> Existing(c).notes]]

\* SearchIndex::update_notes, update_ocr: nothing for an unknown clip.
UpdateNotes(c, n) == IF index[c] = Gone THEN index ELSE [index EXCEPT ![c].notes = n]

\* SearchIndex::remove
RemoveDoc(c) == [index EXCEPT ![c] = Gone]

Message(w, updated) ==
    /\ jobs[w] # Idle /\ jobs[w].pc = "message"
    /\ generation' = generation + 1
    /\ index' = IF index = None THEN None ELSE updated
    /\ jobs' = [jobs EXCEPT ![w] = Idle]
    /\ owed' = OwedBut(w)
    /\ UNCHANGED <<database, contested, changes, client, scans>>

CaptureMessage ==
    /\ jobs["capture"].op = "capture"
    /\ Message("capture", Upsert(jobs["capture"].clip, jobs["capture"].body))

\* The retention that follows a capture has deleted rows S, none of them the new
\* one, and the whole index goes.
CaptureRetention(S) ==
    /\ jobs["capture"].op = "capture" /\ jobs["capture"].pc = "message"
    /\ "sweep" \in Operations
    /\ S # {} /\ S \subseteq (Visible \ pinned) \ {jobs["capture"].clip}
    /\ rows' = [c \in Clips |-> IF c \in S THEN Gone ELSE rows[c]]
    /\ hidden' = [c \in Clips |-> Gone]
    /\ jobs' = [jobs EXCEPT !["capture"] =
                  [op |-> "sweep", gone |-> S \cup {jobs["capture"].clip},
                   pc |-> "message"]]
    /\ Owe(S, {})
    /\ Disturb(FALSE)
    /\ UNCHANGED <<unused, recency, pinned, index, generation, changes, scans>>

EditMessage ==
    /\ jobs["user"].op = "edit"
    /\ Message("user", Upsert(jobs["user"].clip, jobs["user"].body))

AnnotateMessage ==
    /\ jobs["user"].op = "annotate"
    /\ Message("user", UpdateNotes(jobs["user"].clip, jobs["user"].notes))

DeleteMessage ==
    /\ jobs["user"].op = "delete"
    /\ Message("user", RemoveDoc(jobs["user"].clip))

\* SearchIndex::invalidate
Invalidate(w) == jobs[w].op = "sweep" /\ Message(w, None)

----------------------------------------------------------------------------
(* SearchIndex::ensure_ready                                               *)

Reader(pc) == client.pc = pc
NotReader == <<database, index, generation, jobs, owed, contested, changes, scans>>

LoadGeneration ==
    /\ Reader("generation")
    /\ client' = IF index # None THEN [client EXCEPT !.pc = "match"]
                 ELSE [client EXCEPT !.pc = "select", !.seen = generation]
    /\ UNCHANGED NotReader

\* The SELECT; a row that cannot be decrypted is left out.
Snapshot == [c \in Clips |-> IF c \in Unreadable THEN Gone ELSE rows[c]]

SelectRows ==
    /\ Reader("select")
    /\ client' = [client EXCEPT !.pc = "publish", !.snapshot = Snapshot]
    /\ UNCHANGED NotReader

\* Mutant: the generation is not looked at again before the new index is published.
PublishAnyway ==
    /\ Reader("publish")
    /\ index' = client.snapshot
    /\ contested' = { c \in contested : c \in owed \/ client.snapshot[c] # Snapshot[c] }
    /\ client' = [client EXCEPT !.pc = "match", !.snapshot = None, !.seen = 0]
    /\ UNCHANGED <<database, generation, jobs, owed, changes, scans>>

\* Mutant: a rebuild that lost the race reads the rows again, not the generation.
PublishLater ==
    /\ Reader("publish")
    /\ IF generation = client.seen
       THEN /\ index' = client.snapshot
            /\ contested' = { c \in contested : c \in owed \/ client.snapshot[c] # Snapshot[c] }
            /\ client' = [client EXCEPT !.pc = "match", !.snapshot = None, !.seen = 0]
       ELSE /\ client' = [client EXCEPT !.pc = "select", !.snapshot = None]
            /\ UNCHANGED <<index, contested>>
    /\ UNCHANGED <<database, generation, jobs, owed, changes, scans>>

\* The check and the publication are one step: both are under the write lock.
Publish ==
    /\ Reader("publish")
    /\ IF generation = client.seen
       THEN /\ index' = client.snapshot
            /\ contested' = { c \in contested : c \in owed \/ client.snapshot[c] # Snapshot[c] }
            /\ client' = [client EXCEPT !.pc = "match", !.snapshot = None, !.seen = 0]
       ELSE /\ client' = [client EXCEPT !.pc = "generation", !.snapshot = None,
                                        !.seen = 0]
            /\ UNCHANGED <<index, contested>>
    /\ UNCHANGED <<database, generation, jobs, owed, changes, scans>>

----------------------------------------------------------------------------
(* get_clips and search_clips                                              *)

\* The user opens the list, or types a query: a new scan from the top.
Open(mode) ==
    /\ Reader("idle")
    /\ scans < MaxScans /\ scans' = scans + 1
    /\ client' = [NoPage EXCEPT !.mode = mode,
                                !.pc = IF mode = "search" THEN "generation" ELSE "order",
                                !.calm = \A w \in Writers : jobs[w] = Idle]
    /\ UNCHANGED <<database, index, generation, jobs, owed, contested, changes>>

\* The user scrolls: the next page, from the last row shown.
NextPage ==
    /\ Reader("idle")
    /\ client.shown # <<>> /\ ~client.ended
    /\ client' = [client EXCEPT !.pc = IF client.mode = "search" THEN "generation"
                                       ELSE "order"]
    /\ UNCHANGED NotReader

\* A page is handed over; a short one means that there is nothing more.
Answer(page) ==
    [client EXCEPT !.pc = "idle", !.shown = @ \o page, !.page = <<>>,
                   !.ids = <<>>, !.start = 0, !.candidates = {},
                   !.ended = Len(page) < Limit]

\* SearchIndex::matches, narrowed by ids_for_source_app.  An index that was
\* dropped meanwhile has no matches.
Match ==
    /\ Reader("match")
    /\ LET found == IF index = None THEN {} ELSE { c \in Clips : Matching(index[c]) } IN
       client' = IF found = {} THEN Answer(<<>>)
                 ELSE [client EXCEPT !.pc = "order", !.candidates = found]
    /\ UNCHANGED NotReader

\* Mutant: the next page starts at the number of rows shown.
StartAtOffset(ids) == Len(client.shown)

\* source_start_for_ids: behind the last row shown; a row that is not in the list
\* any more is replaced by the number of rows shown.
LastShown(ids) == { i \in DOMAIN ids : client.shown # <<>> /\ ids[i] = Last(client.shown) }

SourceStart(ids) ==
    IF LastShown(ids) = {} THEN Len(client.shown) ELSE CHOOSE i \in LastShown(ids) : TRUE

\* fetch_ordered_clip_ids.  A search keeps the ids it found; a list keeps only
\* where to start.
Order ==
    /\ Reader("order")
    /\ LET search == client.mode = "search"
           ids == InOrder(IF search THEN Visible \cap client.candidates ELSE Visible) IN
       client' = IF search /\ ids = <<>> THEN Answer(<<>>)
                 ELSE [client EXCEPT !.pc = "fetch", !.start = SourceStart(ids),
                         !.ids = IF search THEN ids ELSE <<>>,
                         !.moved = @ \/ (client.shown # <<>> /\ LastShown(ids) = {})]
    /\ UNCHANGED NotReader

\* fetch_clips_by_id, or LIMIT and OFFSET: the rows of one batch that are there now.
Batch(ids) ==
    { c \in Visible : \E i \in DOMAIN ids :
          client.start < i /\ i <= client.start + Limit /\ ids[i] = c }

\* collect_readable_clips: one batch after the other until the page is full or
\* the source exhausted; rows that cannot be decrypted are skipped.
Fetch ==
    /\ Reader("fetch")
    /\ LET source    == IF client.mode = "search" THEN client.ids ELSE InOrder(Visible)
           page      == client.page \o InOrder(Batch(source) \ Unreadable)
           full      == Len(page) >= Limit
           exhausted == IF client.mode = "search" THEN client.start + Limit >= Len(source)
                        ELSE Cardinality(Batch(source)) < Limit IN
       client' = IF full THEN Answer(SubSeq(page, 1, Limit))
                 ELSE IF exhausted THEN Answer(page)
                 ELSE [client EXCEPT !.page = page, !.start = @ + Limit]
    /\ UNCHANGED NotReader

----------------------------------------------------------------------------

ReaderStep == LoadGeneration \/ SelectRows \/ Publish \/ Match \/ Order \/ Fetch

CaptureStep == CaptureWrite \/ CaptureFormats \/ CaptureRollBack \/ CaptureMessage
                 \/ Invalidate("capture")

UserStep == EditWrite \/ EditMessage \/ AnnotateMessage \/ DeleteMessage
              \/ Invalidate("user")

Next ==
    \/ ReaderStep \/ CaptureStep \/ UserStep
    \/ \E S \in SUBSET Clips : Sweep(S) \/ CaptureRetention(S)
    \/ \E c \in Clips :
          \/ \E b \in BOOLEAN :
                CaptureLookUp(c, b) \/ EditCheck(c, b) \/ Annotate(c, b) \/ Delete(c, b)
          \/ Use(c) \/ Pin(c)
    \/ \E mode \in {"list", "search"} : Open(mode)
    \/ NextPage

Spec == Init /\ [][Next]_vars

\* Tasks are polled until they are done.
Fairness == WF_vars(ReaderStep) /\ WF_vars(CaptureStep) /\ WF_vars(UserStep)
FairSpec == Spec /\ Fairness

----------------------------------------------------------------------------
(* Properties.                                                             *)

\* The index implements the view of SearchView: whatever a reader builds while
\* writers are at work is complete but for the rows they are busy with, as if it
\* had been built in one step.  Rows that cannot be read are no rows to the view.
Readable(f) == [c \in Clips |-> IF c \in Unreadable THEN Gone ELSE f[c]]

View == INSTANCE SearchView WITH
            rows <- Readable(rows),
            view <- IF index = None THEN None ELSE Readable(index),
            owed <- owed, contested <- contested

ImplementsView == View!Spec

\* A row that no writer is busy with, and that no two have changed at once, is
\* found by what it says, and not by what it no longer says: a message is never
\* lost to a rebuild (search_index.rs, ensure_ready).
SettledRowsAreFound ==
    index # None =>
        \A c \in (Visible \ Unreadable) \ (owed \cup contested) : index[c] = rows[c]

\* Scrolling to the end of a list, or of a search, shows each readable row that
\* belongs there once and in order, however many rows between cannot be read, as
\* long as nothing changes meanwhile (collect_readable_clips).
Wanted == { c \in Visible \ Unreadable : client.mode = "search" => Matching(rows[c]) }

WholeScan ==
    Reader("idle") /\ client.ended /\ client.calm /\ contested = {}
        => client.shown = InOrder(Wanted)

\* New copies, edits and deletions never make a search show a row twice: the next page
\* continues behind the last row shown, wherever it is by now.  Unless rows change
\* places, or that row is not found any more.
NoRowTwice ==
    client.mode = "search" /\ ~client.moved =>
        \A i, j \in DOMAIN client.shown : client.shown[i] = client.shown[j] => i = j

\* What is scrolled through is exact: whole when undisturbed, never repeating.
ScansAreExact == WholeScan /\ NoRowTwice

\* A search is answered once the history is left alone: a rebuild that lost a race
\* with a writer is tried again, but not forever.
EverySearchAnswers == (client.pc # "idle") ~> (client.pc = "idle")
=============================================================================
