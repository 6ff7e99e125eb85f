--------------------------- MODULE CaptureHistory ---------------------------
(***************************************************************************)
(* The capture consumer and the history it writes                          *)
(* (src-tauri/src/clipboard.rs: process_clipboard_snapshot,                *)
(* process_clipboard_clear; src-tauri/src/commands.rs: the commands that   *)
(* delete, pin and edit clips).                                            *)
(*                                                                         *)
(* The consumer handles one event at a time, but every await on the way is *)
(* a step of its own: the user's commands and the retries of an earlier    *)
(* forget run between them.  CLIPBOARD_SYNC orders a capture and the       *)
(* forgets; the commands do not take it.  Two globals besides the database *)
(* tie the steps together: LAST_STABLE_HASH (what the previous capture     *)
(* stored) and LAST_ACCEPTED_CAPTURE (what an auto-clear would forget).    *)
(***************************************************************************)
EXTENDS Naturals, Sequences, FiniteSets

CONSTANTS
    Contents,         \* clip identities, by content hash
    Secrets,          \* the credential-like ones
    Images,           \* the image ones
    ForgetAttempts,   \* FORGET_ON_CLEAR_ATTEMPTS
    Window,           \* CLIPBOARD_CLEAR_FORGET_WINDOW, in ticks
    Commands,         \* the user's commands this instance offers
    MaxEvents,        \* bound on copies and clears
    MaxCommands,      \* bound on user commands
    MaxFailures       \* bound on database failures

AllCommands == {"delete", "softDelete", "clearUnpinned", "clearAll", "dedupe",
                "retention", "pin", "edit", "setting"}

ASSUME HistoryAssumption ==
    /\ Secrets \subseteq Contents /\ Images \subseteq Contents
    /\ Secrets \cap Images = {}
    /\ ForgetAttempts \in Nat \ {0} /\ Window \in Nat \ {0}
    /\ Commands \subseteq AllCommands
    /\ MaxEvents \in Nat \ {0} /\ {MaxCommands, MaxFailures} \subseteq Nat

VARIABLES
    rows,         \* the clips table
    stable,       \* LAST_STABLE_HASH, a set with at most one content
    marker,       \* LAST_ACCEPTED_CAPTURE, a set with at most one capture
    events,       \* copies and clears so far
    inbox,        \* the events the consumer has not taken yet, in order
    sync,         \* who holds CLIPBOARD_SYNC: "free", "capture" or "forget"
    pc,           \* where the consumer is
    current,      \* the event it is handling
    found,        \* the uuid its lookup found
    forgets,      \* the forget attempts under way: the consumer's own and retries
    forgetOn,     \* settings.forget_on_clipboard_clear
    userPc,       \* "idle", or "reset": a delete that owes reset_capture_dedup
    commands,     \* commands issued so far
    failures,     \* database failures so far
    heard         \* history: the last foreign copy the consumer was done with

vars == <<rows, stable, marker, events, inbox, sync, pc, current, found,
          forgets, forgetOn, userPc, commands, failures, heard>>

----------------------------------------------------------------------------

Uuids == 1 .. MaxEvents

Row == [uuid : Uuids, hash : Contents, touched : 1 .. MaxEvents,
        pinned : BOOLEAN, deleted : BOOLEAN, expired : BOOLEAN]

\* RecentCapture; credential_like is decided by the content when it is stored.
Capture == [uuid : Uuids, hash : Contents, age : 0 .. Window]

Event == [number : 1 .. MaxEvents, kind : {"copy"}, hash : Contents]
             \cup [number : 1 .. MaxEvents, kind : {"clear"}]

\* A forget attempt: the clear it answers, the capture it took, how many tries
\* are left, and whether it is the consumer's own (took_marker).
Forget == [clear : 1 .. MaxEvents, capture : Capture, left : 1 .. ForgetAttempts,
           own : BOOLEAN, pc : {"sleep", "lock", "lookup", "delete", "cleanup"}]

\* The type invariant: no two rows share a hash or a uuid, and each global holds
\* at most one value.
TypeOK ==
    /\ rows \in SUBSET Row
    /\ \A r, s \in rows : r.hash = s.hash \/ r.uuid = s.uuid => r = s
    /\ stable \in SUBSET Contents /\ Cardinality(stable) <= 1
    /\ marker \in SUBSET Capture /\ Cardinality(marker) <= 1
    /\ events \in 0 .. MaxEvents
    /\ inbox \in Seq(Event)
    /\ sync \in {"free", "capture", "forget"}
    /\ pc \in {"idle", "lock", "gate", "lookup", "write", "formats", "finish",
               "clear", "forgetting"}
    /\ current \in SUBSET Event /\ Cardinality(current) <= 1
    /\ found \in SUBSET Uuids
    /\ forgets \in SUBSET Forget
    /\ forgetOn \in BOOLEAN
    /\ userPc \in {"idle", "reset"}
    /\ commands \in 0 .. MaxCommands /\ failures \in 0 .. MaxFailures
    /\ heard \in [number : 0 .. MaxEvents, hash : SUBSET Contents, age : 0 .. Window,
                  outcome : {"none", "stored", "duplicate", "skipped", "failed"}]

\* Nothing is captured yet, or one text, which the user has soft-deleted since.
Init ==
    /\ rows \in {{}} \cup { {[uuid |-> 1, hash |-> h, touched |-> 1, pinned |-> FALSE,
                             deleted |-> TRUE, expired |-> FALSE]} : h \in Contents \ Images }
    /\ stable = {} /\ marker = {}
    /\ events = Cardinality(rows) /\ inbox = <<>>
    /\ sync = "free" /\ pc = "idle"
    /\ current = {} /\ found = {}
    /\ forgets = {} /\ forgetOn = TRUE
    /\ userPc = "idle" /\ commands = 0 /\ failures = 0
    /\ heard = [number |-> 0, hash |-> {}, age |-> Window, outcome |-> "none"]

WithHash(h) == { r \in rows : r.hash = h }
WithUuid(u) == { r \in rows : r.uuid = u }
Visible(h) == \E r \in WithHash(h) : ~r.deleted

Hash == (CHOOSE e \in current : TRUE).hash
Number == (CHOOSE e \in current : TRUE).number

\* A database call fails (SQLITE_BUSY, disk full).
Fail == failures < MaxFailures /\ failures' = failures + 1

----------------------------------------------------------------------------
(* The listener's events arrive, and time passes.                          *)

Arrive(e) ==
    /\ events < MaxEvents
    /\ events' = events + 1
    /\ inbox' = Append(inbox, e)
    /\ UNCHANGED <<rows, stable, marker, sync, pc, current, found, forgets,
                   forgetOn, userPc, commands, failures, heard>>

Copy(h) == Arrive([number |-> events + 1, kind |-> "copy", hash |-> h])
Clear == Arrive([number |-> events + 1, kind |-> "clear"])

Older(age) == IF age < Window THEN age + 1 ELSE Window

Tick ==
    /\ marker' = { [m EXCEPT !.age = Older(@)] : m \in marker }
    /\ forgets' = { [f EXCEPT !.capture.age = Older(@)] : f \in forgets }
    /\ heard' = [heard EXCEPT !.age = Older(@)]
    /\ UNCHANGED <<rows, stable, events, inbox, sync, pc, current, found,
                   forgetOn, userPc, commands, failures>>

----------------------------------------------------------------------------
(* process_clipboard_snapshot                                              *)

Take ==
    /\ pc = "idle"
    /\ inbox # <<>>
    /\ current' = { Head(inbox) }
    /\ inbox' = Tail(inbox)
    /\ pc' = IF Head(inbox).kind = "copy" THEN "lock" ELSE "clear"
    /\ UNCHANGED <<rows, stable, marker, events, sync, found, forgets,
                   forgetOn, userPc, commands, failures, heard>>

LockCapture ==
    /\ pc = "lock"
    /\ sync = "free"
    /\ sync' = "capture"
    /\ pc' = "gate"
    /\ UNCHANGED <<rows, stable, marker, events, inbox, current, found,
                   forgets, forgetOn, userPc, commands, failures, heard>>

\* Every way out of a capture: the guard is dropped, the event is done with.
Done(outcome) ==
    /\ pc' = "idle" /\ sync' = "free"
    /\ current' = {} /\ found' = {}
    /\ heard' = [number |-> Number, hash |-> {Hash}, age |-> 0, outcome |-> outcome]

NotCapture == <<events, inbox, forgets, forgetOn, userPc, commands>>

\* Cubby's own paste comes back (SelfPasteIgnore says when): nothing changes.
IgnoreOwnPaste ==
    /\ pc = "gate"
    /\ pc' = "idle" /\ sync' = "free"
    /\ current' = {}
    /\ UNCHANGED <<rows, stable, marker, found, failures, heard>>
    /\ UNCHANGED NotCapture

\* Mutant: a skipped copy leaves the clear target in place.
SkipKeepsMarker ==
    /\ pc = "gate"
    /\ Done("skipped")
    /\ UNCHANGED <<rows, stable, marker, failures>>
    /\ UNCHANGED NotCapture

\* The skip gates: sensitive markers, likely secrets, ghost clips, ignored
\* applications.  A skipped copy takes the clear target away.
Skip ==
    /\ pc = "gate"
    /\ marker' = {}
    /\ Done("skipped")
    /\ UNCHANGED <<rows, stable, failures>>
    /\ UNCHANGED NotCapture

\* The same content as the capture before: nothing to store.  An image is
\* stored again when retention has expired its original.
DropDuplicate ==
    /\ pc = "gate"
    /\ Hash \in stable
    /\ Hash \in Images => \A r \in WithHash(Hash) : ~r.expired
    /\ Done("duplicate")
    /\ UNCHANGED <<rows, stable, marker, failures>>
    /\ UNCHANGED NotCapture

\* Otherwise it will be stored; from here on every failure must leave no older
\* clip behind as the clear target.
Accept ==
    /\ pc = "gate"
    /\ \/ Hash \notin stable /\ UNCHANGED failures
       \/ /\ Hash \in stable \cap Images
          /\ \/ (\E r \in WithHash(Hash) : r.expired) /\ UNCHANGED failures
             \/ Fail
    /\ marker' = {}
    /\ pc' = "lookup"
    /\ UNCHANGED <<rows, stable, sync, current, found, heard>>
    /\ UNCHANGED NotCapture

LookUp ==
    /\ pc = "lookup"
    /\ found' = { r.uuid : r \in WithHash(Hash) }
    /\ pc' = "write"
    /\ UNCHANGED <<rows, stable, marker, sync, current, heard, failures>>
    /\ UNCHANGED NotCapture

NewRow == [uuid |-> Number, hash |-> Hash, touched |-> Number,
           pinned |-> FALSE, deleted |-> FALSE, expired |-> FALSE]

\* A failed lookup, encryption, update, staging or insert.  The row of a new image
\* whose original cannot be stored is deleted again, if that works.
CaptureFails ==
    /\ pc \in {"lookup", "write"}
    /\ Fail
    /\ \/ UNCHANGED rows
       \/ /\ pc = "write" /\ Hash \in Images
          /\ found = {} /\ WithHash(Hash) = {}
          /\ rows' = rows \cup {NewRow}
    /\ Done("failed")
    /\ UNCHANGED <<stable, marker>>
    /\ UNCHANGED NotCapture

\* UPDATE ... WHERE uuid: revives the row, or touches nothing if it is gone.
\* An image also writes clip_images, whose foreign key then rejects it.
Update ==
    /\ pc = "write"
    /\ found # {}
    /\ IF Hash \in Images /\ \A r \in rows : r.uuid \notin found
       THEN Done("failed") /\ UNCHANGED rows
       ELSE /\ rows' = { IF r.uuid \in found
                         THEN [r EXCEPT !.touched = Number, !.deleted = FALSE,
                                        !.expired = FALSE]
                         ELSE r : r \in rows }
            /\ pc' = "formats"
            /\ UNCHANGED <<sync, current, found, heard>>
    /\ UNCHANGED <<stable, marker, failures>>
    /\ UNCHANGED NotCapture

\* INSERT of a new row; the unique index on content_hash rejects a second one.
Insert ==
    /\ pc = "write"
    /\ found = {}
    /\ IF WithHash(Hash) # {}
       THEN Done("failed") /\ UNCHANGED rows
       ELSE /\ rows' = rows \cup {NewRow}
            /\ pc' = "formats"
            /\ UNCHANGED <<sync, current, found, heard>>
    /\ UNCHANGED <<stable, marker, failures>>
    /\ UNCHANGED NotCapture

\* replace_clip_formats; then the content counts as stored.
StoreFormats ==
    /\ pc = "formats"
    /\ stable' = { Hash }
    /\ pc' = "finish"
    /\ UNCHANGED <<rows, marker, sync, current, found, heard, failures>>
    /\ UNCHANGED NotCapture

\* A new clip whose formats cannot be stored is deleted again, if that works.
FormatsFail ==
    /\ pc = "formats"
    /\ Fail
    /\ \/ UNCHANGED rows
       \/ found = {} /\ rows' = { r \in rows : r.uuid # Number }
    /\ Done("failed")
    /\ UNCHANGED <<stable, marker>>
    /\ UNCHANGED NotCapture

\* The keep-for clock of enforce_retention_in_pool: last_accessed for an image,
\* which only its insert writes, and created_at, its last copy, for text.
KeepForClock(r) == IF r.hash \in Images THEN r.uuid ELSE r.touched

\* enforce_retention_in_pool: unpinned rows go that are too old by that clock, or
\* overflow by created_at; images with recognized text only lose their
\* original; soft-deleted rows always go.
Retain(age, overflow, withText) ==
    LET past == { r \in rows : /\ ~r.pinned /\ ~r.deleted /\ ~r.expired
                               /\ KeepForClock(r) <= age \/ r.touched <= overflow }
        kept == { r \in past : r.hash \in Images /\ r.hash \in withText }
        gone == (past \ kept) \cup { r \in rows : ~r.pinned /\ r.deleted }
    IN ((rows \ past) \ gone) \cup { [r EXCEPT !.expired = TRUE] : r \in kept }

\* Retention after the capture, then the new clear target.
Finish ==
    /\ pc = "finish"
    /\ \/ \E age, overflow \in 0 .. Number - 1, withText \in {{}, Images} :
            rows' = Retain(age, overflow, withText) /\ UNCHANGED failures
       \/ Fail /\ UNCHANGED rows
    /\ marker' = { [uuid |-> CHOOSE u \in (IF found = {} THEN {Number} ELSE found) : TRUE,
                    hash |-> Hash, age |-> 0] }
    /\ Done("stored")
    /\ UNCHANGED stable
    /\ UNCHANGED NotCapture

----------------------------------------------------------------------------
(* process_clipboard_clear and schedule_forget_retry                       *)

Fresh(m) == m.age < Window

\* The first attempt takes the marker, whatever it is, before any await.  It
\* goes on only with a credential captured inside the window.
TakeMarker ==
    /\ pc = "clear"
    /\ IF ~forgetOn THEN UNCHANGED <<marker, forgets>> /\ pc' = "idle"
       ELSE LET targets == { m \in marker : Fresh(m) /\ m.hash \in Secrets } IN
            /\ marker' = {}
            /\ forgets' = forgets \cup
                 { [clear |-> Number, capture |-> m, left |-> ForgetAttempts,
                    own |-> TRUE, pc |-> "lock"] : m \in targets }
            /\ pc' = IF targets = {} THEN "idle" ELSE "forgetting"
    /\ current' = {}
    /\ UNCHANGED <<rows, stable, events, inbox, sync, found, forgetOn,
                   userPc, commands, failures, heard>>

NotForget == <<events, inbox, current, found, forgetOn, userPc, commands, heard>>

Step(f, to) == forgets' = (forgets \ {f}) \cup { [f EXCEPT !.pc = to] }

\* A retry wakes after its delay and finds the setting still on, or stops.
WakeRetry(f) ==
    /\ f.pc = "sleep"
    /\ IF forgetOn THEN Step(f, "lock") ELSE forgets' = forgets \ {f}
    /\ UNCHANGED <<rows, stable, marker, sync, pc, failures>>
    /\ UNCHANGED NotForget

\* Every way out of an attempt; the consumer was waiting for its own.
EndForget(f) ==
    /\ forgets' = forgets \ {f}
    /\ sync' = "free"
    /\ pc' = IF f.own THEN "idle" ELSE pc

LockForget(f) ==
    /\ f.pc = "lock"
    /\ sync = "free"
    /\ sync' = "forget"
    /\ Step(f, "lookup")
    /\ UNCHANGED <<rows, stable, marker, pc, failures>>
    /\ UNCHANGED NotForget

\* Already gone, pinned or soft-deleted: nothing to forget.
LookUpForget(f) ==
    /\ f.pc = "lookup"
    /\ IF \E r \in WithUuid(f.capture.uuid) : ~r.pinned /\ ~r.deleted
       THEN Step(f, "delete") /\ UNCHANGED <<sync, pc>>
       ELSE EndForget(f)
    /\ UNCHANGED <<rows, stable, marker, failures>>
    /\ UNCHANGED NotForget

\* Mutant: the DELETE trusts the lookup before it.
DeleteUnguarded(f) ==
    /\ f.pc = "delete"
    /\ rows' = rows \ WithUuid(f.capture.uuid)
    /\ Step(f, "cleanup")
    /\ UNCHANGED <<sync, pc, stable, marker, failures>>
    /\ UNCHANGED NotForget

\* The guarded DELETE ... AND is_pinned = 0, committed.
DeleteForgotten(f) ==
    LET gone == { r \in WithUuid(f.capture.uuid) : ~r.pinned }
    IN
    /\ f.pc = "delete"
    /\ rows' = rows \ gone
    /\ IF gone # {} THEN Step(f, "cleanup") /\ UNCHANGED <<sync, pc>> ELSE EndForget(f)
    /\ UNCHANGED <<stable, marker, failures>>
    /\ UNCHANGED NotForget

\* A newer capture keeps its marker; the forgotten hash may be copied again.
CleanUpForget(f) ==
    /\ f.pc = "cleanup"
    /\ marker' = { m \in marker : m.uuid # f.capture.uuid }
    /\ stable' = {}
    /\ EndForget(f)
    /\ UNCHANGED <<rows, failures>>
    /\ UNCHANGED NotForget

\* Mutant: a failed attempt is not tried again.
ForgetGivesUp(f) ==
    /\ f.pc \in {"lookup", "delete"}
    /\ Fail
    /\ EndForget(f)
    /\ UNCHANGED <<rows, stable, marker>>
    /\ UNCHANGED NotForget

\* requeue: put the marker back if nothing newer is there, and try the same
\* capture again while tries are left (next_forget_attempts).
ForgetFails(f) ==
    /\ f.pc \in {"lookup", "delete"}
    /\ Fail
    /\ marker' = IF f.own /\ marker = {} THEN {f.capture} ELSE marker
    /\ forgets' = (forgets \ {f}) \cup
         { [f EXCEPT !.left = n, !.own = FALSE, !.pc = "sleep"] :
             n \in { f.left - 1 } \ {0} }
    /\ sync' = "free"
    /\ pc' = IF f.own THEN "idle" ELSE pc
    /\ UNCHANGED <<rows, stable>>
    /\ UNCHANGED NotForget

----------------------------------------------------------------------------
(* The user's commands.  None of them takes CLIPBOARD_SYNC.                *)

Issue(command) ==
    /\ command \in Commands
    /\ userPc = "idle"
    /\ commands < MaxCommands
    /\ commands' = commands + 1

NotUser == <<marker, events, inbox, sync, pc, current, found, forgets,
             failures, heard>>

\* Deletes commit first and reset the duplicate marker afterwards.
DeleteRows(command, gone) ==
    /\ Issue(command)
    /\ rows' = rows \ gone
    /\ userPc' = "reset"
    /\ UNCHANGED <<stable, forgetOn>>
    /\ UNCHANGED NotUser

Delete == \E r \in rows : DeleteRows("delete", {r})
ClearUnpinned == DeleteRows("clearUnpinned", { r \in rows : ~r.pinned \/ r.deleted })
ClearAll == DeleteRows("clearAll", rows)
Dedupe ==
    LET gone == { r \in rows : ~r.pinned /\ r.deleted }
    IN gone # {} /\ DeleteRows("dedupe", gone)

SoftDelete ==
    \E r \in rows :
      /\ Issue("softDelete")
      /\ rows' = (rows \ {r}) \cup { [r EXCEPT !.deleted = TRUE] }
      /\ userPc' = "reset"
      /\ UNCHANGED <<stable, forgetOn>>
      /\ UNCHANGED NotUser

\* update_clip_text: a hash another clip has is refused.
Edit ==
    \E r \in { x \in rows : x.hash \notin Images }, h \in Contents \ Images :
      /\ Issue("edit")
      /\ \A x \in WithHash(h) : x = r
      /\ rows' = (rows \ {r}) \cup { [r EXCEPT !.hash = h] }
      /\ userPc' = "reset"
      /\ UNCHANGED <<stable, forgetOn>>
      /\ UNCHANGED NotUser

ResetCaptureDedup ==
    /\ userPc = "reset"
    /\ stable' = {}
    /\ userPc' = "idle"
    /\ UNCHANGED <<rows, forgetOn, commands>>
    /\ UNCHANGED NotUser

\* apply_retention, after the user lowered the limits.
ApplyRetention ==
    /\ Issue("retention")
    /\ \E age, overflow \in 0 .. MaxEvents, withText \in {{}, Images} :
         rows' = Retain(age, overflow, withText)
    /\ UNCHANGED <<stable, forgetOn, userPc>>
    /\ UNCHANGED NotUser

TogglePin ==
    \E r \in rows :
      /\ Issue("pin")
      /\ ~r.deleted
      /\ rows' = (rows \ {r}) \cup { [r EXCEPT !.pinned = ~@] }
      /\ UNCHANGED <<stable, forgetOn, userPc>>
      /\ UNCHANGED NotUser

ToggleForget ==
    /\ Issue("setting")
    /\ forgetOn' = ~forgetOn
    /\ UNCHANGED <<rows, stable, userPc>>
    /\ UNCHANGED NotUser

----------------------------------------------------------------------------

Environment == (\E h \in Contents : Copy(h)) \/ Clear \/ Tick

Consumer ==
    \/ Take \/ LockCapture \/ IgnoreOwnPaste \/ Skip \/ DropDuplicate \/ Accept \/ LookUp
    \/ CaptureFails \/ Update \/ Insert \/ StoreFormats \/ FormatsFail \/ Finish
    \/ TakeMarker

ForgetStep(f) ==
    \/ WakeRetry(f) \/ LockForget(f) \/ LookUpForget(f)
    \/ DeleteForgotten(f) \/ CleanUpForget(f) \/ ForgetFails(f)

User ==
    \/ Delete \/ SoftDelete \/ ClearUnpinned \/ ClearAll \/ Dedupe \/ Edit
    \/ ResetCaptureDedup \/ ApplyRetention \/ TogglePin \/ ToggleForget

Next == Environment \/ Consumer \/ (\E f \in forgets : ForgetStep(f)) \/ User

\* The runtime keeps running the consumer and the retry tasks, and the queue of
\* CLIPBOARD_SYNC is fair, so a forget that keeps asking for it gets it.
Fairness ==
    /\ WF_vars(Consumer)
    /\ \A n \in 1 .. MaxEvents :
         SF_vars(\E f \in forgets : f.clear = n /\ ForgetStep(f))

Spec == Init /\ [][Next]_vars

FairSpec == Spec /\ Fairness

----------------------------------------------------------------------------
(* Properties.                                                             *)

\* The rows that a forget attempt is deleting in this step.
Forgotten == { r \in rows : r \notin rows' /\ forgets' # forgets }

\* Between events the clear target is the very last copy that was not Cubby's
\* own paste: a copy that was skipped, failed or superseded never leaves an
\* older clip to be deleted by the auto-clear that follows it.
ClearTargetIsLastCopy ==
    pc = "idle" =>
      \A m \in marker : /\ heard.hash = {m.hash}
                        /\ heard.outcome \in {"stored", "duplicate"}

\* A forget, first attempt or retry, deletes only an unpinned row that was
\* inserted before the clear it answers: never a clip that first landed while
\* the attempt was failing, and never one that was pinned in between.
ForgetsOnlyEarlierUnpinned ==
    [][\A r \in Forgotten :
         /\ ~r.pinned
         /\ \E f \in forgets : f.capture.uuid = r.uuid /\ f.clear > r.uuid]_vars

\* A credential whose clear was answered in time is forgotten even when the
\* database fails a try, unless the user keeps it or turns the feature off.
ClearedSecretIsForgotten ==
    \A u \in Uuids :
      (\E f \in forgets : f.capture.uuid = u)
        ~> (~forgetOn \/ \A r \in WithUuid(u) : r.pinned \/ r.deleted)

(***************************************************************************)
(* What comments of the code say of it and the code does not keep: TLC     *)
(* refutes each of these on the instances of MCCaptureHistory (README,     *)
(* "Where the code and its comments differ").                              *)
(***************************************************************************)

\* "Without this, deleting a clip and copying the same content again is
\* silently dropped" (reset_capture_dedup): a copy is only dropped as a
\* duplicate of a clip the user can see, once the deleting commands are done.
NoSilentDrop ==
    [][heard'.number # heard.number /\ heard'.outcome = "duplicate" /\ userPc = "idle"
         => Visible(Hash)]_vars

\* "An auto-clear only forgets credential-shaped captures" (RecentCapture):
\* what a forget deletes is a credential.
ForgetsOnlySecrets == [][\A r \in Forgotten : r.hash \in Secrets]_vars

\* An original that was just captured again is not "expired again before the user
\* could ever paste it" (adopt_live_image, database.rs): the retention that
\* ends a capture leaves the clip of that capture as it is.
RevivedOriginalSurvives ==
    [][pc = "finish" /\ pc' = "idle"
         => \A r \in WithHash(Hash) : ~r.deleted => r \in rows']_vars

\* "Forget the last capture when the clipboard is cleared shortly afterward"
\* (process_clipboard_clear): a credential that was copied last, inside the
\* window, and that is in history unpinned, is taken by the clear.
TimelyClearForgets ==
    [][pc = "clear" /\ pc' = "idle" /\ forgetOn /\ heard.age < Window
         /\ heard.outcome \in {"stored", "duplicate"}
         => \A h \in heard.hash \cap Secrets :
              \A r \in WithHash(h) : r.pinned \/ r.deleted]_vars
=============================================================================
