-------------------------- MODULE CaptureListener --------------------------
(***************************************************************************)
(* The clipboard listener thread, its supervisor and its watchdog          *)
(* (src-tauri/src/clipboard.rs: run_native_listener, run_listener_session, *)
(* capture_clipboard_update, spawn_listener_watchdog).                     *)
(*                                                                         *)
(* Other applications change the clipboard at any moment, between any two  *)
(* reads of the listener.  A WM_CLIPBOARDUPDATE carries no content: it     *)
(* only says that something changed, and it may be lost.  A capture is a   *)
(* run of separate reads, each of whatever is on the clipboard then, and   *)
(* only the sequence number tells whether they belong to one copy.         *)
(*                                                                         *)
(* Remote Desktop polling (RdpPollingState) is not part of this module:    *)
(* every copy here advances the sequence number.                           *)
(***************************************************************************)
EXTENDS Naturals, Sequences

CONSTANTS
    Kinds,          \* kinds of copies the other applications make
    BindAttempts,   \* MAX_SEQUENCE_BIND_ATTEMPTS
    ReadAttempts,   \* the 10 attempts of materialize_with_sequence_guard
    MaxDeferrals,   \* MAX_DEFERRALS_PER_SEQUENCE
    StaleAfter,     \* STALE_LISTENER_AFTER, in ticks
    MaxCopies,      \* bound on clipboard changes after the start
    MaxFailures     \* bound on monitor failures and deaf spells

AllKinds == {"text", "secret", "empty", "emptyText", "file", "hybrid", "private"}

ASSUME ListenerAssumption ==
    /\ Kinds \subseteq AllKinds
    /\ {BindAttempts, ReadAttempts, MaxDeferrals, StaleAfter} \subseteq Nat \ {0}
    /\ {MaxCopies, MaxFailures} \subseteq Nat

VARIABLES
    copies,         \* what each clipboard sequence number held; the last is live
    notifications,  \* WM_CLIPBOARDUPDATE messages waiting in the monitor
    deaf,           \* the monitor's window no longer receives updates
    slot,           \* LISTENER_SHUTDOWN holds the monitor's shutdown handle
    closing,        \* the handle was dropped: the monitor will see a shutdown
    pc,             \* where the listener thread is
    firstSession,   \* run_native_listener: first_session
    captureState,   \* CAPTURE_STATE
    handled,        \* LAST_HANDLED_SEQUENCE
    sinceEvent,     \* ticks since LAST_CLIPBOARD_EVENT_UNIX_MS, up to StaleAfter
    deferred,       \* DEFERRED_SEQUENCE and DEFERRED_ATTEMPTS
    capture,        \* the capture in progress
    watchdogPc,     \* "sleep", or "request": decided to restart the listener
    failures,       \* how many failures and deaf spells there have been
    queued,         \* history: the events sent to the consumer, in order
    writtenOff,     \* history: sequences given up on, with a recorded error
                    \* or, for an unreadable file-backed image, a logged one
    baseline        \* history: the sequence the first session started from

environment == <<copies, notifications, deaf, failures>>
session == <<slot, closing, firstSession, captureState>>
health == <<handled, sinceEvent, deferred>>
history == <<queued, writtenOff, baseline>>

vars == <<copies, notifications, deaf, slot, closing, pc, firstSession,
          captureState, handled, sinceEvent, deferred, capture, watchdogPc,
          failures, queued, writtenOff, baseline>>

----------------------------------------------------------------------------

Live == Len(copies)
LiveKind == copies[Live]

Sequences == 1 .. MaxCopies + 1

\* clipboard_has_supported_format: some text or image format is advertised.
Supported(kind) == kind \in {"text", "secret", "emptyText", "hybrid"}

\* classify_file_payload: a file list without an image is never history.
FileOnly(kind) == kind = "file"

\* clipboard_is_cleared: no formats at all, or only empty text.
Blank(kind) == kind \in {"empty", "emptyText"}

\* What one read attempt may return for the copy it finds: the owner may hold
\* the clipboard locked, or never answer.
ReadOutcomes(kind) ==
    IF kind \in {"text", "secret", "hybrid"}
    THEN {"captured", "transient", "unresponsive"}
    ELSE IF kind = "emptyText" THEN {"miss", "transient", "unresponsive"}
    ELSE {"miss"}

\* A capture: the sequence it is bound to, the bind and read attempts made,
\* the formats and markers found, its verdict, where to return to, and (for
\* the properties only) the sequences its reads really came from.
Captures ==
    [expected : 0 .. MaxCopies + 1, binds : 0 .. BindAttempts - 1,
     reads : 0 .. ReadAttempts, formats : AllKinds, sensitive : BOOLEAN,
     verdict : {"none", "captured", "transient", "unresponsive", "miss",
                "cleared", "ignored"},
     resume : {"listen", "loop"}, seen : SUBSET Sequences]

Pcs == {"start", "create", "catchup", "listen", "loop", "recv", "exit",
        "bind", "formats", "markers", "markersCheck", "supported",
        "materialize", "read", "readCheck", "settle", "confirm", "send",
        "stopped"}

\* The type invariant: bounded attempts, and only sequences that exist.
TypeOK ==
    /\ copies \in Seq(AllKinds) /\ Len(copies) \in Sequences
    /\ notifications \in 0 .. MaxCopies
    /\ {deaf, slot, closing, firstSession} \subseteq BOOLEAN
    /\ pc \in Pcs
    /\ captureState \in {"stopped", "listening", "restarting"}
    /\ handled \in 0 .. MaxCopies + 1
    /\ sinceEvent \in 0 .. StaleAfter
    /\ deferred \in [sequence : 0 .. MaxCopies + 1, attempts : 0 .. MaxDeferrals]
    /\ capture \in Captures
    /\ watchdogPc \in {"sleep", "request"}
    /\ failures \in 0 .. MaxFailures
    /\ queued \in Seq([sequence : Sequences, cleared : BOOLEAN,
                       sensitive : BOOLEAN, seen : SUBSET Sequences])
    /\ writtenOff \subseteq Sequences
    /\ baseline \in 0 .. MaxCopies + 1

NoCapture ==
    [expected |-> 0, binds |-> 0, reads |-> 0, formats |-> "empty",
     sensitive |-> FALSE, verdict |-> "none", resume |-> "loop", seen |-> {}]

Init ==
    /\ copies \in { <<k>> : k \in Kinds }
    /\ notifications = 0
    /\ deaf = FALSE /\ slot = FALSE /\ closing = FALSE
    /\ pc = "start"
    /\ firstSession = TRUE
    /\ captureState = "stopped"
    /\ handled = 0
    /\ sinceEvent = StaleAfter
    /\ deferred = [sequence |-> 0, attempts |-> 0]
    /\ capture = NoCapture
    /\ watchdogPc = "sleep"
    /\ failures = 0
    /\ queued = <<>>
    /\ writtenOff = {}
    /\ baseline = 0

----------------------------------------------------------------------------
(* The environment.                                                        *)

MonitorOpen == pc \notin {"start", "create", "stopped"}

\* Another application changes the clipboard; Windows posts an update to the
\* monitor's window if there is one and it can still hear.
Copy(kind) ==
    /\ Live <= MaxCopies
    /\ copies' = Append(copies, kind)
    /\ notifications' =
         IF MonitorOpen /\ ~deaf THEN notifications + 1 ELSE notifications
    /\ UNCHANGED <<deaf, pc, capture, watchdogPc, failures, session, health, history>>

\* Sleep/resume or an Explorer restart: the window lives on but hears nothing,
\* and what was posted to it is gone.
GoDeaf ==
    /\ MonitorOpen /\ ~deaf
    /\ failures < MaxFailures
    /\ failures' = failures + 1
    /\ deaf' = TRUE
    /\ notifications' = 0
    /\ UNCHANGED <<copies, pc, capture, watchdogPc, session, health, history>>

Least(a, b) == IF a < b THEN a ELSE b

Tick ==
    /\ sinceEvent' = Least(sinceEvent + 1, StaleAfter)
    /\ UNCHANGED <<environment, pc, handled, deferred, capture, watchdogPc, session, history>>

----------------------------------------------------------------------------
(* spawn_listener_watchdog                                                 *)

WatchdogDecides ==
    /\ watchdogPc = "sleep"
    /\ captureState = "listening"
    /\ Live # handled
    /\ sinceEvent >= StaleAfter
    /\ watchdogPc' = "request"
    /\ UNCHANGED <<environment, pc, capture, session, health, history>>

\* request_listener_restart: take the handle out of the slot and drop it.
WatchdogRequests ==
    /\ watchdogPc = "request"
    /\ watchdogPc' = "sleep"
    /\ slot' = FALSE
    /\ closing' = (closing \/ slot)
    /\ UNCHANGED <<environment, pc, firstSession, captureState, capture, health,
                   history>>

----------------------------------------------------------------------------
(* run_native_listener: one supervised session after another.              *)

Start ==
    /\ pc = "start"
    /\ captureState' = "restarting"
    /\ pc' = "create"
    /\ UNCHANGED <<environment, slot, closing, firstSession, health, capture,
                   watchdogPc, history>>

\* Monitor::new, and its shutdown handle into LISTENER_SHUTDOWN.
CreateMonitor ==
    /\ pc = "create"
    /\ slot' = TRUE
    /\ closing' = FALSE
    /\ deaf' = FALSE
    /\ pc' = "catchup"
    /\ UNCHANGED <<copies, notifications, failures, firstSession, captureState,
                   health, capture, watchdogPc, history>>

CreateFails ==
    /\ pc = "create"
    /\ failures < MaxFailures
    /\ failures' = failures + 1
    /\ pc' = "start"
    /\ UNCHANGED <<copies, notifications, deaf, session, health, capture,
                   watchdogPc, history>>

\* note_clipboard_event
Note(sequence) ==
    /\ handled' = sequence
    /\ sinceEvent' = 0

BeginCapture(resume) ==
    /\ capture' = [NoCapture EXCEPT !.resume = resume]
    /\ pc' = "bind"

\* Mutants: a restarted session starts at the live sequence like the first one
\* does, or waits for a notification of the copy that was missed.
CatchUpSkips ==
    /\ pc = "catchup"
    /\ firstSession' = FALSE
    /\ Note(Live)
    /\ baseline' = IF firstSession THEN Live ELSE baseline
    /\ pc' = "listen"
    /\ UNCHANGED <<environment, slot, closing, captureState, deferred, capture,
                   watchdogPc, queued, writtenOff>>

CatchUpWaits ==
    /\ pc = "catchup"
    /\ firstSession' = FALSE
    /\ IF firstSession
       THEN Note(Live) /\ baseline' = Live
       ELSE UNCHANGED <<handled, sinceEvent, baseline>>
    /\ pc' = "listen"
    /\ UNCHANGED <<environment, slot, closing, captureState, deferred, capture,
                   watchdogPc, queued, writtenOff>>

\* The first session starts at the live sequence; a later one first captures
\* what the last one missed or deferred.
CatchUp ==
    /\ pc = "catchup"
    /\ firstSession' = FALSE
    /\ \/ /\ firstSession /\ Note(Live) /\ baseline' = Live
          /\ pc' = "listen" /\ UNCHANGED capture
       \/ /\ ~firstSession /\ Live # handled /\ BeginCapture("listen")
          /\ UNCHANGED <<handled, sinceEvent, baseline>>
       \/ /\ ~firstSession /\ Live = handled /\ pc' = "listen"
          /\ UNCHANGED <<capture, handled, sinceEvent, baseline>>
    /\ UNCHANGED <<environment, slot, closing, captureState, deferred,
                   watchdogPc, queued, writtenOff>>

Listen ==
    /\ pc = "listen"
    /\ captureState' = "listening"
    /\ pc' = "loop"
    /\ UNCHANGED <<environment, slot, closing, firstSession, health, capture,
                   watchdogPc, history>>

\* run_listener_session checks the slot before it blocks...
CheckSlot ==
    /\ pc = "loop"
    /\ pc' = IF slot THEN "recv" ELSE "exit"
    /\ UNCHANGED <<environment, session, health, capture, watchdogPc, history>>

\* ...and then takes a notification, a shutdown message or an error.
ReceiveNotification ==
    /\ pc = "recv"
    /\ notifications > 0
    /\ notifications' = notifications - 1
    /\ BeginCapture("loop")
    /\ UNCHANGED <<copies, deaf, failures, session, health, watchdogPc, history>>

ReceiveShutdown ==
    /\ pc = "recv"
    /\ closing
    /\ pc' = "exit"
    /\ UNCHANGED <<environment, session, health, capture, watchdogPc, history>>

ReceiveFails ==
    /\ pc = "recv"
    /\ failures < MaxFailures
    /\ failures' = failures + 1
    /\ pc' = "exit"
    /\ UNCHANGED <<copies, notifications, deaf, session, health, capture,
                   watchdogPc, history>>

\* Clear the slot, drop the monitor and its messages, go round after a delay.
ExitSession ==
    /\ pc = "exit"
    /\ slot' = FALSE
    /\ closing' = FALSE
    /\ notifications' = 0
    /\ deaf' = FALSE
    /\ pc' = "start"
    /\ UNCHANGED <<copies, failures, firstSession, captureState, health, capture,
                   watchdogPc, history>>

----------------------------------------------------------------------------
(* capture_clipboard_update and capture_one_bound_sequence                 *)

\* What a step of the capture leaves alone.
CaptureOnly == UNCHANGED <<environment, session, watchdogPc>>
ReadOnly == CaptureOnly /\ UNCHANGED <<health, history>>

\* The locals of the capture go out of scope.
Return == pc' = capture.resume /\ capture' = NoCapture

\* SequenceBindError::Changed: bind again to the newer copy.  The last attempt
\* leaves the live sequence to its own notification, and only tells the
\* watchdog that the listener is alive.
Rebind ==
    LET more == capture.binds + 1 < BindAttempts
    IN
    /\ IF more
       THEN /\ capture' = [capture EXCEPT !.binds = @ + 1]
            /\ pc' = "bind"
            /\ UNCHANGED sinceEvent
       ELSE Return /\ sinceEvent' = 0
    /\ UNCHANGED <<handled, deferred, history>>

\* Mutant: the budget is never spent.
DeferForever ==
    /\ deferred' = [sequence |-> capture.expected, attempts |-> 1]
    /\ UNCHANGED <<handled, sinceEvent, history>>

\* deferral_decision and defer_or_exhaust_capture: the sequence stays unhandled
\* for the next session to retry, until its budget is spent.
DeferOrExhaust ==
    LET attempts == IF deferred.sequence = capture.expected
                    THEN deferred.attempts + 1 ELSE 1
    IN
    /\ deferred' = [sequence |-> capture.expected, attempts |-> attempts]
    /\ IF attempts >= MaxDeferrals
       THEN Note(capture.expected) /\ writtenOff' = writtenOff \cup {capture.expected}
       ELSE UNCHANGED <<handled, sinceEvent, writtenOff>>
    /\ UNCHANGED <<queued, baseline>>

Report ==
    /\ Note(capture.expected)
    /\ writtenOff' = writtenOff \cup {capture.expected}
    /\ UNCHANGED <<deferred, queued, baseline>>

\* Bind to the live sequence; a notification for what was already handled is
\* not a new copy.
Bind ==
    /\ pc = "bind"
    /\ IF Live = handled
       THEN Return
       ELSE /\ capture' = [capture EXCEPT !.expected = Live, !.seen = {}, !.reads = 0]
            /\ pc' = "formats"
    /\ ReadOnly

\* No formats at all: confirm a clear.  Otherwise remember what is advertised.
ReadFormats ==
    /\ pc = "formats"
    /\ capture' = [capture EXCEPT !.formats = LiveKind, !.seen = @ \cup {Live},
                                  !.verdict = "cleared"]
    /\ pc' = IF LiveKind = "empty" THEN "confirm" ELSE "markers"
    /\ ReadOnly

\* capture_sensitive_markers: read, unreadable after its retries, or never
\* answered by the owner.
ReadMarkers ==
    /\ pc = "markers"
    /\ \/ /\ capture' = [capture EXCEPT !.sensitive = (LiveKind = "secret"),
                                        !.seen = @ \cup {Live}]
          /\ pc' = "markersCheck"
          /\ UNCHANGED <<health, history>>
       \/ LiveKind = "secret" /\ DeferOrExhaust /\ Return
       \/ LiveKind = "secret" /\ Report /\ Return
    /\ CaptureOnly

CheckMarkers ==
    /\ pc = "markersCheck"
    /\ \/ Live # capture.expected /\ Rebind
       \/ /\ Live = capture.expected /\ FileOnly(capture.formats)
          /\ Note(capture.expected) /\ Return
          /\ UNCHANGED <<deferred, history>>
       \/ /\ Live = capture.expected /\ ~FileOnly(capture.formats)
          /\ pc' = "supported"
          /\ UNCHANGED <<health, history, capture>>
    /\ CaptureOnly

CheckSupported ==
    /\ pc = "supported"
    /\ capture' = [capture EXCEPT !.verdict = "ignored"]
    /\ pc' = IF Supported(LiveKind) THEN "materialize" ELSE "confirm"
    /\ ReadOnly

\* materialize_with_sequence_guard: the guard before each attempt...
GuardRead ==
    /\ pc = "materialize"
    /\ \/ Live # capture.expected /\ Rebind
       \/ /\ Live = capture.expected
          /\ pc' = "read"
          /\ UNCHANGED <<capture, health, history>>
    /\ CaptureOnly

\* ...the formats of the payload, one read after another...
ReadFormat ==
    /\ pc = "read"
    /\ Supported(LiveKind)
    /\ capture' = [capture EXCEPT !.seen = @ \cup {Live}]
    /\ UNCHANGED pc
    /\ ReadOnly

FinishRead ==
    /\ pc = "read"
    /\ \E outcome \in ReadOutcomes(LiveKind) :
         capture' = [capture EXCEPT !.seen = @ \cup {Live}, !.reads = @ + 1,
                                    !.verdict = outcome]
    /\ pc' = "readCheck"
    /\ ReadOnly

\* Mutant: no guard after the read.
CheckReadUnguarded ==
    /\ pc = "readCheck"
    /\ pc' = IF capture.verdict = "transient" /\ capture.reads < ReadAttempts
             THEN "materialize" ELSE "settle"
    /\ UNCHANGED capture
    /\ ReadOnly

\* ...and the guard after it.  A transient failure is not guarded but retried.
CheckRead ==
    /\ pc = "readCheck"
    /\ \/ /\ capture.verdict = "transient" /\ capture.reads < ReadAttempts
          /\ pc' = "materialize"
          /\ UNCHANGED <<capture, health, history>>
       \/ /\ capture.verdict # "transient" \/ capture.reads = ReadAttempts
          /\ Live # capture.expected
          /\ Rebind
       \/ /\ capture.verdict # "transient" \/ capture.reads = ReadAttempts
          /\ Live = capture.expected
          /\ pc' = "settle"
          /\ UNCHANGED <<capture, health, history>>
    /\ CaptureOnly

\* A captured payload is queued whatever happens on the clipboard from here on.
QueueCapture ==
    /\ pc = "settle"
    /\ capture.verdict = "captured"
    /\ deferred' = [sequence |-> capture.expected, attempts |-> 0]
    /\ Note(capture.expected)
    /\ pc' = "send"
    /\ UNCHANGED <<capture, history>>
    /\ CaptureOnly

\* Otherwise find out whether the clipboard is blank (clipboard_is_cleared: to
\* tell empty text from any other takes an open that may fail), and confirm.
Settle ==
    /\ pc = "settle"
    /\ capture.verdict # "captured"
    /\ \E cleared \in IF LiveKind = "emptyText" THEN BOOLEAN ELSE {Blank(LiveKind)} :
         capture' =
           [capture EXCEPT !.verdict =
              IF @ = "unresponsive" \/ (@ = "transient" /\ capture.formats = "hybrid")
                THEN @
              ELSE IF cleared THEN "cleared"
              ELSE IF @ = "transient" /\ Supported(LiveKind) THEN @
              ELSE "ignored"]
    /\ pc' = "confirm"
    /\ ReadOnly

\* persist_if_sequence_holds, then what the verdict asks for.
Confirm ==
    /\ pc = "confirm"
    /\ \/ Live # capture.expected /\ Rebind
       \/ /\ Live = capture.expected
          /\ \/ /\ capture.verdict = "cleared" /\ Note(capture.expected)
                /\ pc' = "send" /\ UNCHANGED <<deferred, history, capture>>
             \/ /\ capture.verdict = "ignored" /\ Note(capture.expected) /\ Return
                /\ UNCHANGED <<deferred, history>>
             \/ capture.verdict = "unresponsive" /\ Report /\ Return
             \/ /\ capture.verdict = "transient" /\ Return
                /\ IF capture.formats = "hybrid" THEN Report ELSE DeferOrExhaust
    /\ CaptureOnly

\* enqueue_listener_event
Send ==
    /\ pc = "send"
    /\ queued' = Append(queued, [sequence |-> capture.expected,
                                 cleared |-> capture.verdict = "cleared",
                                 sensitive |-> capture.sensitive,
                                 seen |-> capture.seen])
    /\ Return
    /\ UNCHANGED <<writtenOff, baseline, health>>
    /\ CaptureOnly

\* The consumer is gone: the application is ending.
SendFails ==
    /\ pc = "send"
    /\ captureState' = "stopped"
    /\ pc' = "stopped"
    /\ slot' = FALSE
    /\ UNCHANGED <<environment, closing, firstSession, health, capture,
                   watchdogPc, history>>

----------------------------------------------------------------------------

Supervisor ==
    \/ Start \/ CreateMonitor \/ CreateFails \/ CatchUp \/ Listen \/ CheckSlot
    \/ ReceiveNotification \/ ReceiveShutdown \/ ReceiveFails \/ ExitSession

CaptureStep ==
    \/ Bind \/ ReadFormats \/ ReadMarkers \/ CheckMarkers \/ CheckSupported
    \/ GuardRead \/ FinishRead \/ CheckRead
    \/ QueueCapture \/ Settle \/ Confirm \/ Send \/ SendFails

Next ==
    \/ \E kind \in Kinds : Copy(kind)
    \/ GoDeaf \/ Tick
    \/ WatchdogDecides \/ WatchdogRequests
    \/ Supervisor \/ CaptureStep \/ ReadFormat

(***************************************************************************)
(* The listener and the watchdog are threads of their own and time passes. *)
(* Nobody has to copy, and monitors need not fail or go deaf.              *)
(***************************************************************************)
Fairness ==
    /\ WF_vars(Supervisor \/ CaptureStep)
    /\ WF_vars(WatchdogDecides \/ WatchdogRequests)
    /\ WF_vars(Tick)

Spec == Init /\ [][Next]_vars

FairSpec == Spec /\ Fairness

----------------------------------------------------------------------------
(* Properties.                                                             *)

\* A queued event describes one copy: everything that was read for it, its
\* markers and every format of its payload, belongs to the sequence it names,
\* so a secret is never queued without its marker, and a clear is only
\* reported of a clipboard that was blank (SBS-767).
OneCopyPerEvent ==
    \A i \in DOMAIN queued :
      LET e == queued[i]
          kind == copies[e.sequence]
      IN IF e.cleared
         THEN Blank(kind)
         ELSE e.seen = {e.sequence} /\ (kind = "secret" => e.sensitive)

\* Copies are queued in the order they were made and none is queued twice,
\* whatever notifications are duplicated and sessions restarted.
QueuedOnceInOrder ==
    \A i, j \in DOMAIN queued : i < j => queued[i].sequence < queued[j].sequence

\* What is queued tells the story of the clipboard: true events, in order, once.
QueueFollowsTheClipboard == OneCopyPerEvent /\ QueuedOnceInOrder

\* A copy Cubby can read is never marked handled silently: it was on the
\* clipboard before Cubby started, was queued, is about to be, or was written
\* off with an error that is recorded or logged.
HandledMeansCaptured ==
    \A n \in 1 .. Live :
      handled = n /\ copies[n] \in {"text", "secret", "hybrid"} =>
        \/ n <= baseline
        \/ n \in writtenOff
        \/ \E i \in DOMAIN queued : queued[i].sequence = n
        \/ pc \in {"send", "stopped"} /\ capture.expected = n

\* Capture never stops silently: the live copy ends up handled unless a newer
\* one replaces it or the application ends.
EveryCopySettles ==
    \A n \in Sequences :
      Live = n ~> (handled = n \/ Live > n \/ pc = "stopped")

\* A clipboard owner that never lets go does not keep the watchdog restarting
\* the listener for the rest of the session (MAX_DEFERRALS_PER_SEQUENCE).
RestartsEnd == <>[](pc = "recv" \/ pc = "stopped")
=============================================================================
