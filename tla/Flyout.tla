------------------------------- MODULE Flyout -------------------------------
(***************************************************************************)
(* The flyout and the paste behind it (src-tauri/src/lib.rs: the flyout    *)
(* worker, show, hide, blur and the outside-click watcher; window_state.rs:*)
(* the animation lock; shortcuts.rs: toggle_main_window; commands.rs:      *)
(* restore_clip; paste_engine.rs, paste_after_settle.rs).                  *)
(*                                                                         *)
(* A toggle or a tray click leaves a request in a slot and makes sure that *)
(* a worker thread lives; the worker takes requests until the slot is      *)
(* empty.  Showing and hiding hold one lock; every hide runs on a thread   *)
(* of its own.  A paste hides the flyout, gives the window it was opened   *)
(* over the focus back, waits, looks whether that window still has the     *)
(* focus, and presses Ctrl+V.  Meanwhile the user clicks and presses the   *)
(* hotkey again.                                                           *)
(***************************************************************************)
EXTENDS Naturals, FiniteSets

CONSTANTS
    Windows,      \* the windows of other applications
    Manual,       \* those where the user has to press Ctrl+V (NinjaRemote)
    Cubby, None,
    MaxCallers    \* bound: threads between the slot and the latch

ASSUME FlyoutAssumption ==
    /\ IsFiniteSet(Windows) /\ Manual \subseteq Windows
    /\ Cubby \notin Windows /\ None \notin Windows /\ Cubby # None
    /\ None \notin {"worker", "hider", "paste"}
    /\ MaxCallers \in Nat \ {0}

VARIABLES
    pending,    \* pending_flyout(): the request in the slot
    latch,      \* FLYOUT_WORKER_LIVE
    worker,     \* the flyout worker
    kicks,      \* callers that have filled the slot and not yet kicked the worker
    leaving,    \* workers that have cleared the latch and not yet looked back
    lock,       \* IS_ANIMATING
    hider,      \* the thread of a hide without a callback
    paste,      \* the paste under way
    visible,    \* the flyout is visible
    focus,      \* the window with the focus
    previous,   \* PREVIOUS_FOREGROUND_WINDOW
    recent,     \* LAST_SHOW_TIME is less than 500 ms ago
    watcher,    \* the outside-click watcher of the last show runs
    pressed,    \* a press outside, which the watcher is about to notice
    blurred     \* a Focused(false) event is on its way

vars == <<pending, latch, worker, kicks, leaving, lock, hider, paste, visible,
          focus, previous, recent, watcher, pressed, blurred>>
queue == <<pending, latch, worker, kicks, leaving>>
screen == <<visible, focus, recent, watcher, pressed, blurred>>

Requests == {"show", "hide"}
NoPaste == [pc |-> "none", target |-> None, moved |-> FALSE, into |-> None,
            slipped |-> FALSE]

\* The type invariant.
TypeOK ==
    /\ pending \in Requests \cup {None}
    /\ worker \in {"none", "take", "lockShow", "lockHide", "remember", "show", "hide",
                  "exit"}
    /\ kicks \in 0 .. MaxCallers /\ leaving \in 0 .. MaxCallers
    /\ lock \in {None, "worker", "hider", "paste"}
    /\ {latch, hider, visible, recent, watcher, pressed, blurred} \subseteq BOOLEAN
    /\ paste \in [pc : {"none", "write", "wait", "hide", "unlocked", "restore",
                         "settle", "keys", "sent"},
                  target : Windows \cup {None}, moved : BOOLEAN,
                  into : Windows \cup {Cubby, None}, slipped : BOOLEAN]
    /\ focus \in Windows \cup {Cubby} /\ previous \in Windows \cup {None}

----------------------------------------------------------------------------
(* The slot and the latch                                                  *)

\* request_flyout, request_flyout_toggle: the slot is filled under its mutex.
Request(r) ==
    /\ kicks < MaxCallers
    /\ pending' = r
    /\ kicks' = kicks + 1

\* kick_flyout_worker: of all callers one starts a worker.
Latched ==
    IF latch THEN UNCHANGED <<latch, worker>>
    ELSE latch' = TRUE /\ worker' = "take"

Kick ==
    /\ kicks > 0
    /\ kicks' = kicks - 1
    /\ Latched
    /\ UNCHANGED <<pending, leaving, lock, hider, paste, screen, previous>>

\* next_toggle_request: a queued request is inverted, so that two presses cancel.
Toggled ==
    CASE pending = "hide" -> "show"
      [] pending = "show" -> "hide"
      [] OTHER -> IF visible /\ focus = Cubby THEN "hide" ELSE "show"

\* toggle_main_window: the hotkey, or Win+V.
Toggle ==
    /\ Request(Toggled)
    /\ UNCHANGED <<latch, worker, leaving, lock, hider, paste, screen, previous>>

\* A click on the tray icon.
TrayClick ==
    /\ \E r \in Requests : Request(r)
    /\ UNCHANGED <<latch, worker, leaving, lock, hider, paste, screen, previous>>

----------------------------------------------------------------------------
(* The worker                                                              *)

WorkerTake ==
    /\ worker = "take"
    /\ worker' = CASE pending = "show" -> "lockShow"
                 [] pending = "hide" -> "lockHide"
                 [] OTHER -> "exit"
    /\ pending' = None
    /\ UNCHANGED <<latch, kicks, leaving, lock, hider, paste, screen, previous>>

\* Mutant: a guard that was not acquired is dropped all the same (then_some).
WorkerLockThenSome ==
    /\ worker \in {"lockShow", "lockHide"}
    /\ IF lock = None
       THEN /\ lock' = "worker"
            /\ worker' = IF worker = "lockShow" THEN "remember" ELSE "hide"
       ELSE lock' = None /\ worker' = "take"
    /\ UNCHANGED <<pending, latch, kicks, leaving, hider, paste, screen, previous>>

\* AnimationGuard: free, or free within a second; else the request is dropped.
WorkerLock ==
    /\ worker \in {"lockShow", "lockHide"}
    /\ IF lock = None
       THEN /\ lock' = "worker"
            /\ worker' = IF worker = "lockShow" THEN "remember" ELSE "hide"
       ELSE UNCHANGED lock /\ worker' = "take"
    /\ UNCHANGED <<pending, latch, kicks, leaving, hider, paste, screen, previous>>

\* The target of a paste under way is not the window remembered any more.
Moves(w) ==
    IF paste.pc = "none" \/ paste.target = w THEN paste
    ELSE [paste EXCEPT !.target = None, !.moved = TRUE]

\* run_window_show up to remember_foreground_window: the new generation ends the
\* watcher of the last show.
WorkerRemember ==
    /\ worker = "remember"
    /\ recent' = TRUE
    /\ watcher' = FALSE
    /\ pressed' = FALSE
    /\ IF focus = Cubby THEN UNCHANGED <<previous, paste>>
       ELSE previous' = focus /\ paste' = Moves(focus)
    /\ worker' = "show"
    /\ UNCHANGED <<pending, latch, kicks, leaving, lock, hider, visible, focus,
                   blurred>>

\* The rest of it, once there is a monitor to show it on.
WorkerShow ==
    /\ worker = "show"
    /\ \/ visible' = TRUE /\ focus' = Cubby /\ watcher' = TRUE
       \/ UNCHANGED <<visible, focus, watcher>>
    /\ lock' = None
    /\ worker' = "take"
    /\ UNCHANGED <<pending, latch, kicks, leaving, hider, paste, previous, recent,
                   pressed, blurred>>

\* A hidden window loses the focus to another one, and its watcher ends.
Hides ==
    /\ visible' = FALSE
    /\ watcher' = FALSE
    /\ pressed' = FALSE
    /\ IF focus = Cubby THEN focus' \in Windows ELSE UNCHANGED focus
    /\ UNCHANGED <<recent, blurred>>

WorkerHide ==
    /\ worker = "hide"
    /\ Hides
    /\ lock' = None
    /\ worker' = "take"
    /\ UNCHANGED <<pending, latch, kicks, leaving, hider, paste, previous>>

\* A panic while the lock is held unwinds through both guards.
WorkerPanics ==
    /\ lock = "worker"
    /\ lock' = None
    /\ worker' = "exit"
    /\ UNCHANGED <<pending, latch, kicks, leaving, hider, paste, screen, previous>>

\* FlyoutWorkerGuard: the latch first, then a look at the slot.
WorkerExit ==
    /\ worker = "exit" /\ leaving < MaxCallers
    /\ latch' = FALSE
    /\ worker' = "none"
    /\ leaving' = leaving + 1
    /\ UNCHANGED <<pending, kicks, lock, hider, paste, screen, previous>>

\* Mutant: nobody looks back.
WorkerLeaves ==
    /\ leaving > 0
    /\ leaving' = leaving - 1
    /\ UNCHANGED <<latch, worker, pending, kicks, lock, hider, paste, screen, previous>>

WorkerLooksBack ==
    /\ leaving > 0
    /\ leaving' = leaving - 1
    /\ IF pending # None THEN Latched ELSE UNCHANGED <<latch, worker>>
    /\ UNCHANGED <<pending, kicks, lock, hider, paste, screen, previous>>

----------------------------------------------------------------------------
(* Hides without a callback                                                *)

\* animate_window_hide(window, None): skipped while another show or hide runs.
HideIfIdle ==
    IF lock = None THEN lock' = "hider" /\ hider' = TRUE
    ELSE UNCHANGED <<lock, hider>>

HiderHides ==
    /\ hider
    /\ Hides
    /\ hider' = FALSE
    /\ lock' = None
    /\ UNCHANGED <<queue, paste, previous>>

\* The Focused(false) handler.
Blur ==
    /\ blurred
    /\ blurred' = FALSE
    /\ IF ~recent /\ visible THEN HideIfIdle ELSE UNCHANGED <<lock, hider>>
    /\ UNCHANGED <<queue, paste, visible, focus, previous, recent, watcher, pressed>>

\* watch_for_outside_click: the watcher ends with the first press it sees.
WatcherPolls ==
    /\ watcher /\ pressed
    /\ watcher' = FALSE
    /\ pressed' = FALSE
    /\ HideIfIdle
    /\ UNCHANGED <<queue, paste, visible, focus, previous, recent, blurred>>

----------------------------------------------------------------------------
(* A paste (restore_clip with should_paste)                                *)

PasteAt(pc) == paste.pc = pc
PasteGoes(pc) == paste' = [paste EXCEPT !.pc = pc]

\* The user picks a clip; it is written to the clipboard.
Pick ==
    /\ visible /\ focus = Cubby /\ PasteAt("none")
    /\ paste' = [NoPaste EXCEPT !.pc = "write", !.target = previous]
    /\ UNCHANGED <<queue, lock, hider, screen, previous>>

\* animate_window_hide with a callback: at once, or after waiting for the lock.
PasteHide ==
    /\ PasteAt("write")
    /\ IF lock = None THEN lock' = "paste" /\ PasteGoes("hide")
       ELSE UNCHANGED lock /\ PasteGoes("wait")
    /\ UNCHANGED <<queue, hider, screen, previous>>

\* Within a second the lock is free, or the hide goes on without it.
PasteWaits ==
    /\ PasteAt("wait")
    /\ IF lock = None THEN lock' = "paste" /\ PasteGoes("hide")
       ELSE UNCHANGED lock /\ PasteGoes("unlocked")
    /\ UNCHANGED <<queue, hider, screen, previous>>

PasteHides ==
    /\ paste.pc \in {"hide", "unlocked"}
    /\ Hides
    /\ lock' = IF PasteAt("hide") THEN None ELSE lock
    /\ PasteGoes("restore")
    /\ UNCHANGED <<queue, hider, previous>>

\* complete_auto_paste_after_hide and restore_previous_foreground_window: the window
\* may be gone, or Windows refuse it the focus.
PasteRestores ==
    /\ PasteAt("restore")
    /\ \/ /\ previous # None
          /\ focus' = previous
          /\ blurred' = (blurred \/ (focus = Cubby))
          /\ paste' = IF previous \in Manual THEN NoPaste
                      ELSE [paste EXCEPT !.pc = "settle"]
          /\ UNCHANGED previous
       \/ /\ previous' \in {previous, None}
          /\ paste' = NoPaste
          /\ UNCHANGED <<focus, blurred>>
    /\ UNCHANGED <<queue, lock, hider, visible, recent, watcher, pressed>>

\* Mutant: Ctrl+V without another look at the focus.
PasteUnchecked ==
    /\ PasteAt("settle")
    /\ paste' = IF focus \in Windows THEN [paste EXCEPT !.pc = "keys", !.into = focus]
                ELSE NoPaste
    /\ UNCHANGED <<queue, lock, hider, screen, previous>>

\* send_paste_after_settle: only if the remembered window has the focus...
PasteSettled ==
    /\ PasteAt("settle")
    /\ paste' = IF previous # None /\ focus = previous
                THEN [paste EXCEPT !.pc = "keys", !.into = focus]
                ELSE NoPaste
    /\ UNCHANGED <<queue, lock, hider, screen, previous>>

\* ...Ctrl+V (SendInput), which goes wherever the focus is by then.
PasteSends ==
    /\ PasteAt("keys")
    /\ paste' = [paste EXCEPT !.pc = "sent", !.into = focus, !.slipped = focus # paste.into]
    /\ UNCHANGED <<queue, lock, hider, screen, previous>>

PasteEnds ==
    /\ PasteAt("sent")
    /\ paste' = NoPaste
    /\ UNCHANGED <<queue, lock, hider, screen, previous>>

----------------------------------------------------------------------------
(* The user                                                                *)

\* A click on another window.  The watcher does not notice a press that is over before
\* it polls, or whose place Windows does not tell.
ClickOutside(w) ==
    /\ focus # w
    /\ focus' = w
    /\ blurred' = (blurred \/ focus = Cubby)
    /\ pressed' \in {pressed, pressed \/ watcher}
    /\ UNCHANGED <<queue, lock, hider, paste, visible, previous, recent, watcher>>

\* Half a second passes.
Elapse ==
    /\ recent
    /\ recent' = FALSE
    /\ UNCHANGED <<queue, lock, hider, paste, visible, focus, previous, watcher, pressed,
                   blurred>>

Init ==
    /\ pending = None /\ latch = FALSE /\ worker = "none"
    /\ kicks = 0 /\ leaving = 0 /\ lock = None /\ hider = FALSE /\ paste = NoPaste
    /\ visible = FALSE /\ focus \in Windows /\ previous = None
    /\ recent = FALSE /\ watcher = FALSE /\ pressed = FALSE /\ blurred = FALSE

Worker ==
    \/ WorkerTake \/ WorkerLock \/ WorkerRemember \/ WorkerShow \/ WorkerHide
    \/ WorkerExit

Pasting ==
    \/ PasteHide \/ PasteWaits \/ PasteHides \/ PasteRestores
    \/ PasteSettled \/ PasteSends \/ PasteEnds

Next ==
    \/ Toggle \/ TrayClick \/ Kick
    \/ Worker \/ WorkerPanics \/ WorkerLooksBack
    \/ HiderHides \/ Blur \/ WatcherPolls
    \/ Pick \/ Pasting
    \/ Elapse
    \/ \E w \in Windows : ClickOutside(w)

\* Every thread runs on: the scheduler is fair to each.
Fairness ==
    /\ WF_vars(Kick) /\ WF_vars(Worker) /\ WF_vars(WorkerLooksBack)
    /\ WF_vars(HiderHides) /\ WF_vars(Blur) /\ WF_vars(WatcherPolls)
    /\ WF_vars(Pasting)

Spec == Init /\ [][Next]_vars
FairSpec == Spec /\ Fairness

----------------------------------------------------------------------------
(* What must hold                                                          *)

\* One animation at a time: whoever shows or hides holds the lock, except the paste
\* that has waited a second for it.
OneAnimation ==
    /\ worker \in {"remember", "show", "hide"} <=> lock = "worker"
    /\ hider <=> lock = "hider"
    /\ PasteAt("hide") <=> lock = "paste"

\* Ctrl+V goes to the window the flyout was opened over when the clip was picked, as
\* long as it was not opened over another one since, and no window takes the focus
\* between the last look at it and the keys (send_paste_after_settle).
PasteLandsWhereChosen ==
    PasteAt("sent") /\ ~paste.moved /\ ~paste.slipped =>
        paste.into = paste.target /\ paste.into \notin Manual

\* A request in the slot is always taken, whoever leaves or panics at that moment.
RequestsAreServed == pending # None ~> pending = None

\* The clip that was picked gets as far as its window, whatever holds the lock: the
\* callback of the hide always runs.
PasteIsAnswered == PasteAt("write") ~> PasteAt("restore")

\* A click outside that the watcher notices closes the flyout, or meets a show or hide
\* the user asked for ("the blur handler and outside-click watcher will fire again").
OutsideClickCloses ==
    visible /\ watcher /\ pressed ~> ~visible \/ focus = Cubby \/ lock = "worker"

\* No request, no picked clip and no click is left without its answer.
EverythingIsAnswered == RequestsAreServed /\ PasteIsAnswered /\ OutsideClickCloses

=============================================================================
