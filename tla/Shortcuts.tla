----------------------------- MODULE Shortcuts -----------------------------
(***************************************************************************)
(* The global hotkey, the Win+V helper and the ways into Cubby that depend *)
(* on them (src-tauri/src/shortcuts.rs, win_v_replacement.rs; lib.rs: the  *)
(* start and the tray icon; settings_commands.rs: save_settings).          *)
(*                                                                         *)
(* Another application may hold a hotkey, take one and let go of one at    *)
(* any moment.  Registering releases what is registered, tries the new     *)
(* hotkey and, if that is taken, puts the previous one back.  The start,   *)
(* its recovery and a save all do so, and the last two hold a lock.  The   *)
(* helper is a process of its own that a watchdog starts again.            *)
(***************************************************************************)
EXTENDS Naturals, FiniteSets

CONSTANTS
    Keys,        \* hotkeys the user may choose, the next two among them
    Fallback,    \* STARTUP_FALLBACK_HOTKEY
    Bridge,      \* WIN_V_BRIDGE_SHORTCUT, which is also the default hotkey
    Nothing,
    MaxTakes, MaxFailures, MaxDeaths, MaxSaves, MaxAttempts   \* bounds

ASSUME ShortcutsAssumption ==
    /\ IsFiniteSet(Keys) /\ Nothing \notin Keys \cup {Fallback, Bridge}
    /\ Fallback # Bridge
    /\ {MaxTakes, MaxFailures, MaxDeaths, MaxSaves, MaxAttempts} \subseteq Nat

Hotkeys == Keys \cup {Fallback}
AllKeys == Hotkeys \cup {Bridge}

\* The settings the shortcuts depend on: hotkey, replace_win_v, show_tray_icon.
Prefs == [hotkey : Keys, replace : BOOLEAN, tray : BOOLEAN]
Configuration == [hotkey : Hotkeys \cup {Nothing}, replace : BOOLEAN]
Unset == [hotkey |-> Nothing, replace |-> FALSE]

VARIABLES
    saved,       \* SettingsManager.settings, in the file as well
    taken,       \* hotkeys other applications hold
    live,        \* hotkeys Windows sends to Cubby
    registered,  \* REGISTERED_SHORTCUTS
    current,     \* CURRENT_CONFIGURATION
    ready,       \* SHORTCUT_READY
    tray,        \* whether the tray icon is shown
    helper,      \* HelperState: desired, hotkey, child
    watchdog,    \* watchdog_started
    channel,     \* whether the activation port is bound
    notice,      \* STARTUP_NOTICE
    call,        \* the register_shortcuts call under way
    actor,       \* the start, the save or the recovery attempt under way
    recovery,    \* the recovery thread
    stuck,       \* history: Windows has refused to release a hotkey
    count

shortcutVars ==
    <<saved, taken, live, registered, current, ready, tray, helper, watchdog, channel, notice,
      call, actor, recovery, stuck, count>>
windows == <<taken, live, registered, current, ready, tray, stuck>>
process == <<helper, watchdog>>

NoChild == [hotkey |-> Nothing, alive |-> FALSE]
NoCall == [pc |-> "none", want |-> Unset, previous |-> Unset]

\* The type invariant.
ShortcutTypeOK ==
    /\ saved \in Prefs /\ taken \subseteq AllKeys /\ live \subseteq AllKeys
    /\ registered \subseteq AllKeys /\ current \in Configuration
    /\ {ready, tray, watchdog, channel, stuck} \subseteq BOOLEAN
    /\ helper \in [desired : BOOLEAN, hotkey : Hotkeys \cup {Nothing},
                   child : [hotkey : Hotkeys \cup {Nothing}, alive : BOOLEAN]]
    /\ notice \in {Nothing, "failed", "fallback_hotkey", "win_v_disabled"}
    /\ call \in [pc : {"none", "release", "register", "restore", "ok", "err"},
                 want : Configuration, previous : Configuration]
    /\ actor \in [who : {"none", "start", "save", "recovery"},
                  pc : {"idle", "register", "fallback", "helper", "autostart", "write",
                        "restore", "restoreHelper"},
                  new : Prefs]
    /\ recovery \in [on : BOOLEAN, hotkey : Keys \cup {Nothing}]
    /\ count \in [takes : 0 .. MaxTakes, failures : 0 .. MaxFailures,
                  deaths : 0 .. MaxDeaths, saves : 0 .. MaxSaves,
                  attempts : 0 .. MaxAttempts]

----------------------------------------------------------------------------
(* register_shortcuts                                                      *)

CanRegister(k) == k \notin taken \cup live

\* apply_tray_visibility: the icon is the way in while no shortcut is registered.
TrayFor(r) == saved.tray \/ ~r

Want(k, r) == [hotkey |-> k, replace |-> r]

\* The call begins; it has nothing to do when that is what is registered.
Called(k, r) ==
    call' = [pc |-> IF current = Want(k, r) THEN "ok" ELSE "release",
             want |-> Want(k, r), previous |-> current]

Returned(result) == call.pc = result
CallOver == call' = NoCall

\* What registering a configuration adds; the bridge is a convenience, and needs no
\* registration of its own when it is the hotkey.
Added(c) ==
    {c.hotkey} \cup { k \in {Bridge} \ {c.hotkey} : c.replace /\ CanRegister(k) }

\* release_registered: the list is forgotten even when Windows refuses.
Release ==
    /\ call.pc = "release"
    /\ registered' = {}
    /\ \/ /\ live' = live \ registered
          /\ call' = [call EXCEPT !.pc = "register"]
          /\ UNCHANGED <<stuck, count>>
       \/ /\ registered # {} /\ count.failures < MaxFailures
          /\ \E gone \in SUBSET registered : gone # registered /\ live' = live \ gone
          /\ call' = [call EXCEPT !.pc = "err"]
          /\ stuck' = TRUE
          /\ count' = [count EXCEPT !.failures = @ + 1]
    /\ UNCHANGED <<saved, taken, current, ready, tray, process, channel, notice, actor,
                   recovery>>

Register ==
    /\ call.pc = "register"
    /\ IF CanRegister(call.want.hotkey)
       THEN /\ live' = live \cup Added(call.want)
            /\ registered' = Added(call.want)
            /\ current' = call.want
            /\ ready' = TRUE
            /\ call' = [call EXCEPT !.pc = "ok"]
       ELSE /\ call' = [call EXCEPT !.pc = "restore"]
            /\ UNCHANGED <<live, registered, current, ready>>
    /\ UNCHANGED <<saved, taken, tray, stuck, process, channel, notice, actor, recovery,
                   count>>

\* Mutant: the previous hotkey is put back as far as possible, and nothing said.
RestoreSilently ==
    /\ call.pc = "restore"
    /\ call' = [call EXCEPT !.pc = "err"]
    /\ LET back == call.previous.hotkey # Nothing /\ CanRegister(call.previous.hotkey)
       IN /\ live' = IF back THEN live \cup Added(call.previous) ELSE live
          /\ registered' = IF back THEN Added(call.previous) ELSE registered
    /\ current' = call.previous
    /\ UNCHANGED <<saved, taken, ready, tray, stuck, process, channel, notice, actor,
                   recovery, count>>

\* register_configuration_without_fallback: back to what was registered before, or
\* to nothing, and then the tray icon is shown.
Restore ==
    /\ call.pc = "restore"
    /\ call' = [call EXCEPT !.pc = "err"]
    /\ IF call.previous.hotkey = Nothing
       THEN /\ current' = call.previous
            /\ UNCHANGED <<live, registered, ready, tray>>
       ELSE IF CanRegister(call.previous.hotkey)
       THEN /\ live' = live \cup Added(call.previous)
            /\ registered' = Added(call.previous)
            /\ current' = call.previous
            /\ UNCHANGED <<ready, tray>>
       ELSE /\ current' = Unset
            /\ ready' = FALSE
            /\ tray' = TrayFor(FALSE)
            /\ UNCHANGED <<live, registered>>
    /\ UNCHANGED <<saved, taken, stuck, process, channel, notice, actor, recovery, count>>

----------------------------------------------------------------------------
(* WinVReplacementManager                                                  *)

Running == helper.child.alive

\* Mutant: a running process is kept whatever hotkey it was given.
KeptAnyway(enabled, k) == enabled /\ Running

\* compute_helper_action: off, or another hotkey, stops the process.
Kept(enabled, k) == enabled /\ helper.hotkey = k /\ Running

Child(enabled, k) ==
    IF Kept(enabled, k) THEN helper.child
    ELSE IF enabled THEN [hotkey |-> k, alive |-> TRUE] ELSE NoChild

\* Mutant: no watchdog is started.
ConfigureUnwatched(enabled, k) ==
    /\ enabled => channel
    /\ helper' = [desired |-> enabled, hotkey |-> k, child |-> Child(enabled, k)]
    /\ UNCHANGED watchdog

\* configure
ConfigureDone(enabled, k) ==
    /\ enabled => channel
    /\ helper' = [desired |-> enabled, hotkey |-> k, child |-> Child(enabled, k)]
    /\ watchdog' = (watchdog \/ enabled)

\* Without the channel nothing changes; when the process cannot be started what is
\* wanted is kept, and no watchdog is started.
ConfigureFailed(enabled, k) ==
    /\ enabled
    /\ IF channel
       THEN /\ ~Kept(enabled, k) /\ count.failures < MaxFailures
            /\ helper' = [desired |-> TRUE, hotkey |-> k, child |-> NoChild]
            /\ count' = [count EXCEPT !.failures = @ + 1]
       ELSE UNCHANGED <<helper, count>>
    /\ UNCHANGED watchdog

\* watchdog_loop: every two seconds a process that ended is started again.
WatchdogRestart ==
    /\ watchdog /\ helper.desired /\ ~Running
    /\ \/ /\ helper' = [helper EXCEPT !.child = Child(TRUE, helper.hotkey)]
          /\ UNCHANGED count
       \/ /\ count.failures < MaxFailures
          /\ helper' = [helper EXCEPT !.child = NoChild]
          /\ count' = [count EXCEPT !.failures = @ + 1]
    /\ UNCHANGED <<saved, windows, watchdog, channel, notice, call, actor, recovery>>

HelperDies ==
    /\ Running /\ count.deaths < MaxDeaths
    /\ helper' = [helper EXCEPT !.child.alive = FALSE]
    /\ count' = [count EXCEPT !.deaths = @ + 1]
    /\ UNCHANGED <<saved, windows, watchdog, channel, notice, call, actor, recovery>>

----------------------------------------------------------------------------
(* The start (run_app) and its recovery                                    *)

At(who, pc) == actor.who = who /\ actor.pc = pc
GoOn(pc) == actor' = [actor EXCEPT !.pc = pc]
Done == actor' = [actor EXCEPT !.who = "none", !.pc = "idle"]

\* register_at_startup: the saved hotkey, else the fallback.
StartRegistered ==
    /\ actor.who = "start" /\ actor.pc \in {"register", "fallback"}
    /\ \/ Returned("ok") /\ CallOver /\ GoOn("helper")
       \/ /\ Returned("err")
          /\ IF actor.pc = "register" /\ saved.hotkey # Fallback
             THEN Called(Fallback, FALSE) /\ GoOn("fallback")
             ELSE CallOver /\ GoOn("helper")
    /\ UNCHANGED <<saved, windows, process, channel, notice, recovery, count>>

\* startup_notice_kind
NoticeFor(active, helperFailed) ==
    IF active = Nothing THEN "failed"
    ELSE IF active # saved.hotkey THEN "fallback_hotkey"
    ELSE IF helperFailed THEN "win_v_disabled" ELSE Nothing

\* The start after the registration; the recovery thread sleeps for longer than the
\* statements behind its start take.
StartHelper ==
    /\ At("start", "helper")
    /\ LET k == IF current.hotkey = Nothing THEN saved.hotkey ELSE current.hotkey
           After(failed) ==
               /\ notice' = NoticeFor(current.hotkey, failed)
               /\ recovery' = [recovery EXCEPT
                      !.on = current.hotkey # saved.hotkey \/ (failed /\ channel)]
       IN \/ ConfigureDone(saved.replace, k) /\ After(FALSE) /\ UNCHANGED count
          \/ ConfigureFailed(saved.replace, k) /\ After(TRUE)
    /\ ready' = (current.hotkey # Nothing)
    /\ tray' = TrayFor(current.hotkey # Nothing)
    /\ Done
    /\ UNCHANGED <<saved, taken, live, registered, current, stuck, channel, call>>

\* Mutant: the hotkey of the start is tried again whatever the user has chosen since.
RecoveryBeginsStale ==
    /\ recovery.on /\ actor.who = "none" /\ count.attempts < MaxAttempts
    /\ Called(recovery.hotkey, saved.replace)
    /\ actor' = [who |-> "recovery", pc |-> "register", new |-> saved]
    /\ count' = [count EXCEPT !.attempts = @ + 1]
    /\ UNCHANGED <<recovery, notice, saved, windows, process, channel>>

\* spawn_startup_recovery: an attempt, under lock_shortcut_changes.
RecoveryBegins ==
    /\ recovery.on /\ actor.who = "none" /\ count.attempts < MaxAttempts
    /\ IF saved.hotkey # recovery.hotkey
       THEN /\ recovery' = [recovery EXCEPT !.on = FALSE]
            /\ notice' = Nothing
            /\ UNCHANGED <<call, actor, count>>
       ELSE /\ Called(saved.hotkey, saved.replace)
            /\ actor' = [who |-> "recovery", pc |-> "register", new |-> saved]
            /\ count' = [count EXCEPT !.attempts = @ + 1]
            /\ UNCHANGED <<recovery, notice>>
    /\ UNCHANGED <<saved, windows, process, channel>>

RecoveryHelper ==
    /\ At("recovery", "register") /\ (Returned("ok") \/ Returned("err"))
    /\ LET k == IF Returned("ok") \/ current.hotkey = Nothing THEN recovery.hotkey
                ELSE current.hotkey
           Recovered ==
               /\ recovery' = [recovery EXCEPT !.on = FALSE]
               /\ notice' = IF actor.new.replace /\ ~channel THEN "win_v_disabled" ELSE Nothing
               /\ tray' = TrayFor(ready)
           TriesAgain == UNCHANGED <<recovery, notice, tray>>
       IN \/ /\ IF channel THEN ConfigureDone(actor.new.replace, k)
                           ELSE UNCHANGED process
             /\ IF Returned("ok") THEN Recovered ELSE TriesAgain
             /\ UNCHANGED count
          \/ channel /\ ConfigureFailed(actor.new.replace, k) /\ TriesAgain
    /\ CallOver /\ Done
    /\ UNCHANGED <<saved, taken, live, registered, current, ready, stuck, channel>>

\* The recovery window is over.
RecoveryGivesUp ==
    /\ recovery.on /\ actor.who = "none" /\ count.attempts = MaxAttempts
    /\ recovery' = [recovery EXCEPT !.on = FALSE]
    /\ UNCHANGED <<saved, windows, process, channel, notice, call, actor, count>>

----------------------------------------------------------------------------
(* save_settings                                                           *)

Changed == actor.new.hotkey # saved.hotkey \/ actor.new.replace # saved.replace

SaveBegins(new) ==
    /\ actor.who = "none" /\ count.saves < MaxSaves /\ new # saved
    /\ actor' = [who |-> "save", new |-> new,
                 pc |-> IF new.hotkey # saved.hotkey \/ new.replace # saved.replace
                        THEN "register" ELSE "autostart"]
    /\ IF actor'.pc = "register" THEN Called(new.hotkey, new.replace) ELSE UNCHANGED call
    /\ count' = [count EXCEPT !.saves = @ + 1]
    /\ UNCHANGED <<saved, windows, process, channel, notice, recovery>>

\* A new hotkey that is taken fails the save; the old one that still is does not.
SaveRegistered ==
    /\ At("save", "register")
    /\ \/ Returned("ok") /\ GoOn("helper")
       \/ Returned("err") /\ actor.new.hotkey = saved.hotkey /\ GoOn("helper")
       \/ Returned("err") /\ actor.new.hotkey # saved.hotkey /\ Done
    /\ CallOver
    /\ UNCHANGED <<saved, windows, process, channel, notice, recovery, count>>

\* restore_shortcut_settings
SaveUndone == Called(saved.hotkey, saved.replace) /\ GoOn("restore")

\* shortcut_save_blocked and configure
SaveHelper ==
    /\ At("save", "helper")
    /\ \/ /\ ~channel
          /\ IF actor.new.replace /\ ~saved.replace
             THEN SaveUndone ELSE GoOn("autostart") /\ UNCHANGED call
          /\ UNCHANGED <<process, count>>
       \/ /\ channel /\ ConfigureDone(actor.new.replace, actor.new.hotkey)
          /\ GoOn("autostart")
          /\ UNCHANGED <<call, count>>
       \/ /\ channel /\ ConfigureFailed(actor.new.replace, actor.new.hotkey)
          /\ SaveUndone
    /\ UNCHANGED <<saved, windows, channel, notice, recovery>>

\* set_autostart and SettingsManager::save: either may fail.
SaveGoesOn ==
    /\ actor.who = "save" /\ actor.pc \in {"autostart", "write"}
    /\ \/ /\ actor.pc = "autostart" /\ GoOn("write")
          /\ UNCHANGED <<saved, tray, call, count>>
       \/ /\ count.failures < MaxFailures
          /\ count' = [count EXCEPT !.failures = @ + 1]
          /\ IF Changed THEN SaveUndone ELSE Done /\ UNCHANGED call
          /\ UNCHANGED <<saved, tray>>
       \/ /\ actor.pc = "write"
          /\ saved' = actor.new
          /\ tray' = IF Changed \/ actor.new.tray # saved.tray
                     THEN actor.new.tray \/ ~ready ELSE tray
          /\ Done
          /\ UNCHANGED <<call, count>>
    /\ UNCHANGED <<taken, live, registered, current, ready, stuck, process, channel,
                   notice, recovery>>

SaveRestored ==
    /\ At("save", "restore") /\ (Returned("ok") \/ Returned("err"))
    /\ CallOver /\ GoOn("restoreHelper")
    /\ UNCHANGED <<saved, windows, process, channel, notice, recovery, count>>

SaveHelperRestored ==
    /\ At("save", "restoreHelper")
    /\ \/ ConfigureDone(saved.replace, saved.hotkey) /\ UNCHANGED count
       \/ ConfigureFailed(saved.replace, saved.hotkey)
    /\ Done
    /\ UNCHANGED <<saved, windows, channel, notice, call, recovery>>

----------------------------------------------------------------------------
(* Around them                                                             *)

\* Another application takes a hotkey, or lets go of one.
OthersChange ==
    /\ count.takes < MaxTakes
    /\ \/ \E k \in AllKeys \ (taken \cup live) : taken' = taken \cup {k}
       \/ \E k \in taken : taken' = taken \ {k}
    /\ count' = [count EXCEPT !.takes = @ + 1]
    /\ UNCHANGED <<saved, live, registered, current, ready, tray, stuck, process, channel,
                   notice, call, actor, recovery>>

\* get_hotkey_startup_notice: the flyout shows the toast once.
NoticeShown ==
    /\ notice # Nothing
    /\ notice' = Nothing
    /\ UNCHANGED <<saved, windows, process, channel, call, actor, recovery, count>>

\* A start: nothing is registered, and the tray icon is shown as Cubby builds it.
ShortcutInit ==
    /\ \E k \in Keys, r, t \in BOOLEAN :
           saved = [hotkey |-> k, replace |-> r, tray |-> t]
    /\ taken \in {{}, {saved.hotkey}, {saved.hotkey, Fallback}}
    /\ channel \in BOOLEAN
    /\ live = {} /\ registered = {} /\ current = Unset /\ ready = FALSE /\ tray = TRUE
    /\ helper = [desired |-> FALSE, hotkey |-> Nothing, child |-> NoChild]
    /\ watchdog = FALSE /\ notice = Nothing /\ stuck = FALSE
    /\ call = [pc |-> "release", want |-> Want(saved.hotkey, saved.replace),
               previous |-> Unset]
    /\ actor = [who |-> "start", pc |-> "register", new |-> saved]
    /\ recovery = [on |-> FALSE, hotkey |-> saved.hotkey]
    /\ count = [takes |-> 0, failures |-> 0, deaths |-> 0, saves |-> 0, attempts |-> 0]

Programme ==
    \/ Release \/ Register \/ Restore
    \/ StartRegistered \/ StartHelper
    \/ RecoveryHelper
    \/ SaveRegistered \/ SaveHelper \/ SaveGoesOn \/ SaveRestored \/ SaveHelperRestored

ShortcutNext ==
    \/ Programme
    \/ RecoveryBegins \/ RecoveryGivesUp
    \/ WatchdogRestart
    \/ \E new \in Prefs : SaveBegins(new)
    \/ HelperDies \/ OthersChange \/ NoticeShown

\* A call under way goes on, the recovery thread wakes up, and so does the watchdog.
ShortcutFairness ==
    /\ WF_shortcutVars(Programme)
    /\ WF_shortcutVars(RecoveryBegins \/ RecoveryGivesUp)
    /\ WF_shortcutVars(WatchdogRestart)

ShortcutSpec == ShortcutInit /\ [][ShortcutNext]_shortcutVars
FairShortcutSpec == ShortcutSpec /\ ShortcutFairness

----------------------------------------------------------------------------
(* What must hold                                                          *)

Quiet == actor.who = "none"

\* There is always a way in: with no call under way either the tray icon is shown or
\* the hotkey in use reaches Cubby, whatever failed on the way, as long as Windows lets go of
\* hotkeys it is asked to release ("bring back the tray icon as the way into Cubby").
AlwaysAWayIn == Quiet /\ ~stuck => tray \/ current.hotkey \in live

\* Nothing but the configuration Cubby reports is registered: no hotkey of an earlier
\* choice stays behind, the bridge is live only if it is the hotkey or replaces Win+V,
\* and no hotkey is reported that is not live.
OnlyTheCurrentHotkey ==
    Quiet /\ ~stuck =>
        /\ live = registered
        /\ {current.hotkey} \ {Nothing} \subseteq live
        /\ live \subseteq {current.hotkey} \cup { k \in {Bridge} : current.replace }

\* The helper catches, inside a remote session, the hotkey that is active or the one
\* that is saved, never one that was given up while another is registered.
HelperFollows ==
    Quiet /\ Running /\ current.hotkey # Nothing =>
        helper.child.hotkey \in {current.hotkey, saved.hotkey}

\* What Windows has registered and what the helper catches follow the configuration.
ConfigurationIsFollowed == OnlyTheCurrentHotkey /\ HelperFollows

\* The recovery never applies settings the user has replaced meanwhile: it registers
\* what is saved, or puts back what there was, or nothing.
RecoveryKeepsTheChoice ==
    [][actor.who = "recovery" /\ current' # current =>
           current' \in {Want(saved.hotkey, saved.replace), call.previous, Unset}]_shortcutVars

\* Win+V comes back: while the setting is on and the channel works, the helper is
\* started in the end, unless the recovery has given up before a watchdog ran.
WinVComesBack ==
    channel /\ saved.replace /\ Quiet
        ~> \/ Running \/ ~saved.replace
           \/ ~watchdog /\ count.attempts = MaxAttempts /\ ~recovery.on

=============================================================================
