---------------------------- MODULE ShellProofs -----------------------------
(***************************************************************************)
(* The two halves of the shell.  The flyout: one animation at a time, and  *)
(* where a paste lands, for any number of windows and of callers.  The     *)
(* hotkeys: a way in whatever fails, and what Windows and the helper hold, *)
(* for any hotkeys and any number of failures, deaths and saves.           *)
(***************************************************************************)
EXTENDS Flyout, Shortcuts, TLAPS

----------------------------------------------------------------------------
(* The flyout (Flyout).                                                    *)

\* Only a live worker is anywhere: a kick that finds the latch clear starts the only one.
LatchIsWorker == latch <=> worker # "none"

\* As long as the flyout was not opened over another window, the window remembered is the
\* one it was opened over when the clip was picked.
TargetStands ==
    \/ paste.pc = "none"
    \/ paste.moved
    \/ /\ paste.target = previous
       /\ paste.pc \in {"settle", "keys", "sent"} => previous \notin Manual
       /\ paste.pc = "keys" => paste.into = previous
       /\ paste.pc = "sent" => paste.slipped \/ paste.into = previous

Fields == {"pc", "target", "moved", "into", "slipped"}

Typed ==
    /\ hider \in BOOLEAN /\ latch \in BOOLEAN
    /\ lock \in {None, "worker", "hider", "paste"}
    /\ paste = [f \in Fields |-> paste[f]] /\ paste.moved \in BOOLEAN

IInv == Typed /\ LatchIsWorker /\ OneAnimation /\ TargetStands

----------------------------------------------------------------------------
(* The invariant.                                                          *)

\* At the start no thread lives, nobody holds the lock and no paste is under way.
LEMMA InitInv == Init => IInv
<1> SUFFICES ASSUME Init PROVE IInv
  OBVIOUS
<1> USE FlyoutAssumption DEF Init
<1>1. Typed
  BY DEF Typed, NoPaste, Fields
<1>2. LatchIsWorker
  BY DEF LatchIsWorker
<1>3. paste.pc = "none"
  BY DEF NoPaste
<1>4. OneAnimation
  BY <1>3 DEF OneAnimation, PasteAt
<1> QED
  BY <1>1, <1>2, <1>3, <1>4 DEF IInv, TargetStands

\* Every step keeps the types.
LEMMA NextTyped == ASSUME Typed, [Next]_vars PROVE Typed'
<1>1. /\ lock' \in {lock, None, "worker", "hider", "paste"}
      /\ latch' \in {latch, TRUE, FALSE} /\ hider' \in {hider, TRUE, FALSE}
  BY DEF Next, Worker, Pasting, Toggle, TrayClick, Request, Kick, Latched, WorkerTake,
     WorkerLock, WorkerRemember, WorkerShow, WorkerHide, WorkerPanics, WorkerExit,
     WorkerLooksBack, HiderHides, Blur, WatcherPolls, HideIfIdle, Pick, PasteHide,
     PasteWaits, PasteHides, PasteRestores, PasteSettled, PasteSends, PasteEnds, Elapse,
     ClickOutside, vars, queue, screen
<1>2. paste' = [f \in Fields |-> paste'[f]] /\ paste'.moved \in BOOLEAN
  <2>1. CASE UNCHANGED paste \/ paste' = NoPaste
    <3>1. CASE UNCHANGED paste
      BY <3>1 DEF Typed
    <3>2. CASE paste' = NoPaste
      BY <3>2 DEF NoPaste, Fields
    <3> QED
      BY <2>1, <3>1, <3>2
  <2>2. CASE WorkerRemember
    BY <2>1, <2>2 DEF WorkerRemember, Moves, Typed, Fields
  <2>3. CASE Pick
    BY <2>3 DEF Pick, NoPaste, Fields
  <2>4. CASE Pasting
    BY <2>1, <2>4 DEF Pasting, PasteHide, PasteWaits, PasteHides, PasteRestores,
       PasteSettled, PasteSends, PasteEnds, PasteGoes, Typed, Fields
  <2> QED
    BY <2>1, <2>2, <2>3, <2>4 DEF Next, Worker, Toggle, TrayClick, Kick, WorkerTake,
       WorkerLock, WorkerShow, WorkerHide, WorkerPanics, WorkerExit, WorkerLooksBack,
       HiderHides, Blur, WatcherPolls, Elapse, ClickOutside, vars
<1> QED
  BY <1>1, <1>2 DEF Typed

\* Whoever takes the lock finds it free, and whoever lets go of it had it.
LEMMA NextLock ==
    ASSUME Typed, LatchIsWorker, OneAnimation, [Next]_vars
    PROVE  LatchIsWorker' /\ OneAnimation'
<1> USE FlyoutAssumption DEF Typed, Fields, LatchIsWorker, OneAnimation, PasteAt, queue, screen
<1>1. CASE Toggle \/ TrayClick
  BY <1>1 DEF Toggle, TrayClick, Request
<1>2. CASE Kick
  BY <1>2 DEF Kick, Latched
<1>3. CASE WorkerTake
  BY <1>3 DEF WorkerTake
<1>4. CASE WorkerLock
  BY <1>4 DEF WorkerLock
<1>5. CASE WorkerRemember
  <2>1. paste'.pc = paste.pc
    BY <1>5 DEF WorkerRemember, Moves
  <2> QED
    BY <1>5, <2>1 DEF WorkerRemember
<1>6. CASE WorkerShow
  BY <1>6 DEF WorkerShow
<1>7. CASE WorkerHide
  BY <1>7 DEF WorkerHide
<1>8. CASE WorkerPanics
  BY <1>8 DEF WorkerPanics
<1>9. CASE WorkerExit
  BY <1>9 DEF WorkerExit
<1>10. CASE WorkerLooksBack
  BY <1>10 DEF WorkerLooksBack, Latched
<1>11. CASE HiderHides
  BY <1>11 DEF HiderHides
<1>12. CASE Blur \/ WatcherPolls
  BY <1>12 DEF Blur, WatcherPolls, HideIfIdle
<1>13. CASE Pick
  BY <1>13 DEF Pick, NoPaste
<1>14. CASE PasteHide \/ PasteWaits
  BY <1>14 DEF PasteHide, PasteWaits, PasteGoes
<1>15. CASE PasteHides
  BY <1>15 DEF PasteHides, PasteGoes
<1>16. CASE PasteRestores \/ PasteSettled \/ PasteSends \/ PasteEnds
  <2>1. paste.pc \in {"restore", "settle", "keys", "sent"} /\ paste'.pc # "hide"
    <3>1. NoPaste.pc = "none"
      BY DEF NoPaste
    <3>2. CASE PasteRestores
      BY <3>1, <3>2 DEF PasteRestores
    <3>3. CASE PasteSettled
      BY <3>1, <3>3 DEF PasteSettled
    <3>4. CASE PasteEnds
      BY <3>1, <3>4 DEF PasteEnds
    <3>5. CASE PasteSends
      BY <3>5 DEF PasteSends
    <3> QED
      BY <1>16, <3>2, <3>3, <3>4, <3>5
  <2> QED
    BY <1>16, <2>1 DEF PasteRestores, PasteSettled, PasteSends, PasteEnds
<1>17. CASE Elapse \/ UNCHANGED vars \/ \E w \in Windows : ClickOutside(w)
  BY <1>17 DEF Elapse, vars, ClickOutside
<1> QED
  BY <1>1, <1>2, <1>3, <1>4, <1>5, <1>6, <1>7, <1>8, <1>9, <1>10, <1>11, <1>12, <1>13,
     <1>14, <1>15, <1>16, <1>17 DEF Next, Worker, Pasting

\* The window remembered only changes when the flyout is shown, which a paste under way
\* is told, or when it is given up together with the paste.
LEMMA NextTarget == ASSUME Typed, TargetStands, [Next]_vars PROVE TargetStands'
<1>1. CASE UNCHANGED <<paste, previous>>
  BY <1>1 DEF Typed, TargetStands
<1>2. CASE WorkerRemember
  <2>1. CASE UNCHANGED <<paste, previous>>
    BY <1>1, <2>1
  <2>2. CASE previous' = focus /\ paste' = Moves(focus)
    <3>1. CASE paste' = paste /\ (paste.pc = "none" \/ paste.target = focus)
      BY <2>2, <3>1 DEF Typed, TargetStands
    <3>2. CASE paste' = [paste EXCEPT !.target = None, !.moved = TRUE]
      BY <3>2 DEF Typed, TargetStands, Fields
    <3> QED
      BY <2>2, <3>1, <3>2 DEF Moves
  <2> QED
    BY <1>2, <2>1, <2>2 DEF WorkerRemember
<1>3. CASE Pick
  <2>1. paste' = [pc |-> "write", target |-> previous, moved |-> FALSE, into |-> None,
                 slipped |-> FALSE]
        /\ previous' = previous
    BY <1>3 DEF Pick, NoPaste
  <2> QED
    BY <2>1 DEF Typed, TargetStands, Fields
<1>4. ASSUME NEW pc \in {"wait", "hide", "unlocked", "restore"}, PasteGoes(pc),
             paste.pc # "none", UNCHANGED previous
      PROVE  TargetStands'
  BY <1>4 DEF PasteGoes, Typed, TargetStands, Fields
<1>5. CASE PasteHide \/ PasteWaits \/ PasteHides
  BY <1>4, <1>5 DEF PasteHide, PasteWaits, PasteHides, PasteAt
<1>6. ASSUME paste' = NoPaste PROVE TargetStands'
  BY <1>6 DEF Typed, TargetStands, NoPaste, Fields
<1>7. CASE PasteRestores
  <2>1. CASE paste' = [paste EXCEPT !.pc = "settle"] /\ previous \notin Manual
             /\ previous' = previous /\ paste.pc = "restore"
    BY <2>1 DEF Typed, TargetStands, Fields
  <2> QED
    BY <1>6, <1>7, <2>1 DEF PasteRestores, PasteAt
<1>8. CASE PasteSettled
  <2>1. CASE paste' = [paste EXCEPT !.pc = "keys", !.into = focus] /\ focus = previous
             /\ previous' = previous /\ paste.pc = "settle"
    BY <2>1 DEF Typed, TargetStands, Fields
  <2> QED
    BY <1>6, <1>8, <2>1 DEF PasteSettled, PasteAt
<1>9. CASE PasteSends
  <2>1. /\ paste' = [paste EXCEPT !.pc = "sent", !.into = focus, !.slipped = focus # paste.into]
        /\ previous' = previous /\ paste.pc = "keys"
    BY <1>9 DEF PasteSends, PasteAt
  <2> QED
    BY <2>1 DEF Typed, TargetStands, Fields
<1>10. CASE PasteEnds
  BY <1>6, <1>10 DEF PasteEnds
<1>11. CASE \/ Toggle \/ TrayClick \/ Kick \/ WorkerTake \/ WorkerLock \/ WorkerShow
            \/ WorkerHide \/ WorkerExit \/ WorkerPanics \/ WorkerLooksBack \/ HiderHides
            \/ Blur \/ WatcherPolls \/ Elapse \/ UNCHANGED vars
            \/ \E w \in Windows : ClickOutside(w)
  BY <1>1, <1>11 DEF Toggle, TrayClick, Request, Kick, WorkerTake, WorkerLock, WorkerShow,
     WorkerHide, WorkerExit, WorkerPanics, WorkerLooksBack, HiderHides, Blur, WatcherPolls,
     Elapse, vars, ClickOutside
<1> QED
  BY <1>2, <1>3, <1>5, <1>7, <1>8, <1>9, <1>10, <1>11 DEF Next, Worker, Pasting

----------------------------------------------------------------------------

\* Every step keeps the invariant.
LEMMA NextInv == ASSUME IInv, [Next]_vars PROVE IInv'
BY NextTyped, NextLock, NextTarget DEF IInv

\* One animation at a time, for any number of threads that ask for one (OneAnimation;
\* AnimationGuard, FlyoutWorkerGuard).
THEOREM OneAtATime == Spec => []OneAnimation
<1>1. IInv => OneAnimation
  BY DEF IInv
<1> QED
  BY <1>1, InitInv, NextInv, PTL DEF Spec

\* Ctrl+V goes to the window the clip was picked over, and never to one that wants it
\* pressed by hand, unless the flyout was opened over another one since, or a window takes
\* the focus between the look at it and the keys (PasteLandsWhereChosen;
\* send_paste_after_settle).
THEOREM LandsWhereChosen == Spec => []PasteLandsWhereChosen
<1>1. IInv => PasteLandsWhereChosen
  BY DEF IInv, TargetStands, PasteLandsWhereChosen, PasteAt
<1> QED
  BY <1>1, InitInv, NextInv, PTL DEF Spec

----------------------------------------------------------------------------
(* The hotkeys (Shortcuts).                                                *)

\* Who is at work, and whether a registration is under way for it.  The recovery works
\* on what is saved, since nothing is saved meanwhile.
Actors ==
    /\ Quiet <=> actor.pc = "idle"
    /\ call.pc # "none" <=>
          \/ actor.who = "start" /\ actor.pc \in {"register", "fallback"}
          \/ actor.who = "recovery"
          \/ actor.who = "save" /\ actor.pc \in {"register", "restore"}
    /\ actor.who = "recovery" => /\ actor.pc = "register" /\ actor.new = saved
                                 /\ call.want = Want(saved.hotkey, saved.replace)
                                 /\ recovery.hotkey = saved.hotkey
    /\ call.pc # "none" => call.want.hotkey \in Hotkeys
    /\ call.pc \in {"release", "register", "restore"} => call.previous = current

\* What a configuration may have live.
Extent(c) == {c.hotkey} \cup { k \in {Bridge} : c.replace }

\* Unless Windows has refused to release a hotkey, what is live is what is current, and
\* nothing is between the release and the new registration.
Registered ==
    ~stuck => /\ live = registered
              /\ IF call.pc \in {"register", "restore"} THEN live = {}
                 ELSE /\ {current.hotkey} \ {Nothing} \subseteq live
                      /\ live \subseteq Extent(current)

\* Without a hotkey there is the tray icon, at any moment.
WayIn ==
    /\ ready = (current.hotkey # Nothing)
    /\ current.hotkey = Nothing => tray

\* The helper is given the hotkey that is current, or another one.
Given(k) ==
    helper.desired /\ current.hotkey # Nothing => helper.hotkey \in {current.hotkey, k}

\* The process that runs was started with the hotkey the helper has been given.
ChildFits == Running => helper.desired /\ helper.child.hotkey = helper.hotkey

\* The hotkey of a helper that is wanted is current or saved or, before a save ends, will
\* be saved.
Helped ==
    /\ ChildFits
    /\ helper.desired => channel
    /\ actor.who = "start" => ~helper.desired
    /\ Quiet => Given(saved.hotkey)
    /\ At("save", "register") /\ ~Returned("ok") => Given(saved.hotkey)
    /\ actor.who = "save" /\ actor.pc \in {"autostart", "write"} => Given(actor.new.hotkey)

HotkeyInv == ShortcutTypeOK /\ Actors /\ Registered /\ WayIn /\ Helped

----------------------------------------------------------------------------

\* What the constants promise.
LEMMA ShortcutBounds ==
    /\ MaxTakes \in Nat /\ MaxFailures \in Nat /\ MaxDeaths \in Nat /\ MaxSaves \in Nat
    /\ MaxAttempts \in Nat
BY ShortcutsAssumption

\* The fallback is not the bridge, and both are hotkeys to register.
LEMMA DistinctKeys ==
    /\ Fallback # Bridge /\ Fallback # Nothing /\ Bridge # Nothing
    /\ Nothing \notin AllKeys /\ Nothing \notin Hotkeys /\ Nothing \notin Keys
    /\ Keys \subseteq Hotkeys /\ Fallback \in Hotkeys
    /\ Hotkeys \subseteq AllKeys /\ Bridge \in AllKeys
BY ShortcutsAssumption DEF Hotkeys, AllKeys

\* The types of the records.
HelperType == [desired : BOOLEAN, hotkey : Hotkeys \cup {Nothing},
               child : [hotkey : Hotkeys \cup {Nothing}, alive : BOOLEAN]]
CallType == [pc : {"none", "release", "register", "restore", "ok", "err"},
             want : Configuration, previous : Configuration]
Places == {"idle", "register", "fallback", "helper", "autostart", "write", "restore",
           "restoreHelper"}
ActorType == [who : {"none", "start", "save", "recovery"}, pc : Places, new : Prefs]
CountType == [takes : 0 .. MaxTakes, failures : 0 .. MaxFailures, deaths : 0 .. MaxDeaths,
              saves : 0 .. MaxSaves, attempts : 0 .. MaxAttempts]

\* No configuration.
LEMMA UnsetFields == Unset \in Configuration /\ Unset.hotkey = Nothing /\ Unset.replace = FALSE
BY DEF Unset, Configuration

\* The fields of the records.
LEMMA CallFields ==
    ASSUME ShortcutTypeOK
    PROVE  /\ call \in CallType /\ current \in Configuration
           /\ call.want \in Configuration /\ call.previous \in Configuration
           /\ current.hotkey \in Hotkeys \cup {Nothing} /\ current.replace \in BOOLEAN
           /\ call.previous.hotkey \in Hotkeys \cup {Nothing}
           /\ call.want.hotkey \in Hotkeys \cup {Nothing}
BY DEF ShortcutTypeOK, CallType, Configuration

\* Those of the helper.
LEMMA HelperFields ==
    ASSUME ShortcutTypeOK
    PROVE  /\ helper \in HelperType /\ helper.desired \in BOOLEAN
           /\ helper.hotkey \in Hotkeys \cup {Nothing}
           /\ helper.child \in [hotkey : Hotkeys \cup {Nothing}, alive : BOOLEAN]
           /\ helper.child.hotkey \in Hotkeys \cup {Nothing}
           /\ helper.child.alive \in BOOLEAN
BY DEF ShortcutTypeOK, HelperType

\* Where a step of an actor leaves it.
LEMMA ActorMoves ==
    ASSUME ShortcutTypeOK
    PROVE  /\ \A pc \in Places : GoOn(pc) => /\ actor' \in ActorType /\ actor'.pc = pc
                                             /\ actor'.who = actor.who
                                             /\ actor'.new = actor.new
           /\ Done => /\ actor' \in ActorType /\ actor'.pc = "idle" /\ actor'.who = "none"
                      /\ actor'.new = actor.new
           /\ actor.new \in Prefs /\ saved \in Prefs
           /\ saved.hotkey \in Hotkeys /\ saved.replace \in BOOLEAN
           /\ actor.new.hotkey \in Hotkeys /\ actor.new.replace \in BOOLEAN
<1>1. actor \in ActorType
  BY DEF ShortcutTypeOK, ActorType, Places
<1> QED
  BY <1>1 DEF ActorType, GoOn, Done, Places, Prefs, ShortcutTypeOK, Hotkeys

\* What a configuration adds is its hotkey, and the bridge for Win+V only.
LEMMA AddedKeys ==
    ASSUME NEW c \in Configuration, c.hotkey \in Hotkeys
    PROVE  /\ Added(c) \subseteq AllKeys /\ c.hotkey \in Added(c)
           /\ Added(c) \subseteq Extent(c)
BY DistinctKeys DEF Added, Extent

\* A call that begins, and one that is over.
LEMMA CallBegun ==
    ASSUME ShortcutTypeOK, NEW k \in Hotkeys, NEW r \in BOOLEAN, Called(k, r)
    PROVE  /\ call' \in CallType /\ call'.want = Want(k, r) /\ call'.want.hotkey = k
           /\ call'.previous = current /\ call'.pc \in {"ok", "release"}
           /\ call'.pc = "ok" <=> current = Want(k, r)
<1>1. Want(k, r) \in Configuration /\ Want(k, r).hotkey = k
  BY DEF Want, Configuration
<1>2. current \in Configuration
  BY CallFields
<1>3. /\ call'.pc \in {"ok", "release"} /\ (call'.pc = "ok" <=> current = Want(k, r))
      /\ call'.want = Want(k, r) /\ call'.previous = current
      /\ call' = [pc |-> call'.pc, want |-> Want(k, r), previous |-> current]
  BY DEF Called
<1>4. call' \in CallType
  BY <1>1, <1>2, <1>3 DEF CallType
<1> QED
  BY <1>1, <1>3, <1>4

\* No call is under way.
LEMMA CallEnded == CallOver => call' \in CallType /\ call'.pc = "none"
BY UnsetFields DEF CallOver, NoCall, CallType

\* A process runs only for a helper that is wanted, and with its hotkey.
LEMMA ChildTypes ==
    ASSUME ShortcutTypeOK, NEW e \in BOOLEAN, NEW k \in Hotkeys \cup {Nothing}
    PROVE  /\ Child(e, k) \in [hotkey : Hotkeys \cup {Nothing}, alive : BOOLEAN]
           /\ ChildFits /\ Child(e, k).alive => e /\ Child(e, k).hotkey = k
<1>1. CASE Kept(e, k)
  BY <1>1, HelperFields DEF Child, Kept, Running, ChildFits
<1>2. CASE ~Kept(e, k) /\ e = TRUE
  <2>1. Child(e, k) = [hotkey |-> k, alive |-> TRUE]
    BY <1>2 DEF Child
  <2> QED
    BY <1>2, <2>1
<1>3. CASE ~Kept(e, k) /\ e = FALSE
  <2>1. Child(e, k) = [hotkey |-> Nothing, alive |-> FALSE]
    BY <1>3 DEF Child, NoChild
  <2> QED
    BY <2>1
<1> QED
  BY <1>1, <1>2, <1>3

\* configure leaves the helper with the hotkey it was given, or, without a channel,
\* unwanted.
LEMMA Configures ==
    ASSUME ShortcutTypeOK, ChildFits, helper.desired => channel, channel \in BOOLEAN,
           NEW e \in BOOLEAN, NEW k \in Hotkeys,
           ConfigureDone(e, k) \/ ConfigureFailed(e, k), UNCHANGED channel
    PROVE  /\ helper' \in HelperType /\ ChildFits'
           /\ helper'.desired => channel
           /\ \/ helper'.hotkey = k
              \/ ~channel /\ helper' = helper /\ ~helper'.desired
<1>1. CASE ConfigureDone(e, k)
  <2> DEFINE c == Child(e, k)
  <2>1. /\ c \in [hotkey : Hotkeys \cup {Nothing}, alive : BOOLEAN]
        /\ c.alive => e /\ c.hotkey = k
    BY ChildTypes
  <2>2. helper' = [desired |-> e, hotkey |-> k, child |-> c] /\ (e => channel)
    BY <1>1 DEF ConfigureDone
  <2> HIDE DEF c
  <2>3. helper'.desired = e /\ helper'.hotkey = k /\ helper'.child = c
    BY <2>2
  <2>4. helper' \in HelperType
    BY <2>1, <2>2 DEF HelperType
  <2> QED
    BY <2>1, <2>2, <2>3, <2>4 DEF ChildFits, Running
<1>2. CASE ConfigureFailed(e, k) /\ channel
  <2>1. helper' = [desired |-> TRUE, hotkey |-> k, child |-> NoChild]
    BY <1>2 DEF ConfigureFailed
  <2>2. NoChild \in [hotkey : Hotkeys \cup {Nothing}, alive : BOOLEAN] /\ ~NoChild.alive
    BY DEF NoChild
  <2> QED
    BY <1>2, <2>1, <2>2 DEF HelperType, ChildFits, Running
<1>3. CASE ConfigureFailed(e, k) /\ ~channel
  BY <1>3, HelperFields DEF ConfigureFailed, ChildFits, Running
<1> QED
  BY <1>1, <1>2, <1>3

\* The watchdog starts the process with the hotkey the helper has.
LEMMA WatchdogHelper ==
    ASSUME ShortcutTypeOK, ChildFits, WatchdogRestart
    PROVE  /\ helper' \in HelperType /\ ChildFits'
           /\ helper'.desired = helper.desired /\ helper'.hotkey = helper.hotkey
<1> DEFINE c == Child(TRUE, helper.hotkey)
<1>1. /\ c \in [hotkey : Hotkeys \cup {Nothing}, alive : BOOLEAN]
      /\ c.alive => c.hotkey = helper.hotkey
  BY ChildTypes, HelperFields
<1>2. NoChild \in [hotkey : Hotkeys \cup {Nothing}, alive : BOOLEAN] /\ ~NoChild.alive
  BY DEF NoChild
<1>3. helper' = [helper EXCEPT !.child = c] \/ helper' = [helper EXCEPT !.child = NoChild]
  BY DEF WatchdogRestart
<1>4. helper.desired
  BY DEF WatchdogRestart
<1> HIDE DEF c
<1> QED
  BY <1>1, <1>2, <1>3, <1>4, HelperFields DEF HelperType, ChildFits, Running

----------------------------------------------------------------------------

\* The types.
LEMMA ShortcutTypeStep ==
    ASSUME ShortcutTypeOK, Actors, Helped, [ShortcutNext]_shortcutVars
    PROVE  ShortcutTypeOK'
<1>1. CASE Release
  <2>1. /\ saved' \in Prefs /\ taken' \subseteq AllKeys
        /\ live' \subseteq AllKeys /\ registered' \subseteq AllKeys
    BY <1>1, ShortcutBounds, DistinctKeys DEF ShortcutTypeOK, Release, process, Want, Added
  <2>2. {ready, tray, watchdog, channel, stuck}' \subseteq BOOLEAN
    BY <1>1, ShortcutBounds, DistinctKeys DEF ShortcutTypeOK, Release, process, Prefs
  <2>3. call' \in CallType
    BY <1>1, ShortcutBounds, DistinctKeys DEF ShortcutTypeOK, Release, process, CallType,
       Configuration, Want, NoCall, Unset, Prefs
  <2>4. count' \in CountType
    BY <1>1, ShortcutBounds, DistinctKeys DEF ShortcutTypeOK, Release, process, CountType
  <2> QED
    BY <1>1, <2>1, <2>2, <2>3, <2>4 DEF ShortcutTypeOK, HelperType, CallType, ActorType,
       CountType, Places, Release, windows, process
<1>2. CASE Register
  <2>1. /\ saved' \in Prefs /\ taken' \subseteq AllKeys
        /\ live' \subseteq AllKeys /\ registered' \subseteq AllKeys
    BY <1>2, CallFields, AddedKeys DEF Register, ShortcutTypeOK, Actors
  <2>2. current' \in Configuration
    BY <1>2, ShortcutBounds, DistinctKeys DEF ShortcutTypeOK, Register, CanRegister, process,
       Configuration, Want, Unset
  <2>3. {ready, tray, watchdog, channel, stuck}' \subseteq BOOLEAN
    BY <1>2, ShortcutBounds, DistinctKeys DEF ShortcutTypeOK, Register, CanRegister, process,
       Prefs
  <2>4. call' \in CallType
    BY <1>2, ShortcutBounds, DistinctKeys DEF ShortcutTypeOK, Register, CanRegister, process,
       CallType, Configuration, Want, NoCall, Unset, Prefs
  <2> QED
    BY <1>2, <2>1, <2>2, <2>3, <2>4 DEF ShortcutTypeOK, HelperType, CallType, ActorType,
       CountType, Places, Register, windows, process
<1>3. CASE Restore
  <2>1. /\ saved' \in Prefs /\ taken' \subseteq AllKeys
        /\ live' \subseteq AllKeys /\ registered' \subseteq AllKeys
    BY <1>3, CallFields, AddedKeys DEF Restore, ShortcutTypeOK, Actors
  <2>2. current' \in Configuration
    BY <1>3, CallFields, UnsetFields DEF Restore
  <2>3. {ready, tray, watchdog, channel, stuck}' \subseteq BOOLEAN
    BY <1>3, ShortcutBounds, DistinctKeys DEF ShortcutTypeOK, Restore, CanRegister, TrayFor,
       process, Prefs
  <2>4. call' \in CallType
    BY <1>3, ShortcutBounds, DistinctKeys DEF ShortcutTypeOK, Restore, CanRegister, TrayFor,
       process, CallType, Configuration, Want, NoCall, Unset, Prefs
  <2> QED
    BY <1>3, <2>1, <2>2, <2>3, <2>4 DEF ShortcutTypeOK, HelperType, CallType, ActorType,
       CountType, Places, Restore, windows, process
<1>4. CASE StartRegistered
  <2>1. call' \in CallType
    BY <1>4, CallBegun, CallEnded, CallFields, ActorMoves, DistinctKeys DEF StartRegistered
  <2>2. actor' \in ActorType
    BY <1>4, ActorMoves DEF StartRegistered, Places
  <2> QED
    BY <1>4, <2>1, <2>2 DEF ShortcutTypeOK, HelperType, CallType, ActorType, CountType, Places,
       StartRegistered, windows, process
<1>5. CASE StartHelper
  <2>1. {ready, tray, watchdog, channel, stuck}' \subseteq BOOLEAN
    BY <1>5, ShortcutBounds, DistinctKeys DEF ShortcutTypeOK, StartHelper, At, NoticeFor,
       ConfigureDone, ConfigureFailed, TrayFor, Done, Child, Kept, Running, Prefs
  <2>2. helper' \in HelperType
    <3> DEFINE k == IF current.hotkey = Nothing THEN saved.hotkey ELSE current.hotkey
    <3>1. saved.replace \in BOOLEAN /\ k \in Hotkeys /\ channel' = channel /\ channel \in BOOLEAN
      BY <1>5, ActorMoves, CallFields, DistinctKeys DEF StartHelper, Actors, ShortcutTypeOK, At
    <3>2. ConfigureDone(saved.replace, k) \/ ConfigureFailed(saved.replace, k)
      BY <1>5 DEF StartHelper, process
    <3> HIDE DEF k
    <3> QED
      BY <3>1, <3>2, Configures, HelperFields DEF Helped
  <2>3. notice' \in {Nothing, "failed", "fallback_hotkey", "win_v_disabled"}
    BY <1>5, ShortcutBounds, DistinctKeys DEF ShortcutTypeOK, StartHelper, At, NoticeFor,
       ConfigureDone, ConfigureFailed, TrayFor, Done, Child, Kept, Running
  <2>4. actor' \in ActorType
    BY <1>5, ActorMoves DEF StartHelper, Places
  <2>5. recovery' \in [on : BOOLEAN, hotkey : Keys \cup {Nothing}]
    BY <1>5, ShortcutBounds, DistinctKeys DEF ShortcutTypeOK, StartHelper, At, NoticeFor,
       ConfigureDone, ConfigureFailed, TrayFor, Done, Child, Kept, Running
  <2>6. count' \in CountType
    BY <1>5, ShortcutBounds, DistinctKeys DEF ShortcutTypeOK, StartHelper, At, NoticeFor,
       ConfigureDone, ConfigureFailed, TrayFor, Done, Child, Kept, Running, CountType
  <2> QED
    BY <1>5, <2>1, <2>2, <2>3, <2>4, <2>5, <2>6 DEF ShortcutTypeOK, HelperType, CallType,
       ActorType, CountType, Places, StartHelper, windows, process
<1>6. CASE RecoveryHelper
  <2>1. {ready, tray, watchdog, channel, stuck}' \subseteq BOOLEAN
    BY <1>6, ShortcutBounds, DistinctKeys DEF ShortcutTypeOK, RecoveryHelper, At, Returned,
       TrayFor, ConfigureDone, process, ConfigureFailed, CallOver, Done, Child, Kept, Running,
       Prefs
  <2>2. helper' \in HelperType
    <3> DEFINE k == IF Returned("ok") \/ current.hotkey = Nothing THEN recovery.hotkey
                    ELSE current.hotkey
    <3>1. /\ actor.new.replace \in BOOLEAN /\ k \in Hotkeys
          /\ channel' = channel /\ channel \in BOOLEAN
      BY <1>6, ActorMoves, CallFields, DistinctKeys DEF RecoveryHelper, Actors, ShortcutTypeOK, At
    <3>2. \/ ConfigureDone(actor.new.replace, k) \/ ConfigureFailed(actor.new.replace, k)
          \/ ~channel /\ helper' = helper
      BY <1>6 DEF RecoveryHelper, process
    <3> HIDE DEF k
    <3> QED
      BY <3>1, <3>2, Configures, HelperFields DEF Helped
  <2>3. notice' \in {Nothing, "failed", "fallback_hotkey", "win_v_disabled"}
    BY <1>6, ShortcutBounds, DistinctKeys DEF ShortcutTypeOK, RecoveryHelper, At, Returned,
       TrayFor, ConfigureDone, process, ConfigureFailed, CallOver, Done, Child, Kept, Running
  <2>4. call' \in CallType
    BY <1>6, CallBegun, CallEnded, CallFields, ActorMoves, DistinctKeys DEF RecoveryHelper
  <2>5. actor' \in ActorType
    BY <1>6, ActorMoves DEF RecoveryHelper, Places
  <2>6. recovery' \in [on : BOOLEAN, hotkey : Keys \cup {Nothing}]
    <3>1. recovery' = recovery \/ recovery' = [recovery EXCEPT !.on = FALSE]
      BY <1>6 DEF RecoveryHelper
    <3> QED
      BY <3>1 DEF ShortcutTypeOK
  <2>7. count' \in CountType
    BY <1>6, ShortcutBounds, DistinctKeys DEF ShortcutTypeOK, RecoveryHelper, At, Returned,
       TrayFor, ConfigureDone, process, ConfigureFailed, CallOver, Done, Child, Kept, Running,
       CountType
  <2> QED
    BY <1>6, <2>1, <2>2, <2>3, <2>4, <2>5, <2>6, <2>7 DEF ShortcutTypeOK, HelperType, CallType,
       ActorType, CountType, Places, RecoveryHelper, windows, process
<1>7. CASE SaveRegistered
  <2>1. call' \in CallType
    BY <1>7, CallBegun, CallEnded, CallFields, ActorMoves, DistinctKeys DEF SaveRegistered
  <2>2. actor' \in ActorType
    BY <1>7, ActorMoves DEF SaveRegistered, Places
  <2> QED
    BY <1>7, <2>1, <2>2 DEF ShortcutTypeOK, HelperType, CallType, ActorType, CountType, Places,
       SaveRegistered, windows, process
<1>8. CASE SaveHelper
  <2>1. {ready, tray, watchdog, channel, stuck}' \subseteq BOOLEAN
    BY <1>8, ShortcutBounds, DistinctKeys DEF ShortcutTypeOK, SaveHelper, At, SaveUndone, GoOn,
       process, ConfigureDone, ConfigureFailed, windows, Called, Child, Kept, Running, Prefs
  <2>2. helper' \in HelperType
    <3> DEFINE k == actor.new.hotkey
    <3>1. /\ actor.new.replace \in BOOLEAN /\ k \in Hotkeys
          /\ channel' = channel /\ channel \in BOOLEAN
      BY <1>8, ActorMoves, CallFields, DistinctKeys DEF SaveHelper, Actors, ShortcutTypeOK, At
    <3>2. \/ ConfigureDone(actor.new.replace, k) \/ ConfigureFailed(actor.new.replace, k)
          \/ ~channel /\ helper' = helper
      BY <1>8 DEF SaveHelper, process
    <3> HIDE DEF k
    <3> QED
      BY <3>1, <3>2, Configures, HelperFields DEF Helped
  <2>3. call' \in CallType
    BY <1>8, CallBegun, CallEnded, CallFields, ActorMoves, DistinctKeys DEF SaveHelper,
       SaveUndone
  <2>4. actor' \in ActorType
    BY <1>8, ActorMoves DEF SaveHelper, Places, SaveUndone
  <2>5. count' \in CountType
    BY <1>8, ShortcutBounds, DistinctKeys DEF ShortcutTypeOK, SaveHelper, At, SaveUndone, GoOn,
       process, ConfigureDone, ConfigureFailed, windows, Called, Child, Kept, Running,
       CountType
  <2> QED
    BY <1>8, <2>1, <2>2, <2>3, <2>4, <2>5 DEF ShortcutTypeOK, HelperType, CallType, ActorType,
       CountType, Places, SaveHelper, windows, process
<1>9. CASE SaveGoesOn
  <2>1. /\ saved' \in Prefs /\ taken' \subseteq AllKeys
        /\ live' \subseteq AllKeys /\ registered' \subseteq AllKeys
    BY <1>9, ShortcutBounds, DistinctKeys DEF ShortcutTypeOK, SaveGoesOn, GoOn, Changed,
       SaveUndone, Done, process, Called, Want, Added
  <2>2. {ready, tray, watchdog, channel, stuck}' \subseteq BOOLEAN
    BY <1>9, ShortcutBounds, DistinctKeys DEF ShortcutTypeOK, SaveGoesOn, GoOn, Changed,
       SaveUndone, Done, process, Called, Prefs
  <2>3. call' \in CallType
    BY <1>9, CallBegun, CallEnded, CallFields, ActorMoves, DistinctKeys DEF SaveGoesOn,
       SaveUndone
  <2>4. actor' \in ActorType
    BY <1>9, ActorMoves DEF SaveGoesOn, Places, SaveUndone
  <2>5. count' \in CountType
    BY <1>9, ShortcutBounds, DistinctKeys DEF ShortcutTypeOK, SaveGoesOn, GoOn, Changed,
       SaveUndone, Done, process, Called, CountType
  <2> QED
    BY <1>9, <2>1, <2>2, <2>3, <2>4, <2>5 DEF ShortcutTypeOK, HelperType, CallType, ActorType,
       CountType, Places, SaveGoesOn, windows, process
<1>10. CASE SaveRestored
  BY <1>10, ShortcutBounds, DistinctKeys DEF ShortcutTypeOK, Actors, Helped, SaveRestored,
     Quiet, ChildFits, Given, At, Returned, CallOver, GoOn, windows, process, Running, Prefs,
     Configuration, Unset, NoChild, NoCall, Want, Added, Hotkeys, AllKeys
<1>11. CASE SaveHelperRestored
  <2>1. {ready, tray, watchdog, channel, stuck}' \subseteq BOOLEAN
    BY <1>11, ShortcutBounds, DistinctKeys DEF ShortcutTypeOK, SaveHelperRestored, At,
       ConfigureDone, ConfigureFailed, Done, windows, Child, Kept, Running, Prefs
  <2>2. helper' \in HelperType
    <3> DEFINE k == saved.hotkey
    <3>1. saved.replace \in BOOLEAN /\ k \in Hotkeys /\ channel' = channel /\ channel \in BOOLEAN
      BY <1>11, ActorMoves, CallFields, DistinctKeys
      DEF SaveHelperRestored, Actors, ShortcutTypeOK, At
    <3>2. ConfigureDone(saved.replace, k) \/ ConfigureFailed(saved.replace, k)
      BY <1>11 DEF SaveHelperRestored, process
    <3> HIDE DEF k
    <3> QED
      BY <3>1, <3>2, Configures, HelperFields DEF Helped
  <2>3. actor' \in ActorType
    BY <1>11, ActorMoves DEF SaveHelperRestored, Places
  <2>4. count' \in CountType
    BY <1>11, ShortcutBounds, DistinctKeys DEF ShortcutTypeOK, SaveHelperRestored, At,
       ConfigureDone, ConfigureFailed, Done, windows, Child, Kept, Running, CountType
  <2> QED
    BY <1>11, <2>1, <2>2, <2>3, <2>4 DEF ShortcutTypeOK, HelperType, CallType, ActorType,
       CountType, Places, SaveHelperRestored, windows, process
<1>12. CASE RecoveryBegins
  <2>1. notice' \in {Nothing, "failed", "fallback_hotkey", "win_v_disabled"}
    BY <1>12, ShortcutBounds, DistinctKeys DEF ShortcutTypeOK, RecoveryBegins, Called, windows,
       process
  <2>2. call' \in CallType
    BY <1>12, CallBegun, CallEnded, CallFields, ActorMoves, DistinctKeys DEF RecoveryBegins
  <2>3. actor' \in ActorType
    BY <1>12, ShortcutBounds, DistinctKeys DEF ShortcutTypeOK, RecoveryBegins, Called, windows,
       process, ActorType, Places
  <2>4. recovery' \in [on : BOOLEAN, hotkey : Keys \cup {Nothing}]
    BY <1>12, ShortcutBounds, DistinctKeys DEF ShortcutTypeOK, RecoveryBegins, Called, windows,
       process
  <2>5. count' \in CountType
    BY <1>12, ShortcutBounds, DistinctKeys DEF ShortcutTypeOK, RecoveryBegins, Called, windows,
       process, CountType
  <2> QED
    BY <1>12, <2>1, <2>2, <2>3, <2>4, <2>5 DEF ShortcutTypeOK, HelperType, CallType, ActorType,
       CountType, Places, RecoveryBegins, windows, process
<1>13. CASE RecoveryGivesUp
  <2>1. recovery' \in [on : BOOLEAN, hotkey : Keys \cup {Nothing}]
    BY <1>13, ShortcutBounds, DistinctKeys DEF ShortcutTypeOK, RecoveryGivesUp, windows, process
  <2> QED
    BY <1>13, <2>1 DEF ShortcutTypeOK, HelperType, CallType, ActorType, CountType, Places,
       RecoveryGivesUp, windows, process
<1>14. CASE WatchdogRestart
  <2>1. helper' \in HelperType
    BY <1>14, WatchdogHelper DEF Helped
  <2>2. count' \in CountType
    BY <1>14, ShortcutBounds, DistinctKeys DEF ShortcutTypeOK, WatchdogRestart, Running, Child,
       windows, Kept, CountType
  <2> QED
    BY <1>14, <2>1, <2>2 DEF ShortcutTypeOK, HelperType, CallType, ActorType, CountType, Places,
       WatchdogRestart, windows, process
<1>15. ASSUME NEW new \in Prefs, SaveBegins(new) PROVE ShortcutTypeOK'
  BY <1>15, ShortcutBounds, DistinctKeys DEF ShortcutTypeOK, Actors, Helped, SaveBegins,
     Quiet, ChildFits, Given, At, Returned, Called, windows, process, Running, Prefs,
     Configuration, Unset, NoChild, NoCall, Want, Added, Hotkeys, AllKeys
<1>16. CASE HelperDies
  <2>1. helper' \in HelperType
    BY <1>16, ShortcutBounds, DistinctKeys DEF ShortcutTypeOK, HelperDies, Running, windows,
       HelperType, Prefs, NoChild, Configuration
  <2>2. count' \in CountType
    BY <1>16, ShortcutBounds, DistinctKeys DEF ShortcutTypeOK, HelperDies, Running, windows,
       CountType
  <2> QED
    BY <1>16, <2>1, <2>2 DEF ShortcutTypeOK, HelperType, CallType, ActorType, CountType, Places,
       HelperDies, windows, process
<1>17. CASE OthersChange
  BY <1>17, ShortcutBounds, DistinctKeys DEF ShortcutTypeOK, Actors, Helped, OthersChange,
     Quiet, ChildFits, Given, At, Returned, process, Running, Prefs, Configuration, Unset,
     NoChild, NoCall, Want, Added, Hotkeys, AllKeys
<1>18. CASE NoticeShown
  BY <1>18, ShortcutBounds, DistinctKeys DEF ShortcutTypeOK, Actors, Helped, NoticeShown,
     Quiet, ChildFits, Given, At, Returned, windows, process, Running, Prefs, Configuration,
     Unset, NoChild, NoCall, Want, Added, Hotkeys, AllKeys
<1>19. CASE UNCHANGED shortcutVars
  BY <1>19 DEF ShortcutTypeOK, Actors, Helped, Quiet, ChildFits, Given, At, Returned, Running,
     process, Prefs, Configuration, Unset, NoChild, NoCall, Want, Added, Hotkeys, AllKeys,
     shortcutVars
<1> QED
  BY <1>1, <1>2, <1>3, <1>4, <1>5, <1>6, <1>7, <1>8, <1>9, <1>10, <1>11, <1>12, <1>13, <1>14,
     <1>15, <1>16, <1>17, <1>18, <1>19 DEF ShortcutNext, Programme

\* One actor at a time, and its call with it.
LEMMA ActorsStep ==
    ASSUME ShortcutTypeOK, Actors, [ShortcutNext]_shortcutVars
    PROVE  Actors'
<1>1. CASE Release
  BY <1>1, ShortcutBounds, DistinctKeys DEF ShortcutTypeOK, Actors, Release, Quiet, process,
     Hotkeys, Configuration, Prefs, NoCall, Want, Unset
<1>2. CASE Register
  BY <1>2, ShortcutBounds, DistinctKeys DEF ShortcutTypeOK, Actors, Register, Quiet,
     CanRegister, process, Hotkeys, Configuration, Prefs, NoCall, Want, Unset
<1>3. CASE Restore
  BY <1>3, ShortcutBounds, DistinctKeys DEF ShortcutTypeOK, Actors, Restore, Quiet,
     CanRegister, TrayFor, process, Hotkeys, Configuration, Prefs, NoCall, Want, Unset
<1>4. CASE StartRegistered
  BY <1>4, ShortcutBounds, DistinctKeys DEF ShortcutTypeOK, Actors, StartRegistered, Quiet,
     Returned, CallOver, GoOn, Called, windows, process, Hotkeys, Configuration, Prefs,
     NoCall, Want, Unset
<1>5. CASE StartHelper
  BY <1>5, ShortcutBounds, DistinctKeys DEF ShortcutTypeOK, Actors, StartHelper, Quiet, At,
     NoticeFor, ConfigureDone, ConfigureFailed, TrayFor, Done, Child, Kept, Running, Hotkeys,
     Configuration, Prefs, NoCall, Want, Unset
<1>6. CASE RecoveryHelper
  BY <1>6, ShortcutBounds, DistinctKeys DEF ShortcutTypeOK, Actors, RecoveryHelper, Quiet, At,
     Returned, TrayFor, ConfigureDone, process, ConfigureFailed, CallOver, Done, Child, Kept,
     Running, Hotkeys, Configuration, Prefs, NoCall, Want, Unset
<1>7. CASE SaveRegistered
  BY <1>7, CallBegun, CallEnded, ActorMoves, CallFields, DistinctKeys DEF ShortcutTypeOK,
     Actors, SaveRegistered, Quiet, At, Returned, windows, process, Places, SaveUndone
<1>8. CASE SaveHelper
  BY <1>8, ShortcutBounds, DistinctKeys DEF ShortcutTypeOK, Actors, SaveHelper, Quiet, At,
     SaveUndone, GoOn, process, ConfigureDone, ConfigureFailed, windows, Called, Child, Kept,
     Running, Hotkeys, Configuration, Prefs, NoCall, Want, Unset
<1>9. CASE SaveGoesOn
  BY <1>9, CallBegun, CallEnded, ActorMoves, CallFields, DistinctKeys DEF ShortcutTypeOK,
     Actors, SaveGoesOn, Quiet, Changed, SaveUndone, process, Places, SaveUndone
<1>10. CASE SaveRestored
  BY <1>10, ShortcutBounds, DistinctKeys DEF ShortcutTypeOK, Actors, SaveRestored, Quiet, At,
     Returned, CallOver, GoOn, windows, process, Hotkeys, Configuration, Prefs, NoCall, Want,
     Unset
<1>11. CASE SaveHelperRestored
  BY <1>11, ShortcutBounds, DistinctKeys DEF ShortcutTypeOK, Actors, SaveHelperRestored,
     Quiet, At, ConfigureDone, ConfigureFailed, Done, windows, Child, Kept, Running, Hotkeys,
     Configuration, Prefs, NoCall, Want, Unset
<1>12. CASE RecoveryBegins
  BY <1>12, ShortcutBounds, DistinctKeys DEF ShortcutTypeOK, Actors, RecoveryBegins, Quiet,
     Called, windows, process, Hotkeys, Configuration, Prefs, NoCall, Want, Unset
<1>13. CASE RecoveryGivesUp
  BY <1>13, ShortcutBounds, DistinctKeys DEF ShortcutTypeOK, Actors, RecoveryGivesUp, Quiet,
     windows, process, Hotkeys, Configuration, Prefs, NoCall, Want, Unset
<1>14. CASE WatchdogRestart
  BY <1>14, ShortcutBounds, DistinctKeys DEF ShortcutTypeOK, Actors, WatchdogRestart, Quiet,
     Running, Child, windows, Kept, Hotkeys, Configuration, Prefs, NoCall, Want, Unset
<1>15. ASSUME NEW new \in Prefs, SaveBegins(new) PROVE Actors'
  BY <1>15, ShortcutBounds, DistinctKeys DEF ShortcutTypeOK, Actors, SaveBegins, Quiet,
     Called, windows, process, Hotkeys, Configuration, Prefs, NoCall, Want, Unset
<1>16. CASE HelperDies
  BY <1>16, ShortcutBounds, DistinctKeys DEF ShortcutTypeOK, Actors, HelperDies, Quiet,
     Running, windows, Hotkeys, Configuration, Prefs, NoCall, Want, Unset
<1>17. CASE OthersChange
  BY <1>17, ShortcutBounds, DistinctKeys DEF ShortcutTypeOK, Actors, OthersChange, Quiet,
     process, Hotkeys, Configuration, Prefs, NoCall, Want, Unset
<1>18. CASE NoticeShown
  BY <1>18, ShortcutBounds, DistinctKeys DEF ShortcutTypeOK, Actors, NoticeShown, Quiet,
     windows, process, Hotkeys, Configuration, Prefs, NoCall, Want, Unset
<1>19. CASE UNCHANGED shortcutVars
  BY <1>19 DEF ShortcutTypeOK, Actors, Quiet, Hotkeys, Configuration, Prefs, NoCall, Want,
     Unset, shortcutVars
<1> QED
  BY <1>1, <1>2, <1>3, <1>4, <1>5, <1>6, <1>7, <1>8, <1>9, <1>10, <1>11, <1>12, <1>13, <1>14,
     <1>15, <1>16, <1>17, <1>18, <1>19 DEF ShortcutNext, Programme

\* What is live follows the configuration through a release, an attempt and a restore.
LEMMA RegisteredStep ==
    ASSUME ShortcutTypeOK, Actors, Registered, [ShortcutNext]_shortcutVars
    PROVE  Registered'
<1>1. CASE Release
  BY <1>1, ShortcutBounds, DistinctKeys DEF ShortcutTypeOK, Actors, Registered, Release,
     Quiet, process, NoCall, Want, Unset, Added, AllKeys
<1>2. CASE Register
  <2> SUFFICES ASSUME ~stuck' PROVE Registered'
    BY DEF Registered
  <2>1. live = {} /\ registered = {} /\ current.hotkey \in Hotkeys \cup {Nothing}
    BY <1>2, CallFields DEF Register, Registered
  <2>2. CASE CanRegister(call.want.hotkey)
    <3>1. /\ live' = Added(call.want) /\ registered' = Added(call.want)
          /\ current' = call.want /\ call'.pc = "ok"
      BY <1>2, <2>1, <2>2, CallFields DEF Register, CallType
    <3>2. call.want \in Configuration /\ call.want.hotkey \in Hotkeys
      BY <1>2, CallFields DEF Register, Actors
    <3> QED
      BY <3>1, <3>2, AddedKeys, DistinctKeys DEF Registered
  <2>3. CASE ~CanRegister(call.want.hotkey)
    <3>1. UNCHANGED <<live, registered, current>> /\ call'.pc = "restore"
      BY <1>2, <2>3, CallFields DEF Register, CallType
    <3> QED
      BY <2>1, <3>1 DEF Registered
  <2> QED
    BY <2>2, <2>3
<1>3. CASE Restore
  <2> SUFFICES ASSUME ~stuck' PROVE Registered'
    BY DEF Registered
  <2>1. live = {} /\ registered = {} /\ call'.pc = "err"
    BY <1>3, CallFields DEF Restore, Registered, CallType
  <2>2. CASE call.previous.hotkey = Nothing
    BY <1>3, <2>1, <2>2 DEF Restore, Registered
  <2>3. CASE call.previous.hotkey # Nothing /\ CanRegister(call.previous.hotkey)
    <3>1. /\ live' = Added(call.previous) /\ registered' = Added(call.previous)
          /\ current' = call.previous
      BY <1>3, <2>1, <2>3 DEF Restore
    <3>2. call.previous \in Configuration /\ call.previous.hotkey \in Hotkeys
      BY <2>3, CallFields
    <3> QED
      BY <2>1, <3>1, <3>2, AddedKeys, DistinctKeys DEF Registered
  <2>4. CASE call.previous.hotkey # Nothing /\ ~CanRegister(call.previous.hotkey)
    BY <1>3, <2>1, <2>4, UnsetFields DEF Restore, Registered
  <2> QED
    BY <2>2, <2>3, <2>4
<1>4. CASE StartRegistered
  BY <1>4, ShortcutBounds, DistinctKeys DEF ShortcutTypeOK, Actors, Registered,
     StartRegistered, Quiet, Returned, CallOver, GoOn, Called, windows, process, NoCall, Want,
     Unset, Added, AllKeys
<1>5. CASE StartHelper
  BY <1>5, ShortcutBounds, DistinctKeys DEF ShortcutTypeOK, Actors, Registered, StartHelper,
     Quiet, At, NoticeFor, ConfigureDone, ConfigureFailed, TrayFor, Done, Child, Kept,
     Running, NoCall, Want, Unset, Added, AllKeys
<1>6. CASE RecoveryHelper
  BY <1>6, ShortcutBounds, DistinctKeys DEF ShortcutTypeOK, Actors, Registered,
     RecoveryHelper, Quiet, At, Returned, TrayFor, ConfigureDone, process, ConfigureFailed,
     CallOver, Done, Child, Kept, Running, NoCall, Want, Unset, Added, AllKeys
<1>7. CASE SaveRegistered
  BY <1>7, ShortcutBounds, DistinctKeys DEF ShortcutTypeOK, Actors, Registered,
     SaveRegistered, Quiet, At, Returned, GoOn, Done, CallOver, windows, process, NoCall,
     Want, Unset, Added, AllKeys
<1>8. CASE SaveHelper
  BY <1>8, ShortcutBounds, DistinctKeys DEF ShortcutTypeOK, Actors, Registered, SaveHelper,
     Quiet, At, SaveUndone, GoOn, process, ConfigureDone, ConfigureFailed, windows, Called,
     Child, Kept, Running, NoCall, Want, Unset, Added, AllKeys
<1>9. CASE SaveGoesOn
  BY <1>9, ShortcutBounds, DistinctKeys DEF ShortcutTypeOK, Actors, Registered, SaveGoesOn,
     Quiet, GoOn, Changed, SaveUndone, Done, process, Called, NoCall, Want, Unset, Added,
     AllKeys
<1>10. CASE SaveRestored
  BY <1>10, ShortcutBounds, DistinctKeys DEF ShortcutTypeOK, Actors, Registered, SaveRestored,
     Quiet, At, Returned, CallOver, GoOn, windows, process, NoCall, Want, Unset, Added,
     AllKeys
<1>11. CASE SaveHelperRestored
  BY <1>11, ShortcutBounds, DistinctKeys DEF ShortcutTypeOK, Actors, Registered,
     SaveHelperRestored, Quiet, At, ConfigureDone, ConfigureFailed, Done, windows, Child,
     Kept, Running, NoCall, Want, Unset, Added, AllKeys
<1>12. CASE RecoveryBegins
  BY <1>12, ShortcutBounds, DistinctKeys DEF ShortcutTypeOK, Actors, Registered,
     RecoveryBegins, Quiet, Called, windows, process, NoCall, Want, Unset, Added, AllKeys
<1>13. CASE RecoveryGivesUp
  BY <1>13, ShortcutBounds, DistinctKeys DEF ShortcutTypeOK, Actors, Registered,
     RecoveryGivesUp, Quiet, windows, process, NoCall, Want, Unset, Added, AllKeys
<1>14. CASE WatchdogRestart
  BY <1>14, ShortcutBounds, DistinctKeys DEF ShortcutTypeOK, Actors, Registered,
     WatchdogRestart, Quiet, Running, Child, windows, Kept, NoCall, Want, Unset, Added,
     AllKeys
<1>15. ASSUME NEW new \in Prefs, SaveBegins(new) PROVE Registered'
  BY <1>15, ShortcutBounds, DistinctKeys DEF ShortcutTypeOK, Actors, Registered, SaveBegins,
     Quiet, Called, windows, process, NoCall, Want, Unset, Added, AllKeys
<1>16. CASE HelperDies
  BY <1>16, ShortcutBounds, DistinctKeys DEF ShortcutTypeOK, Actors, Registered, HelperDies,
     Quiet, Running, windows, NoCall, Want, Unset, Added, AllKeys
<1>17. CASE OthersChange
  BY <1>17, ShortcutBounds, DistinctKeys DEF ShortcutTypeOK, Actors, Registered, OthersChange,
     Quiet, process, NoCall, Want, Unset, Added, AllKeys
<1>18. CASE NoticeShown
  BY <1>18, ShortcutBounds, DistinctKeys DEF ShortcutTypeOK, Actors, Registered, NoticeShown,
     Quiet, windows, process, NoCall, Want, Unset, Added, AllKeys
<1>19. CASE UNCHANGED shortcutVars
  BY <1>19 DEF ShortcutTypeOK, Actors, Registered, Quiet, NoCall, Want, Unset, Added, AllKeys,
     shortcutVars
<1> QED
  BY <1>1, <1>2, <1>3, <1>4, <1>5, <1>6, <1>7, <1>8, <1>9, <1>10, <1>11, <1>12, <1>13, <1>14,
     <1>15, <1>16, <1>17, <1>18, <1>19 DEF ShortcutNext, Programme

\* The tray icon comes back in the step that gives the last hotkey up.
LEMMA WayInStep ==
    ASSUME ShortcutTypeOK, Actors, WayIn, [ShortcutNext]_shortcutVars
    PROVE  WayIn'
<1>1. CASE Release
  BY <1>1, ShortcutBounds, DistinctKeys DEF ShortcutTypeOK, Actors, WayIn, Release, Quiet,
     process, NoCall, Want, Unset, Configuration
<1>2. CASE Register
  BY <1>2, CallFields, DistinctKeys DEF Register, Actors, WayIn
<1>3. CASE Restore
  BY <1>3, CallFields, UnsetFields, DistinctKeys DEF Restore, Actors, WayIn, TrayFor
<1>4. CASE StartRegistered
  BY <1>4, ShortcutBounds, DistinctKeys DEF ShortcutTypeOK, Actors, WayIn, StartRegistered,
     Quiet, Returned, CallOver, GoOn, Called, windows, process, NoCall, Want, Unset,
     Configuration
<1>5. CASE StartHelper
  BY <1>5, ShortcutBounds, DistinctKeys DEF ShortcutTypeOK, Actors, WayIn, StartHelper, Quiet,
     At, NoticeFor, ConfigureDone, ConfigureFailed, TrayFor, Done, Child, Kept, Running,
     NoCall, Want, Unset, Configuration
<1>6. CASE RecoveryHelper
  BY <1>6, ShortcutBounds, DistinctKeys DEF ShortcutTypeOK, Actors, WayIn, RecoveryHelper,
     Quiet, At, Returned, TrayFor, ConfigureDone, process, ConfigureFailed, CallOver, Done,
     Child, Kept, Running, NoCall, Want, Unset, Configuration
<1>7. CASE SaveRegistered
  BY <1>7, ShortcutBounds, DistinctKeys DEF ShortcutTypeOK, Actors, WayIn, SaveRegistered,
     Quiet, At, Returned, GoOn, Done, CallOver, windows, process, NoCall, Want, Unset,
     Configuration
<1>8. CASE SaveHelper
  BY <1>8, ShortcutBounds, DistinctKeys DEF ShortcutTypeOK, Actors, WayIn, SaveHelper, Quiet,
     At, SaveUndone, GoOn, process, ConfigureDone, ConfigureFailed, windows, Called, Child,
     Kept, Running, NoCall, Want, Unset, Configuration
<1>9. CASE SaveGoesOn
  BY <1>9, ShortcutBounds, DistinctKeys DEF ShortcutTypeOK, Actors, WayIn, SaveGoesOn, Quiet,
     GoOn, Changed, SaveUndone, Done, process, Called, NoCall, Want, Unset, Configuration
<1>10. CASE SaveRestored
  BY <1>10, ShortcutBounds, DistinctKeys DEF ShortcutTypeOK, Actors, WayIn, SaveRestored,
     Quiet, At, Returned, CallOver, GoOn, windows, process, NoCall, Want, Unset, Configuration
<1>11. CASE SaveHelperRestored
  BY <1>11, ShortcutBounds, DistinctKeys DEF ShortcutTypeOK, Actors, WayIn,
     SaveHelperRestored, Quiet, At, ConfigureDone, ConfigureFailed, Done, windows, Child,
     Kept, Running, NoCall, Want, Unset, Configuration
<1>12. CASE RecoveryBegins
  BY <1>12, ShortcutBounds, DistinctKeys DEF ShortcutTypeOK, Actors, WayIn, RecoveryBegins,
     Quiet, Called, windows, process, NoCall, Want, Unset, Configuration
<1>13. CASE RecoveryGivesUp
  BY <1>13, ShortcutBounds, DistinctKeys DEF ShortcutTypeOK, Actors, WayIn, RecoveryGivesUp,
     Quiet, windows, process, NoCall, Want, Unset, Configuration
<1>14. CASE WatchdogRestart
  BY <1>14, ShortcutBounds, DistinctKeys DEF ShortcutTypeOK, Actors, WayIn, WatchdogRestart,
     Quiet, Running, Child, windows, Kept, NoCall, Want, Unset, Configuration
<1>15. ASSUME NEW new \in Prefs, SaveBegins(new) PROVE WayIn'
  BY <1>15, ShortcutBounds, DistinctKeys DEF ShortcutTypeOK, Actors, WayIn, SaveBegins, Quiet,
     Called, windows, process, NoCall, Want, Unset, Configuration
<1>16. CASE HelperDies
  BY <1>16, ShortcutBounds, DistinctKeys DEF ShortcutTypeOK, Actors, WayIn, HelperDies, Quiet,
     Running, windows, NoCall, Want, Unset, Configuration
<1>17. CASE OthersChange
  BY <1>17, ShortcutBounds, DistinctKeys DEF ShortcutTypeOK, Actors, WayIn, OthersChange,
     Quiet, process, NoCall, Want, Unset, Configuration
<1>18. CASE NoticeShown
  BY <1>18, ShortcutBounds, DistinctKeys DEF ShortcutTypeOK, Actors, WayIn, NoticeShown,
     Quiet, windows, process, NoCall, Want, Unset, Configuration
<1>19. CASE UNCHANGED shortcutVars
  BY <1>19 DEF ShortcutTypeOK, Actors, WayIn, Quiet, NoCall, Want, Unset, Configuration,
     shortcutVars
<1> QED
  BY <1>1, <1>2, <1>3, <1>4, <1>5, <1>6, <1>7, <1>8, <1>9, <1>10, <1>11, <1>12, <1>13, <1>14,
     <1>15, <1>16, <1>17, <1>18, <1>19 DEF ShortcutNext, Programme

\* Whoever changes the hotkey configures the helper before leaving, or puts the hotkey
\* back.
LEMMA HelpedStep ==
    ASSUME ShortcutTypeOK, Actors, Helped, [ShortcutNext]_shortcutVars
    PROVE  Helped'
<1>1. CASE Release
  BY <1>1, ShortcutBounds, DistinctKeys DEF ShortcutTypeOK, Actors, Helped, Release, Quiet,
     ChildFits, Given, At, Returned, process, Running, NoCall, NoChild, Unset, Want
<1>2. CASE Register
  BY <1>2, ShortcutBounds, DistinctKeys DEF ShortcutTypeOK, Actors, Helped, Register, Quiet,
     ChildFits, Given, At, Returned, CanRegister, process, Running, NoCall, NoChild, Unset,
     Want
<1>3. CASE Restore
  BY <1>3, ShortcutBounds, DistinctKeys DEF ShortcutTypeOK, Actors, Helped, Restore, Quiet,
     ChildFits, Given, At, Returned, CanRegister, TrayFor, process, Running, NoCall, NoChild,
     Unset, Want
<1>4. CASE StartRegistered
  BY <1>4, ShortcutBounds, DistinctKeys DEF ShortcutTypeOK, Actors, Helped, StartRegistered,
     Quiet, ChildFits, Given, At, Returned, CallOver, GoOn, Called, windows, process, Running,
     NoCall, NoChild, Unset, Want
<1>5. CASE StartHelper
  BY <1>5, ShortcutBounds, DistinctKeys DEF ShortcutTypeOK, Actors, Helped, StartHelper,
     Quiet, ChildFits, Given, At, Returned, NoticeFor, ConfigureDone, ConfigureFailed,
     TrayFor, Done, Running, process, Child, Kept, NoCall, NoChild, Unset, Want
<1>6. CASE RecoveryHelper
  BY <1>6, ShortcutBounds, DistinctKeys DEF ShortcutTypeOK, Actors, Helped, RecoveryHelper,
     Quiet, ChildFits, Given, At, Returned, TrayFor, ConfigureDone, process, ConfigureFailed,
     CallOver, Done, Running, Child, Kept, NoCall, NoChild, Unset, Want
<1>7. CASE SaveRegistered
  BY <1>7, CallBegun, CallEnded, ActorMoves, CallFields, DistinctKeys DEF ShortcutTypeOK,
     Actors, Helped, SaveRegistered, Quiet, ChildFits, Given, At, Returned, windows, process,
     Running, Places, SaveUndone
<1>8. CASE SaveHelper
  BY <1>8, ShortcutBounds, DistinctKeys DEF ShortcutTypeOK, Actors, Helped, SaveHelper, Quiet,
     ChildFits, Given, At, Returned, SaveUndone, GoOn, process, ConfigureDone,
     ConfigureFailed, windows, Running, Called, Child, Kept, NoCall, NoChild, Unset, Want
<1>9. CASE SaveGoesOn
  BY <1>9, CallBegun, CallEnded, ActorMoves, CallFields, DistinctKeys DEF ShortcutTypeOK,
     Actors, Helped, SaveGoesOn, Quiet, ChildFits, Given, At, Returned, Changed, SaveUndone,
     process, Running, Places, SaveUndone
<1>10. CASE SaveRestored
  BY <1>10, ShortcutBounds, DistinctKeys DEF ShortcutTypeOK, Actors, Helped, SaveRestored,
     Quiet, ChildFits, Given, At, Returned, CallOver, GoOn, windows, process, Running, NoCall,
     NoChild, Unset, Want
<1>11. CASE SaveHelperRestored
  BY <1>11, ShortcutBounds, DistinctKeys DEF ShortcutTypeOK, Actors, Helped,
     SaveHelperRestored, Quiet, ChildFits, Given, At, Returned, ConfigureDone,
     ConfigureFailed, Done, windows, Running, process, Child, Kept, NoCall, NoChild, Unset,
     Want
<1>12. CASE RecoveryBegins
  BY <1>12, ShortcutBounds, DistinctKeys DEF ShortcutTypeOK, Actors, Helped, RecoveryBegins,
     Quiet, ChildFits, Given, At, Returned, Called, windows, process, Running, NoCall,
     NoChild, Unset, Want
<1>13. CASE RecoveryGivesUp
  BY <1>13, ShortcutBounds, DistinctKeys DEF ShortcutTypeOK, Actors, Helped, RecoveryGivesUp,
     Quiet, ChildFits, Given, At, Returned, windows, process, Running, NoCall, NoChild, Unset,
     Want
<1>14. CASE WatchdogRestart
  BY <1>14, ShortcutBounds, DistinctKeys DEF ShortcutTypeOK, Actors, Helped, WatchdogRestart,
     Quiet, ChildFits, Given, At, Returned, Running, Child, windows, process, Kept, NoCall,
     NoChild, Unset, Want
<1>15. ASSUME NEW new \in Prefs, SaveBegins(new) PROVE Helped'
  BY <1>15, ShortcutBounds, DistinctKeys DEF ShortcutTypeOK, Actors, Helped, SaveBegins,
     Quiet, ChildFits, Given, At, Returned, Called, windows, process, Running, NoCall,
     NoChild, Unset, Want
<1>16. CASE HelperDies
  BY <1>16, ShortcutBounds, DistinctKeys DEF ShortcutTypeOK, Actors, Helped, HelperDies,
     Quiet, ChildFits, Given, At, Returned, Running, windows, process, NoCall, NoChild, Unset,
     Want
<1>17. CASE OthersChange
  BY <1>17, ShortcutBounds, DistinctKeys DEF ShortcutTypeOK, Actors, Helped, OthersChange,
     Quiet, ChildFits, Given, At, Returned, process, Running, NoCall, NoChild, Unset, Want
<1>18. CASE NoticeShown
  BY <1>18, ShortcutBounds, DistinctKeys DEF ShortcutTypeOK, Actors, Helped, NoticeShown,
     Quiet, ChildFits, Given, At, Returned, windows, process, Running, NoCall, NoChild, Unset,
     Want
<1>19. CASE UNCHANGED shortcutVars
  BY <1>19 DEF ShortcutTypeOK, Actors, Helped, Quiet, ChildFits, Given, At, Returned, Running,
     process, NoCall, NoChild, Unset, Want, shortcutVars
<1> QED
  BY <1>1, <1>2, <1>3, <1>4, <1>5, <1>6, <1>7, <1>8, <1>9, <1>10, <1>11, <1>12, <1>13, <1>14,
     <1>15, <1>16, <1>17, <1>18, <1>19 DEF ShortcutNext, Programme


----------------------------------------------------------------------------

\* At a start nothing is registered and the tray icon is shown.
LEMMA ShortcutInitInv == ShortcutInit => HotkeyInv
<1> SUFFICES ASSUME ShortcutInit PROVE HotkeyInv
  OBVIOUS
<1>1. saved \in Prefs /\ saved.hotkey \in Keys
  BY DEF ShortcutInit, Prefs
<1>2. current = Unset /\ call.previous = Unset /\ call.want = Want(saved.hotkey, saved.replace)
      /\ call.pc = "release"
  BY DEF ShortcutInit
<1>3. call \in CallType
  BY <1>1, UnsetFields, DistinctKeys DEF ShortcutInit, CallType, Want, Configuration, Prefs
<1>4. count \in CountType
  BY ShortcutBounds DEF ShortcutInit, CountType
<1>5. taken \subseteq AllKeys
  BY <1>1, DistinctKeys DEF ShortcutInit
<1>6. ShortcutTypeOK
  BY <1>1, <1>3, <1>4, <1>5, UnsetFields
     DEF ShortcutInit, ShortcutTypeOK, CallType, CountType, NoChild
<1>7. Actors
  BY <1>1, <1>2, DistinctKeys DEF ShortcutInit, Actors, Quiet, Want
<1>8. Registered /\ WayIn
  BY <1>2, UnsetFields, DistinctKeys DEF ShortcutInit, Registered, WayIn
<1>9. Helped
  BY DEF ShortcutInit, Helped, ChildFits, Running, NoChild, Quiet, At
<1> QED
  BY <1>6, <1>7, <1>8, <1>9 DEF HotkeyInv

\* Every step keeps the invariant.
LEMMA ShortcutNextInv == ASSUME HotkeyInv, [ShortcutNext]_shortcutVars PROVE HotkeyInv'
BY ShortcutTypeStep, ActorsStep, RegisteredStep, WayInStep, HelpedStep DEF HotkeyInv

\* The inductive invariant of the hotkeys holds throughout (register_shortcuts).
THEOREM HotkeyInvariance == ShortcutSpec => []HotkeyInv
BY ShortcutInitInv, ShortcutNextInv, PTL DEF ShortcutSpec

\* There is always a way in: the tray icon, or a hotkey that reaches Cubby
\* (apply_tray_visibility, register_configuration_without_fallback).
THEOREM WayInAlways == ShortcutSpec => []AlwaysAWayIn
<1>1. HotkeyInv => AlwaysAWayIn
  BY CallFields DEF HotkeyInv, AlwaysAWayIn, WayIn, Registered, Actors, Quiet
<1> QED
  BY <1>1, HotkeyInvariance, PTL

\* What Windows has registered, and what the helper catches, follow the configuration
\* (register_shortcuts, WinVReplacementManager::configure).
THEOREM FollowedAlways == ShortcutSpec => []ConfigurationIsFollowed
<1>1. HotkeyInv => OnlyTheCurrentHotkey
  BY CallFields DEF HotkeyInv, OnlyTheCurrentHotkey, Registered, Extent, Actors, Quiet
<1>2. HotkeyInv => HelperFollows
  BY DEF HotkeyInv, HelperFollows, Helped, ChildFits, Given
<1> QED
  BY <1>1, <1>2, HotkeyInvariance, PTL DEF ConfigurationIsFollowed

\* The recovery registers what is saved, or puts back what there was, or nothing
\* (spawn_startup_recovery).
THEOREM ChoiceIsKept == ShortcutSpec => RecoveryKeepsTheChoice
<1> DEFINE Keeps == actor.who = "recovery" /\ current' # current =>
                       current' \in {Want(saved.hotkey, saved.replace), call.previous, Unset}
<1>1. ASSUME HotkeyInv, [ShortcutNext]_shortcutVars PROVE [Keeps]_shortcutVars
  <2> SUFFICES ASSUME actor.who = "recovery", current' # current PROVE Keeps
    OBVIOUS
  <2>1. Register \/ Restore
    BY <1>1 DEF ShortcutNext, Programme, shortcutVars, Release, StartRegistered, StartHelper,
       RecoveryHelper, SaveRegistered, SaveHelper, SaveGoesOn, SaveRestored,
       SaveHelperRestored, RecoveryBegins, RecoveryGivesUp, WatchdogRestart, SaveBegins,
       HelperDies, OthersChange, NoticeShown, windows
  <2> QED
    BY <1>1, <2>1 DEF Register, Restore, HotkeyInv, Actors
<1> QED
  BY <1>1, HotkeyInvariance, PTL DEF ShortcutSpec, RecoveryKeepsTheChoice
=============================================================================
