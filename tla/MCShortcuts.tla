---------------------------- MODULE MCShortcuts ----------------------------
(* What the user may choose: a hotkey, the fallback and the bridge, the default. *)
EXTENDS Shortcuts

CONSTANT hotkeyA

MCKeys == {hotkeyA, Fallback, Bridge}
=============================================================================
