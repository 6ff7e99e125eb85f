------------------------------ MODULE MCFlyout ------------------------------
(* Two windows; in one of them the user has to press Ctrl+V. *)
EXTENDS Flyout

CONSTANTS a, b

MCWindows == {a, b}
MCManual == {b}
=============================================================================
