-------------------------- MODULE MCCaptureHistory --------------------------
(***************************************************************************)
(* Instances for TLC: a password, a note and an image.                     *)
(***************************************************************************)
EXTENDS CaptureHistory

MCContents == {"password", "note", "image"}
TextContents == {"password", "note"}
MCSecrets == {"password"}
MCImages == {"image"}
ImageAndNote == {"image", "note"}
NoImages == {}
NoSecrets == {}
NoCommands == {}
EveryCommand == AllCommands
OnlyRetention == {"retention"}
OnlyEdit == {"edit"}
=============================================================================
