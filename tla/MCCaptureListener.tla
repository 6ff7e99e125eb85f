------------------------- MODULE MCCaptureListener -------------------------
(***************************************************************************)
(* Instances for TLC.  Whatever can happen to a "text" copy can happen to  *)
(* a "secret" one, whose markers can also fail to read; an "empty" one is  *)
(* an "emptyText" one that always reads, and a "private" one a "file"      *)
(* whose payload is not looked at.                                         *)
(***************************************************************************)
EXTENDS CaptureListener

MCKinds == {"secret", "emptyText", "file", "hybrid"}
=============================================================================
