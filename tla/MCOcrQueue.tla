---------------------------- MODULE MCOcrQueue ----------------------------
(***************************************************************************)
(* Instances for TLC: one image, or an older and a newer one.              *)
(***************************************************************************)
EXTENDS OcrQueue

OneImage == {1}
TwoImages == {1, 2}
=============================================================================
