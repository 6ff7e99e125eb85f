------------------------------ MODULE MCBackup ------------------------------
(***************************************************************************)
(* A text with two formats and a screenshot; the screenshot is also in the *)
(* database of another clipboard manager.  There is a bundle of both, or   *)
(* none yet.                                                               *)
(***************************************************************************)
EXTENDS Backup

CONSTANTS text, image

RowOf(content, n, inFolder) ==
    [content |-> content, n |-> n, parts |-> n, expired |-> FALSE, folder |-> inFolder]
MCInitialRows ==
    { [u \in Uuids |-> CASE u = 1 -> RowOf(text, 2, TRUE)
                         [] u = 2 -> RowOf(image, 1, FALSE)
                         [] OTHER -> Gone],
      [u \in Uuids |-> Gone] }
ClipOf(content, n, inFolder) == [content |-> content, n |-> n, folder |-> inFolder]
MCInitialBundles == { None, {ClipOf(text, 2, TRUE), ClipOf(image, 1, FALSE)} }
MCDittoClips == {ClipOf(image, 1, FALSE), ClipOf(text, 0, FALSE)}
=============================================================================
