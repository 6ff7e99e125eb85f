------------------------- MODULE MCDatabaseStartup -------------------------
(***************************************************************************)
(* Two image clips that hold the same picture, one of them deleted, or both *)
(* there and a reference to a file, left by an older version, which kept    *)
(* one picture in a file and the other in the table; one clip makes a rich  *)
(* backup.                                                                 *)
(***************************************************************************)
EXTENDS DatabaseStartup

CONSTANTS a, b, f, picture, path, k, rival

MCClips == {a, b, f}
MCContents == {picture, path}
MCContentOf == [c \in MCClips |-> IF c = f THEN path ELSE picture]
OldRow(c, deleted, pinned) ==
    [key |-> Absent, hash |-> 0, deleted |-> deleted, pinned |-> pinned,
     original |-> IF c = f THEN "none" ELSE IF c = a THEN "older" ELSE "blob"]
MCInitialRows ==
    { [c \in MCClips |-> IF c = f THEN Gone ELSE OldRow(c, c = a, c = a)],
      [c \in MCClips |-> OldRow(c, FALSE, c = a)] }
=============================================================================
