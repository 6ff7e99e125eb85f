--------------------------- MODULE MCSearchIndex ---------------------------
(***************************************************************************)
(* An instance for TLC: three clips, pages of one row; the newest row      *)
(* cannot be read.                                                         *)
(***************************************************************************)
EXTENDS SearchIndex

CONSTANTS a, b, x
MCClips == {a, b, x}
MCUnreadable == {x}
MCStored == {a, x}
MCRanks == [c \in MCClips |-> IF c = x THEN 1 ELSE IF c = a THEN 2 ELSE 3]
=============================================================================
