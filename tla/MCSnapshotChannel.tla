------------------------- MODULE MCSnapshotChannel -------------------------
(***************************************************************************)
(* Instance for TLC: three slots, a byte budget of three, and payloads     *)
(* that are small, as large as the budget, and oversize.                   *)
(***************************************************************************)
EXTENDS SnapshotChannel

MCSizes == {1, 3, 4}
=============================================================================
