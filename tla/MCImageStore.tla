---------------------------- MODULE MCImageStore ----------------------------
(* Two uuids for one image: a clip, and the one the image gets if it is    *)
(* deleted and copied again.                                               *)
EXTENDS ImageStore

CONSTANTS u, v, x

MCClips == {u, v}
MCHashes == {x}
MCImageOf == [c \in MCClips |-> x]
=============================================================================
