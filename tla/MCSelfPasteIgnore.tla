------------------------- MODULE MCSelfPasteIgnore -------------------------
EXTENDS SelfPasteIgnore
CONSTANTS a, b
MCHashes == {a, b}
SmallSize == [h \in Hashes |-> 1]
MixedSize == [h \in Hashes |-> IF h = a THEN 7 ELSE 3]
=============================================================================
