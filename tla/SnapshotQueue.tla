--------------------------- MODULE SnapshotQueue ---------------------------
(***************************************************************************)
(* The bounded in-process snapshot queue between the clipboard listener    *)
(* thread and the capture consumer                                         *)
(* (src-tauri/src/clipboard/snapshot_queue.rs).                            *)
(*                                                                         *)
(* The Rust queue is a VecDeque that is only pushed at the back, popped at *)
(* the front and thinned in the middle, so it is always sorted by arrival. *)
(* It is modelled as a set of items carrying their arrival number "id":    *)
(* the front is the least id, the back the greatest.                       *)
(*                                                                         *)
(* The loops of enqueue() evict one item at a time, oldest first, until    *)
(* what is left fits.  An item is therefore evicted exactly when dropping  *)
(* every droppable item older than it is not yet enough, which is how the  *)
(* victims are defined below.                                              *)
(***************************************************************************)
EXTENDS Naturals, FiniteSets

CONSTANTS
    Capacity,   \* SNAPSHOT_QUEUE_CAPACITY: how many events may wait
    MaxBytes    \* SNAPSHOT_QUEUE_MAX_BYTES: byte budget of what waits

(***************************************************************************)
(* The source asserts Capacity >= 1.  The count bound proved about the     *)
(* queue needs room for two clears and a content between them: with two    *)
(* slots, evicting the only content of [Cleared, content] for an arriving  *)
(* Cleared leaves two adjacent clears and nothing droppable behind them.   *)
(***************************************************************************)
ASSUME QueueAssumption ==
    /\ Capacity \in Nat /\ Capacity >= 3
    /\ MaxBytes \in Nat

----------------------------------------------------------------------------
(* SizedPayload as ClipboardListenerEvent implements it.                   *)

IsCleared(item) == item.kind = "cleared"

PayloadBytes(item) == IF IsCleared(item) THEN 0 ELSE item.bytes

\* Mutant: flood eviction takes clears like any other event.
FloodTakesClears(item) == FALSE

RetainOnFlood(item) == IsCleared(item)

ReplacesQueued(item, older) == IsCleared(item) /\ IsCleared(older)

Oversize(item) == PayloadBytes(item) > MaxBytes

----------------------------------------------------------------------------
(* Order of arrival.                                                       *)

OlderThan(x, q) == { y \in q : y.id < x.id }

IsFront(x, q) == x \in q /\ OlderThan(x, q) = {}

IsBack(x, q) == x \in q /\ \A y \in q : y.id <= x.id

\* y waits directly behind x: nothing is queued between the two.
Adjacent(x, y, q) ==
    /\ x.id < y.id
    /\ \A z \in q : z.id <= x.id \/ z.id >= y.id

----------------------------------------------------------------------------
(* enqueue() and its helpers.                                              *)

Droppable(q) == { x \in q : ~RetainOnFlood(x) }

\* The sum of the payloads, counted as (item, byte position) pairs.
Bytes(q) == Cardinality(UNION { {x} \X (1 .. PayloadBytes(x)) : x \in q })

CountedNonOversizeBytes(q) == Bytes({ x \in q : ~Oversize(x) })

\* An older clear directly in front of another clear collapses into it.
CoalesceAdjacentReplacements(q) ==
    { x \in q : ~ \E y \in q : Adjacent(x, y, q) /\ ReplacesQueued(y, x) }

\* Remove the victims; the queue is only coalesced after a removal.
Without(q, victims) ==
    IF victims = {} THEN q ELSE CoalesceAdjacentReplacements(q \ victims)

\* A clear arriving directly behind a clear takes its slot.
ReplaceBack(q, item) ==
    { x \in q : ~ (IsBack(x, q) /\ ReplacesQueued(item, x)) }

\* An oversize arrival evicts everything droppable.
OversizeVictims(q) == Droppable(q)

\* Mutants: the count check off by one, either way.
OneEventTooMany(q) ==
    { x \in Droppable(q) :
        Cardinality(Without(q, OlderThan(x, Droppable(q)))) > Capacity }

OneEventTooFew(q) ==
    { x \in Droppable(q) :
        Cardinality(Without(q, OlderThan(x, Droppable(q)))) + 1 >= Capacity }

\* Count overflow: oldest droppable first, until a slot is free.
CountVictims(q) ==
    { x \in Droppable(q) :
        Cardinality(Without(q, OlderThan(x, Droppable(q)))) >= Capacity }

\* Mutant: the budget check leaves the arriving event out.
ArrivalNotCounted(q, item) ==
    LET small == { x \in Droppable(q) : ~Oversize(x) }
    IN { x \in small :
           CountedNonOversizeBytes(q \ OlderThan(x, small)) > MaxBytes }

\* Byte overflow: oldest droppable non-oversize item first, until it fits.
ByteVictims(q, item) ==
    LET small == { x \in Droppable(q) : ~Oversize(x) }
    IN { x \in small :
           CountedNonOversizeBytes(q \ OlderThan(x, small)) + PayloadBytes(item)
               > MaxBytes }

\* What is left of q, and what enqueue() evicts from it, to admit the item.
Room(q, item) ==
    LET base == ReplaceBack(q, item)
    IN IF Oversize(item)
       THEN Without(base, OversizeVictims(base))
       ELSE LET counted == Without(base, CountVictims(base))
            IN Without(counted, ByteVictims(counted, item))

Enqueue(q, item) == Room(q, item) \cup {item}

Evicted(q, item) ==
    LET base == ReplaceBack(q, item)
    IN IF Oversize(item)
       THEN OversizeVictims(base)
       ELSE LET counted == Without(base, CountVictims(base))
            IN CountVictims(base) \cup ByteVictims(counted, item)

----------------------------------------------------------------------------
(* dequeue(): the front item, and the queue without it.                    *)

\* Mutant: the newest event is taken first.
Newest(q) == CHOOSE x \in q : IsBack(x, q)

Front(q) == CHOOSE x \in q : IsFront(x, q)

Dequeue(q) == q \ {Front(q)}
=============================================================================
