-------------------------- MODULE SnapshotChannel --------------------------
(***************************************************************************)
(* The transport that hands captures from the listener thread to the async *)
(* consumer (src-tauri/src/clipboard/snapshot_channel.rs): one Sender, one *)
(* Receiver, a mutex around the bounded queue and a tokio Notify.          *)
(*                                                                         *)
(* Each critical section is one action.  The wake-up happens after the     *)
(* lock is released, so a send is two steps and the receiver may already   *)
(* have taken the item in between; Notify keeps at most one stored permit. *)
(***************************************************************************)
EXTENDS SnapshotQueue

CONSTANTS
    Sizes,      \* payload sizes a content snapshot may have
    MaxSends    \* bound on the number of events sent in a behaviour

ASSUME ChannelAssumption == Sizes \subseteq Nat /\ MaxSends \in Nat

VARIABLES
    queue,          \* Inner.items, a set ordered by arrival number
    queuedBytes,    \* Inner.bytes
    receiverGone,   \* Inner.receiver_gone
    sendersGone,    \* Inner.senders_gone
    permit,         \* Notify: a wake-up nobody has consumed yet
    senderPc,       \* "idle", "notify" (lock released, wake-up owed), "gone"
    receiverPc,     \* "check", "wait", "busy" (handling an item), "done", "gone"
    sent,           \* history: every event the queue accepted
    delivered       \* history: every event recv() returned

vars == <<queue, queuedBytes, receiverGone, sendersGone, permit,
          senderPc, receiverPc, sent, delivered>>

----------------------------------------------------------------------------

Events(id) ==
    { [id |-> id, kind |-> "content", bytes |-> b] : b \in Sizes }
        \cup { [id |-> id, kind |-> "cleared", bytes |-> 0] }

AllEvents == UNION { Events(id) : id \in 1..MaxSends }

\* The type invariant: queued and delivered events are ones that were sent, and
\* the byte counter never goes below zero.
TypeOK ==
    /\ queue \subseteq AllEvents
    /\ queuedBytes \in Nat
    /\ receiverGone \in BOOLEAN
    /\ sendersGone \in BOOLEAN
    /\ permit \in BOOLEAN
    /\ senderPc \in {"idle", "notify", "closing", "gone"}
    /\ receiverPc \in {"check", "wait", "busy", "done", "gone"}
    /\ sent \subseteq AllEvents
    /\ delivered \subseteq sent

SaturatingSub(a, b) == IF a >= b THEN a - b ELSE 0

----------------------------------------------------------------------------

Init ==
    /\ queue = {}
    /\ queuedBytes = 0
    /\ receiverGone = FALSE
    /\ sendersGone = FALSE
    /\ permit = FALSE
    /\ senderPc = "idle"
    /\ receiverPc = "check"
    /\ sent = {}
    /\ delivered = {}

\* Sender::send up to the release of the lock: queue the event, evicting
\* whatever has to go.
Push(item) ==
    /\ senderPc = "idle"
    /\ ~receiverGone
    /\ item.id = Cardinality(sent) + 1
    /\ queue' = Enqueue(queue, item)
    /\ queuedBytes' =
         SaturatingSub(queuedBytes, Bytes(queue \ Room(queue, item)))
             + PayloadBytes(item)
    /\ sent' = sent \cup {item}
    /\ senderPc' = "notify"
    /\ UNCHANGED <<receiverGone, sendersGone, permit, receiverPc, delivered>>

\* Mutant: the send forgets its wake-up.
SendForgetsWakeUp ==
    /\ senderPc \in {"notify", "closing"}
    /\ permit' = (permit \/ senderPc = "closing")
    /\ senderPc' = IF senderPc = "notify" THEN "idle" ELSE "gone"
    /\ UNCHANGED <<queue, queuedBytes, receiverGone, sendersGone,
                   receiverPc, sent, delivered>>

\* Sender::send and Sender::drop after the lock: notify_one().
NotifyReceiver ==
    /\ senderPc \in {"notify", "closing"}
    /\ permit' = TRUE
    /\ senderPc' = IF senderPc = "notify" THEN "idle" ELSE "gone"
    /\ UNCHANGED <<queue, queuedBytes, receiverGone, sendersGone,
                   receiverPc, sent, delivered>>

\* Sender::drop under the lock.
CloseSender ==
    /\ senderPc = "idle"
    /\ sendersGone' = TRUE
    /\ senderPc' = "closing"
    /\ UNCHANGED <<queue, queuedBytes, receiverGone, permit,
                   receiverPc, sent, delivered>>

\* Receiver::recv under the lock: take the front item, report the end of the
\* stream, or go to sleep.
Pop ==
    /\ receiverPc = "check"
    /\ queue # {}
    /\ queue' = Dequeue(queue)
    /\ queuedBytes' = SaturatingSub(queuedBytes, PayloadBytes(Front(queue)))
    /\ delivered' = delivered \cup {Front(queue)}
    /\ receiverPc' = "busy"
    /\ UNCHANGED <<receiverGone, sendersGone, permit, senderPc, sent>>

EndOfStream ==
    /\ receiverPc = "check"
    /\ queue = {}
    /\ sendersGone
    /\ receiverPc' = "done"
    /\ UNCHANGED <<queue, queuedBytes, receiverGone, sendersGone, permit,
                   senderPc, sent, delivered>>

Sleep ==
    /\ receiverPc = "check"
    /\ queue = {}
    /\ ~sendersGone
    /\ receiverPc' = "wait"
    /\ UNCHANGED <<queue, queuedBytes, receiverGone, sendersGone, permit,
                   senderPc, sent, delivered>>

\* notified().await returns: the stored or the fresh wake-up is consumed.
Wake ==
    /\ receiverPc = "wait"
    /\ permit
    /\ permit' = FALSE
    /\ receiverPc' = "check"
    /\ UNCHANGED <<queue, queuedBytes, receiverGone, sendersGone,
                   senderPc, sent, delivered>>

\* The consumer loop finishes an event and calls recv() again.
Handled ==
    /\ receiverPc = "busy"
    /\ receiverPc' = "check"
    /\ UNCHANGED <<queue, queuedBytes, receiverGone, sendersGone, permit,
                   senderPc, sent, delivered>>

\* Receiver::drop: the consumer task ends with the application.
DropReceiver ==
    /\ receiverPc \in {"wait", "busy", "done"}
    /\ receiverGone' = TRUE
    /\ receiverPc' = "gone"
    /\ UNCHANGED <<queue, queuedBytes, sendersGone, permit, senderPc,
                   sent, delivered>>

SendSome == \E item \in AllEvents : Push(item)

Receive == Pop \/ EndOfStream \/ Sleep \/ Wake \/ Handled

Next ==
    \/ SendSome \/ NotifyReceiver \/ CloseSender
    \/ Receive \/ DropReceiver

(***************************************************************************)
(* A thread that has released the lock goes on to its wake-up, and the     *)
(* async runtime keeps polling a consumer that can make progress.  Nothing *)
(* forces the user to copy, the sender to close or the application to end. *)
(***************************************************************************)
Fairness ==
    /\ WF_vars(NotifyReceiver)
    /\ WF_vars(Receive)

Spec == Init /\ [][Next]_vars

FairSpec == Spec /\ Fairness

----------------------------------------------------------------------------
(* Safety.                                                                 *)

\* Never more events than slots: the queue makes room before it admits
\* (snapshot_queue.rs, "At most SNAPSHOT_QUEUE_CAPACITY events may wait").
CountBounded == Cardinality(queue) <= Capacity

\* RAM is bounded: the events that fit the byte budget stay inside it together
\* and at most one oversize capture waits besides them, whatever clears and
\* captures came in between.
BytesBounded ==
    /\ CountedNonOversizeBytes(queue) <= MaxBytes
    /\ \A x, y \in queue : Oversize(x) /\ Oversize(y) => x = y

\* The queue is bounded in events and in bytes.
Bounded == CountBounded /\ BytesBounded

\* Two clears never wait side by side, even after flood eviction removed what
\* separated them (coalesce_adjacent_replacements).
NoAdjacentClears ==
    \A x, y \in queue : Adjacent(x, y, queue) => ~ReplacesQueued(y, x)

\* Inner.bytes is exactly the payload that waits: every removal path, back
\* replacement, eviction, coalescing and delivery, takes its bytes along.
BytesExact == queuedBytes = Bytes(queue)

\* A clear is never lost to a flood: it is delivered or waiting, or a later
\* clear stands for it and no content between the two is ever delivered, so
\* forget-on-clear meets the same last capture (SBS-1045).
ClearNotLost ==
    LET kept == queue \cup delivered
    IN \A c \in { x \in sent : IsCleared(x) } :
         c \in kept \/ \E d \in kept :
                          /\ IsCleared(d) /\ d.id > c.id
                          /\ \A x \in kept : ~ (c.id < x.id /\ x.id < d.id)

\* Events are handled in the order they were captured: whatever waits is newer
\* than whatever was delivered.
Fifo == \A x \in queue, y \in delivered : y.id < x.id

(***************************************************************************)
(* Content is dropped only under pressure: a send that loses a waiting     *)
(* capture found the queue full, over its byte budget with the new event,  *)
(* or is itself oversize.  A burst inside both budgets keeps every copy.   *)
(***************************************************************************)
EvictsOnlyUnderPressure ==
    [][\A item \in sent' \ sent :
         (\E x \in Droppable(queue) : x \notin queue')
             => \/ Oversize(item)
                \/ Cardinality(queue) >= Capacity
                \/ CountedNonOversizeBytes(queue) + PayloadBytes(item) > MaxBytes
      ]_vars

----------------------------------------------------------------------------
(* Liveness.                                                               *)

\* No wake-up is lost: an event that waits is delivered or evicted, whatever
\* the interleaving of the send's two steps with the receiver going to sleep.
EverythingLeavesTheQueue ==
    \A id \in 1..MaxSends :
        (\E x \in queue : x.id = id)
            ~> (receiverGone \/ \A x \in queue : x.id # id)

\* Dropping the sender ends the consumer, after it has drained the queue.
CloseEndsReceiver ==
    sendersGone ~> (receiverGone \/ (receiverPc = "done" /\ queue = {}))

\* Neither wake-up, that of a send or that of the last drop, is ever lost.
NoLostWakeUp == EverythingLeavesTheQueue /\ CloseEndsReceiver
=============================================================================
