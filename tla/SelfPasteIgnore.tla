-------------------------- MODULE SelfPasteIgnore --------------------------
(***************************************************************************)
(* How Cubby recognises its own clipboard writes                           *)
(* (src-tauri/src/clipboard/ignore_hash.rs).  A paste sets a live marker   *)
(* before it writes; the listener binds the live marker to each snapshot   *)
(* it queues; the consumer skips a snapshot whose bound, or live, marker   *)
(* names its content; flood eviction releases the marker of a dropped      *)
(* echo.  The four parties share IGNORE_HASH and the snapshot queue;       *)
(* CLIPBOARD_SYNC orders the paste and the consumer, never the listener.   *)
(*                                                                         *)
(* The five-second TTL is the fresh flag of the marker: a marker may go    *)
(* stale at any time, and a stale marker stays until something takes it.   *)
(***************************************************************************)
EXTENDS SnapshotQueue

CONSTANTS
    Hashes,       \* content identities
    Size,         \* payload bytes of each content
    MaxWrites,    \* bound on clipboard writes, by the user or by Cubby
    MaxPastes     \* bound on markers set

ASSUME IgnoreAssumption ==
    /\ Hashes # {}
    /\ Size \in [Hashes -> Nat]
    /\ MaxWrites \in Nat /\ MaxPastes \in Nat

User == 0           \* a write that is not Cubby's own
NoGeneration == 0   \* generations count from 1 (NEXT_GENERATION)

Generations == 1 .. MaxPastes

VARIABLES
    clipboard,    \* the OS clipboard: sequence number, content, and its writer
    marker,       \* IgnoreState.marker: a set with at most one marker
    consumed,     \* IgnoreState.consumed_generation, NoGeneration if none
    generation,   \* last generation handed out
    pasting,      \* the paste command between its marker and its write
    sync,         \* who holds CLIPBOARD_SYNC: "free", "paste" or "consumer"
    reading,      \* the snapshot the listener thread is building
    sending,      \* the snapshot it has finished and not yet put into the queue
    handled,      \* last sequence number the listener read
    snapshots,    \* the snapshot queue
    taken,        \* the snapshot the consumer received and has not finished
    spends,       \* history: which snapshot used up which generation, and how
    stored        \* history: the snapshots the consumer went on to persist

ignoreVars == <<clipboard, marker, consumed, generation, pasting, sync, reading,
                sending, handled, snapshots, taken, spends, stored>>

----------------------------------------------------------------------------
(* Data.  A snapshot carries the hash of its content, the generation bound *)
(* to it with that marker's hash, and two history fields: who wrote the    *)
(* content, and the oldest generation that was fresh when it was read or   *)
(* set later.                                                              *)

Writers == { User } \cup Generations

Markers == [hash : Hashes, generation : Generations, fresh : BOOLEAN]

Bindings == [hash : Hashes, generation : Generations]

Snapshots ==
    [id : 1 .. MaxWrites, kind : {"content"}, bytes : Nat, hash : Hashes,
     bound : SUBSET Bindings, writer : Writers, since : 1 .. MaxPastes + 1]

\* The type invariant: at most one marker, one paste, one snapshot being read
\* and one being processed; generations are only ever handed out once.
IgnoreTypeOK ==
    /\ clipboard \in [seq : 0 .. MaxWrites, hash : Hashes, writer : Writers]
    /\ marker \in SUBSET Markers /\ Cardinality(marker) <= 1
    /\ consumed \in 0 .. MaxPastes
    /\ generation \in 0 .. MaxPastes
    /\ pasting \in SUBSET Bindings /\ Cardinality(pasting) <= 1
    /\ sync \in {"free", "paste", "consumer"}
    /\ reading \in SUBSET Snapshots /\ Cardinality(reading) <= 1
    /\ sending \in SUBSET Snapshots /\ Cardinality(reading \cup sending) <= 1
    /\ handled \in 0 .. MaxWrites
    /\ snapshots \in SUBSET Snapshots
    /\ taken \in SUBSET Snapshots /\ Cardinality(taken) <= 1
    /\ stored \in SUBSET Snapshots
    /\ spends \in SUBSET [generation : Generations, snapshot : Snapshots,
                          how : {"swallowed", "released"}]

----------------------------------------------------------------------------
(* ignore_hash.rs                                                          *)

\* Mutant: a stale marker is still bound.
StaleBinding == { [hash |-> m.hash, generation |-> m.generation] : m \in marker }

\* bind_ignore_hash_for_queued_work: only a marker inside its TTL rides along.
Binding == { [hash |-> m.hash, generation |-> m.generation] :
               m \in { k \in marker : k.fresh } }

\* The bound generation of a snapshot that is the echo it was bound for.
OwnGenerations(s) == { b.generation : b \in { c \in s.bound : c.hash = s.hash } }

\* Mutant: a spent binding still counts.
SpentBindingCounts(s) == OwnGenerations(s) # {}

\* ignored_via_queued: the binding names this content and is not yet spent.
IgnoredViaQueued(s) == \E g \in OwnGenerations(s) : g # consumed

\* ignore_marker_applies: the live marker names this content inside its TTL.
IgnoredViaLive(s) == \E m \in marker : m.fresh /\ m.hash = s.hash

ShouldIgnore(s) == IgnoredViaQueued(s) \/ IgnoredViaLive(s)

\* The generation consume_ignore_marker_after_self_paste uses up: the bound
\* one if the binding decided, otherwise the live one.
GenerationSpentBy(s) ==
    IF IgnoredViaQueued(s)
    THEN CHOOSE g \in OwnGenerations(s) : TRUE
    ELSE CHOOSE g \in { m.generation : m \in marker } : TRUE

\* Mutant: the marker outlives the generation it announced.
MarkerStays(spent) == marker

\* The live marker is only taken by the snapshot that spends its generation.
MarkerAfter(spent) == { m \in marker : m.generation \notin spent }

\* release_dropped_queued_work over the evicted snapshots, oldest first: each
\* bound echo spends its generation unless that is the last one spent.
BoundEchoes(evicted) == { s \in evicted : OwnGenerations(s) # {} }

LastSpent(echoes) ==
    IF echoes = {} THEN consumed
    ELSE CHOOSE g \in Generations :
           \E s \in echoes : IsBack(s, echoes) /\ g \in OwnGenerations(s)

Released(evicted) ==
    LET echoes == BoundEchoes(evicted)
    IN { s \in echoes : LastSpent(OlderThan(s, echoes)) \notin OwnGenerations(s) }

----------------------------------------------------------------------------

IgnoreInit ==
    /\ clipboard \in [seq : {0}, hash : Hashes, writer : {User}]
    /\ marker = {}
    /\ consumed = NoGeneration
    /\ generation = 0
    /\ pasting = {}
    /\ sync = "free"
    /\ reading = {} /\ sending = {}
    /\ handled = 0
    /\ snapshots = {}
    /\ taken = {}
    /\ spends = {}
    /\ stored = {}

\* Another application puts content on the clipboard.
UserCopies(h) ==
    /\ clipboard.seq < MaxWrites
    /\ clipboard' = [seq |-> clipboard.seq + 1, hash |-> h, writer |-> User]
    /\ UNCHANGED <<marker, consumed, generation, pasting, sync, reading, sending,
                   handled, snapshots, taken, spends, stored>>

\* restore_clip and its siblings up to set_ignore_hash, under CLIPBOARD_SYNC.
\* consumed_generation stays: an old echo must still see it as spent.
SetMarker(h) ==
    /\ sync = "free"
    /\ generation < MaxPastes
    /\ sync' = "paste"
    /\ generation' = generation + 1
    /\ marker' = { [hash |-> h, generation |-> generation + 1, fresh |-> TRUE] }
    /\ pasting' = { [hash |-> h, generation |-> generation + 1] }
    /\ UNCHANGED <<clipboard, consumed, reading, sending, handled, snapshots, taken,
                   spends, stored>>

\* The clipboard write lands and the command lets go of CLIPBOARD_SYNC.
PasteWrites ==
    \E p \in pasting :
      /\ clipboard.seq < MaxWrites
      /\ clipboard' = [seq |-> clipboard.seq + 1, hash |-> p.hash,
                       writer |-> p.generation]
      /\ pasting' = {}
      /\ sync' = "free"
      /\ UNCHANGED <<marker, consumed, generation, reading, sending, handled, snapshots,
                     taken, spends, stored>>

\* The write failed: clear_ignore_hash_if_matches takes the marker back.
PasteFails ==
    \E p \in pasting :
      /\ marker' = { m \in marker : m.hash # p.hash }
      /\ pasting' = {}
      /\ sync' = "free"
      /\ UNCHANGED <<clipboard, consumed, generation, reading, sending, handled, snapshots,
                     taken, spends, stored>>

\* A stored rich format is not UTF-8: restore_clip returns before the write
\* and leaves the marker to its TTL.
PasteRejected ==
    \E p \in pasting :
      /\ pasting' = {}
      /\ sync' = "free"
      /\ UNCHANGED <<clipboard, marker, consumed, generation, reading, sending, handled,
                     snapshots, taken, spends, stored>>

\* IGNORE_HASH_TTL elapses.
MarkerExpires ==
    \E m \in marker :
      /\ m.fresh
      /\ marker' = { [m EXCEPT !.fresh = FALSE] }
      /\ UNCHANGED <<clipboard, consumed, generation, pasting, sync, reading, sending,
                     handled, snapshots, taken, spends, stored>>

\* The listener thread reads the current sequence (materialize)...
Read ==
    /\ reading = {} /\ sending = {}
    /\ handled < clipboard.seq
    /\ handled' = clipboard.seq
    /\ reading' =
         { [id |-> clipboard.seq, kind |-> "content", bytes |-> Size[clipboard.hash],
            hash |-> clipboard.hash, bound |-> {}, writer |-> clipboard.writer,
            since |-> IF \E m \in marker : m.fresh THEN generation ELSE generation + 1] }
    /\ UNCHANGED <<clipboard, marker, consumed, generation, pasting, sync, sending,
                   snapshots, taken, spends, stored>>

\* ...copies the live marker onto the snapshot, and lets go of IGNORE_HASH...
Bind ==
    \E r \in reading :
      /\ reading' = {}
      /\ sending' = { [r EXCEPT !.bound = Binding] }
      /\ UNCHANGED <<clipboard, marker, consumed, generation, pasting, sync, handled,
                     snapshots, taken, spends, stored>>

\* ...and sends it.  An eviction is released under the queue lock, before the consumer
\* can see the new item.
Send ==
    \E item \in sending :
      LET evicted == Evicted(snapshots, item)
          spent == UNION { OwnGenerations(s) : s \in Released(evicted) }
      IN
      /\ snapshots' = Enqueue(snapshots, item)
      /\ consumed' = LastSpent(BoundEchoes(evicted))
      /\ marker' = MarkerAfter(spent)
      /\ spends' = spends \cup
           UNION { { [generation |-> g, snapshot |-> s, how |-> "released"] :
                       g \in OwnGenerations(s) } : s \in Released(evicted) }
      /\ sending' = {}
      /\ UNCHANGED <<clipboard, generation, pasting, sync, reading, handled, taken, stored>>

\* The consumer receives the oldest snapshot...
TakeSnapshot ==
    /\ taken = {}
    /\ snapshots # {}
    /\ taken' = { Front(snapshots) }
    /\ snapshots' = Dequeue(snapshots)
    /\ UNCHANGED <<clipboard, marker, consumed, generation, pasting, sync,
                   reading, sending, handled, spends, stored>>

\* ...waits for CLIPBOARD_SYNC...
Lock ==
    /\ taken # {}
    /\ sync = "free"
    /\ sync' = "consumer"
    /\ UNCHANGED <<clipboard, marker, consumed, generation, pasting, reading, sending,
                   handled, snapshots, taken, spends, stored>>

\* ...and skips it as its own echo (ignore_and_consume_self_paste)...
Swallow ==
    \E s \in taken :
      /\ sync = "consumer"
      /\ ShouldIgnore(s)
      /\ consumed' = GenerationSpentBy(s)
      /\ marker' = MarkerAfter({ GenerationSpentBy(s) })
      /\ spends' = spends \cup
           { [generation |-> GenerationSpentBy(s), snapshot |-> s, how |-> "swallowed"] }
      /\ taken' = {}
      /\ sync' = "free"
      /\ UNCHANGED <<clipboard, generation, pasting, reading, sending, handled, snapshots, stored>>

\* ...or goes on to persist it.
Store ==
    \E s \in taken :
      /\ sync = "consumer"
      /\ ~ShouldIgnore(s)
      /\ stored' = stored \cup { s }
      /\ taken' = {}
      /\ sync' = "free"
      /\ UNCHANGED <<clipboard, marker, consumed, generation, pasting, reading, sending,
                     handled, snapshots, spends>>

IgnoreNext ==
    \/ \E h \in Hashes : UserCopies(h) \/ SetMarker(h)
    \/ PasteWrites \/ PasteFails \/ PasteRejected \/ MarkerExpires
    \/ Read \/ Bind \/ Send
    \/ TakeSnapshot \/ Lock \/ Swallow \/ Store

IgnoreSpec == IgnoreInit /\ [][IgnoreNext]_ignoreVars

----------------------------------------------------------------------------
(* Properties.                                                             *)

Swallowed == { e.snapshot : e \in { x \in spends : x.how = "swallowed" } }

\* A marker whose generation has been used up, by an echo that was processed
\* or by one that was evicted, is not live any more: it cannot be bound to a
\* later copy (SBS-1039, consume_ignore_marker_after_self_paste).
SpentMarkerNotLive ==
    \A m \in marker, e \in spends : m.generation # e.generation

\* A stale marker never swallows a copy made after it went stale: whatever a
\* swallowed snapshot spent was fresh when it was read, or was set since.
StaleNeverSwallows ==
    \A e \in spends : e.how = "swallowed" => e.generation >= e.snapshot.since

\* After an echo is consumed or evicted, the next snapshot that carries the
\* same generation is a real copy: no generation is spent twice in a row.
NeverSpentTwiceInARow ==
    [][\A s \in taken : taken' = {} /\ stored' = stored
          => GenerationSpentBy(s) # consumed]_ignoreVars

(***************************************************************************)
(* What a comment of the code says of it and the code does not keep: TLC   *)
(* refutes it (README, "Where the code and its comments differ").          *)
(***************************************************************************)

\* "Queued ignore is one-shot per generation: consuming an echo must not
\* swallow a later same-hash snapshot that bound the same generation"
\* (ignore_hash.rs, module comment).
OneShotPerGeneration ==
    \A e, f \in spends :
        (e.generation = f.generation /\ e.snapshot.writer = e.generation)
            => f.snapshot.id <= e.snapshot.id
=============================================================================
