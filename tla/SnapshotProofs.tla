--------------------------- MODULE SnapshotProofs ---------------------------
(***************************************************************************)
(* The snapshots between the listener thread and the consumer: what        *)
(* enqueue() guarantees about any queue it is given, the channel built on  *)
(* it, and what the ignore marker may swallow of what comes through it.    *)
(* All of it for every capacity of at least three, every byte budget,      *)
(* every set of contents and sizes, and any number of writes and pastes.   *)
(***************************************************************************)
EXTENDS SnapshotChannel, SelfPasteIgnore, Integers, FiniteSetTheorems,
        WellFoundedInduction, TLAPS

Item == [id : Nat, kind : {"content", "cleared"}, bytes : Nat]

\* A queue: finitely many items, one per arrival number, none above n.
QueueUpTo(q, n) ==
    /\ n \in Nat
    /\ IsFiniteSet(q)
    /\ q \subseteq Item
    /\ \A x \in q : x.id <= n
    /\ \A x, y \in q : x.id = y.id => x = y

NoAdjacent(q) == \A x, y \in q : Adjacent(x, y, q) => ~ReplacesQueued(y, x)

\* The clear c is in q, or a later clear stands for it in q with nothing
\* queued between the two.
Stands(c, q) ==
    c \in q \/ \E d \in q : /\ IsCleared(d) /\ c.id < d.id
                            /\ \A x \in q : ~ (c.id < x.id /\ x.id < d.id)

----------------------------------------------------------------------------
(* Order.                                                                  *)

Less == { p \in Nat \X Nat : p[1] < p[2] }

\* Every non-empty set of naturals has a least element.
LEMMA LeastElement ==
    ASSUME NEW S \in SUBSET Nat, S # {}
    PROVE  \E m \in S : \A n \in S : m <= n
<1>1. IsWellFoundedOn(Less, Nat)
  BY NatLessThanWellFounded DEF Less, OpToRel
<1>2. PICK x \in S : \A y \in S : ~ (<<y, x>> \in Less)
  BY <1>1, WFMin
<1>3. ASSUME NEW y \in S PROVE x <= y
  <2>1. x \in Nat /\ y \in Nat
    OBVIOUS
  <2>2. ~ (<<y, x>> \in Less)
    BY <1>2
  <2>3. y < x => <<y, x>> \in Less
    BY <2>1 DEF Less
  <2>4. QED
    BY <2>1, <2>2, <2>3
<1>4. QED
  BY <1>3

\* Every non-empty set of items has an oldest one.
LEMMA OldestItem ==
    ASSUME NEW q \in SUBSET Item, q # {}
    PROVE  \E x \in q : \A y \in q : x.id <= y.id
<1> DEFINE Ids == { x.id : x \in q }
<1>1. Ids \in SUBSET Nat /\ Ids # {}
  BY DEF Item
<1>2. PICK m \in Ids : \A n \in Ids : m <= n
  BY <1>1, LeastElement
<1>3. QED
  BY <1>2

\* Every non-empty set of items with bounded arrival numbers has a newest one.
LEMMA NewestItem ==
    ASSUME NEW q \in SUBSET Item, q # {}, NEW n \in Nat, \A x \in q : x.id <= n
    PROVE  \E x \in q : \A y \in q : y.id <= x.id
<1> DEFINE Gaps == { n - x.id : x \in q }
<1>1. \A x \in q : x.id \in Nat
  BY DEF Item
<1>2. Gaps \in SUBSET Nat /\ Gaps # {}
  BY <1>1
<1>3. PICK m \in Gaps : \A g \in Gaps : m <= g
  BY <1>2, LeastElement
<1>4. PICK x \in q : m = n - x.id
  OBVIOUS
<1>5. ASSUME NEW y \in q PROVE y.id <= x.id
  <2>1. m <= n - y.id
    BY <1>3
  <2>2. QED
    BY <1>1, <1>4, <2>1
<1>6. QED
  BY <1>5

\* An item with something behind it has a direct successor.
LEMMA Successor ==
    ASSUME NEW q \in SUBSET Item, NEW x \in q, \E y \in q : x.id < y.id
    PROVE  \E s \in q : Adjacent(x, s, q)
<1> DEFINE Later == { y \in q : x.id < y.id }
<1>1. PICK s \in Later : \A y \in Later : s.id <= y.id
  BY OldestItem, Later \in SUBSET Item, Later # {}
<1>2. \A z \in q : z.id \in Nat
  BY DEF Item
<1>3. Adjacent(x, s, q)
  BY <1>1, <1>2 DEF Adjacent
<1>4. QED
  BY <1>3

\* An item with something in front of it has a direct predecessor.
LEMMA Predecessor ==
    ASSUME NEW q, NEW n, QueueUpTo(q, n), NEW y \in q, \E x \in q : x.id < y.id
    PROVE  \E p \in q : Adjacent(p, y, q)
<1> DEFINE Earlier == { x \in q : x.id < y.id }
<1>1. PICK p \in Earlier : \A x \in Earlier : x.id <= p.id
  <2>1. Earlier \in SUBSET Item /\ Earlier # {}
    BY DEF QueueUpTo
  <2>2. n \in Nat /\ \A x \in Earlier : x.id <= n
    BY DEF QueueUpTo
  <2>3. QED
    BY <2>1, <2>2, NewestItem
<1>2. \A z \in q : z.id \in Nat
  BY DEF QueueUpTo, Item
<1>3. Adjacent(p, y, q)
  BY <1>1, <1>2 DEF Adjacent
<1>4. QED
  BY <1>3

\* A part of a queue is a queue.
LEMMA SubQueue ==
    ASSUME NEW q, NEW n, QueueUpTo(q, n), NEW r \in SUBSET q
    PROVE  QueueUpTo(r, n)
BY FS_Subset DEF QueueUpTo

----------------------------------------------------------------------------
(* Coalescing.                                                             *)

\* Coalescing leaves no two clears side by side.
LEMMA CoalesceNoAdjacent ==
    ASSUME NEW r, NEW n, QueueUpTo(r, n)
    PROVE  NoAdjacent(CoalesceAdjacentReplacements(r))
<1> DEFINE C == CoalesceAdjacentReplacements(r)
<1>1. SUFFICES ASSUME NEW x \in C, NEW y \in C, Adjacent(x, y, C),
                      ReplacesQueued(y, x)
               PROVE  FALSE
  BY DEF NoAdjacent
<1>2. C \subseteq r /\ r \subseteq Item
  BY DEF CoalesceAdjacentReplacements, QueueUpTo
<1>3. \A z \in r : z.id \in Nat
  BY <1>2 DEF Item
<1>4. x.id < y.id
  BY <1>1 DEF Adjacent
<1>5. PICK s \in r : Adjacent(x, s, r)
  BY <1>2, <1>4, Successor
<1>6. ~IsCleared(s)
  BY <1>1, <1>5 DEF CoalesceAdjacentReplacements, ReplacesQueued
<1>7. s \in C
  BY <1>6 DEF CoalesceAdjacentReplacements, ReplacesQueued
<1>8. x.id < s.id /\ s.id <= y.id
  BY <1>2, <1>3, <1>4, <1>5 DEF Adjacent
<1>9. s.id >= y.id
  BY <1>1, <1>2, <1>3, <1>7, <1>8 DEF Adjacent
<1>10. s = y
  <2>1. s.id = y.id
    BY <1>2, <1>3, <1>8, <1>9
  <2>2. QED
    BY <1>2, <2>1 DEF QueueUpTo
<1>11. QED
  BY <1>1, <1>6, <1>10 DEF ReplacesQueued

\* A coalesced clear is represented by the next clear that stays.
LEMMA CoalesceStands ==
    ASSUME NEW r, NEW n, QueueUpTo(r, n), NEW c \in r, IsCleared(c)
    PROVE  Stands(c, CoalesceAdjacentReplacements(r))
<1> DEFINE C == CoalesceAdjacentReplacements(r)
           Later == { z \in C : c.id < z.id }
<1>1. C \subseteq r /\ r \subseteq Item
  BY DEF CoalesceAdjacentReplacements, QueueUpTo
<1>2. \A z \in r : z.id \in Nat
  BY <1>1 DEF Item
<1>3. SUFFICES ASSUME c \notin C PROVE Stands(c, C)
  BY DEF Stands
<1>4. PICK t \in r : \A z \in r : z.id <= t.id
  <2>1. r \in SUBSET Item /\ r # {} /\ n \in Nat /\ \A z \in r : z.id <= n
    BY <1>1 DEF QueueUpTo
  <2>2. QED
    BY <2>1, NewestItem
<1>5. t \in C
  <2>1. \A y \in r : ~Adjacent(t, y, r)
    BY <1>2, <1>4 DEF Adjacent
  <2>2. QED
    BY <2>1 DEF CoalesceAdjacentReplacements
<1>6. PICK s \in r : Adjacent(c, s, r) /\ ReplacesQueued(s, c)
  BY <1>3 DEF CoalesceAdjacentReplacements
<1>7. t \in Later
  BY <1>2, <1>4, <1>5, <1>6 DEF Adjacent
<1>8. PICK d \in Later : \A z \in Later : d.id <= z.id
  <2>1. Later \in SUBSET Item /\ Later # {}
    BY <1>1, <1>7
  <2>2. QED
    BY <2>1, OldestItem
<1>9. PICK p \in r : Adjacent(p, d, r)
  BY <1>1, <1>8, Predecessor
<1>10. c.id <= p.id
  BY <1>1, <1>2, <1>8, <1>9 DEF Adjacent
<1>11. p \notin C
  <2>1. CASE c.id < p.id
    BY <1>1, <1>2, <1>8, <1>9, <2>1 DEF Adjacent
  <2>2. CASE c.id = p.id
    BY <1>3, <2>2 DEF QueueUpTo
  <2>3. QED
    BY <1>2, <1>10, <2>1, <2>2
<1>12. PICK u \in r : Adjacent(p, u, r) /\ ReplacesQueued(u, p)
  BY <1>11 DEF CoalesceAdjacentReplacements
<1>13. u = d
  <2>1. u.id = d.id
    BY <1>1, <1>2, <1>8, <1>9, <1>12 DEF Adjacent
  <2>2. QED
    BY <1>1, <1>8, <2>1 DEF QueueUpTo
<1>14. IsCleared(d)
  BY <1>12, <1>13 DEF ReplacesQueued
<1>15. \A z \in C : ~ (c.id < z.id /\ z.id < d.id)
  BY <1>1, <1>2, <1>8
<1>16. QED
  BY <1>8, <1>14, <1>15 DEF Stands

\* Standing in for a clear is preserved by thinning the queue further, as long
\* as every clear of it is represented afterwards.
LEMMA StandsTransitive ==
    ASSUME NEW q, NEW n, QueueUpTo(q, n), NEW r \in SUBSET q, NEW c \in Item,
           Stands(c, q), IsCleared(c),
           \A d \in q : IsCleared(d) => Stands(d, r)
    PROVE  Stands(c, r)
<1>1. CASE c \in q
  BY <1>1
<1>2. CASE c \notin q
  <2>1. PICK d \in q : /\ IsCleared(d) /\ c.id < d.id
                       /\ \A x \in q : ~ (c.id < x.id /\ x.id < d.id)
    BY <1>2 DEF Stands
  <2>2. \A z \in q : z.id \in Nat
    BY DEF QueueUpTo, Item
  <2>3. c.id \in Nat
    BY DEF Item
  <2>4. CASE d \in r
    BY <2>1, <2>4 DEF Stands
  <2>5. CASE d \notin r
    <3>1. Stands(d, r)
      BY <2>1
    <3>2. PICK e \in r : /\ IsCleared(e) /\ d.id < e.id
                         /\ \A x \in r : ~ (d.id < x.id /\ x.id < e.id)
      BY <2>5, <3>1 DEF Stands
    <3>3. c.id < e.id
      BY <2>1, <2>2, <2>3, <3>2
    <3>4. ASSUME NEW x \in r, c.id < x.id, x.id < e.id PROVE FALSE
      <4>1. ~ (x.id < d.id)
        BY <2>1, <3>4
      <4>2. ~ (d.id < x.id)
        BY <3>2, <3>4
      <4>3. x.id \in Nat /\ d.id \in Nat
        BY <2>2
      <4>4. x.id = d.id
        BY <4>1, <4>2, <4>3
      <4>5. x = d
        BY <4>4 DEF QueueUpTo
      <4>6. QED
        BY <2>5, <4>5
    <3>5. QED
      BY <3>2, <3>3, <3>4 DEF Stands
  <2>6. QED
    BY <2>4, <2>5
<1>3. QED
  BY <1>1, <1>2

----------------------------------------------------------------------------
(* Evictions.                                                              *)

\* Thinning a queue keeps its order and its contents.
LEMMA WithoutSubset ==
    ASSUME NEW q, NEW victims
    PROVE  Without(q, victims) \subseteq q \ victims
BY DEF Without, CoalesceAdjacentReplacements

\* No two clears are side by side after an eviction if none were before.
LEMMA WithoutNoAdjacent ==
    ASSUME NEW q, NEW n, QueueUpTo(q, n), NoAdjacent(q), NEW victims
    PROVE  NoAdjacent(Without(q, victims))
<1>1. CASE victims = {}
  BY <1>1 DEF Without
<1>2. CASE victims # {}
  <2>1. QueueUpTo(q \ victims, n)
    BY SubQueue
  <2>2. QED
    BY <1>2, <2>1, CoalesceNoAdjacent DEF Without
<1>3. QED
  BY <1>1, <1>2

\* Evicting content never loses a clear.
LEMMA WithoutStands ==
    ASSUME NEW q, NEW n, QueueUpTo(q, n), NEW victims \in SUBSET Droppable(q),
           NEW c \in q, IsCleared(c)
    PROVE  Stands(c, Without(q, victims))
<1>1. CASE victims = {}
  BY <1>1 DEF Without, Stands
<1>2. CASE victims # {}
  <2>1. QueueUpTo(q \ victims, n)
    BY SubQueue
  <2>2. c \in q \ victims
    BY DEF Droppable, RetainOnFlood
  <2>3. QED
    BY <1>2, <2>1, <2>2, CoalesceStands DEF Without
<1>3. QED
  BY <1>1, <1>2

\* Content is only lost by being a victim.
LEMMA WithoutKeepsContent ==
    ASSUME NEW q, NEW victims, NEW x \in q, ~IsCleared(x), x \notin victims
    PROVE  x \in Without(q, victims)
BY DEF Without, CoalesceAdjacentReplacements, ReplacesQueued

\* What ReplaceBack leaves of a queue.
LEMMA ReplaceBackNoAdjacent ==
    ASSUME NEW q, NEW n, QueueUpTo(q, n), NoAdjacent(q), NEW item
    PROVE  /\ ReplaceBack(q, item) \subseteq q
           /\ QueueUpTo(ReplaceBack(q, item), n)
           /\ NoAdjacent(ReplaceBack(q, item))
<1> DEFINE base == ReplaceBack(q, item)
<1>1. base \subseteq q
  BY DEF ReplaceBack
<1>2. QueueUpTo(base, n)
  BY <1>1, SubQueue
<1>3. \A z \in q : z.id \in Nat
  BY DEF QueueUpTo, Item
<1>4. ASSUME NEW x \in base, NEW y \in base, Adjacent(x, y, base)
      PROVE  ~ReplacesQueued(y, x)
  <2>1. ASSUME NEW z \in q \ base PROVE z.id >= y.id
    BY <1>1, <1>3, <2>1 DEF ReplaceBack, IsBack
  <2>2. Adjacent(x, y, q)
    BY <1>4, <2>1 DEF Adjacent
  <2>3. QED
    BY <1>1, <2>2 DEF NoAdjacent
<1>5. QED
  BY <1>1, <1>2, <1>4 DEF NoAdjacent

\* When a clear arrives, what is left to wait at the back is content.
LEMMA ReplaceBackLeavesContent ==
    ASSUME NEW q, NEW n, QueueUpTo(q, n), NoAdjacent(q), NEW item, IsCleared(item),
           NEW b, IsBack(b, ReplaceBack(q, item))
    PROVE  ~IsCleared(b)
<1> DEFINE base == ReplaceBack(q, item)
<1>1. SUFFICES ASSUME IsCleared(b) PROVE FALSE
  OBVIOUS
<1>2. b \in base /\ b \in q
  BY DEF IsBack, ReplaceBack
<1>3. \A z \in q : z.id \in Nat
  BY DEF QueueUpTo, Item
<1>4. ~IsBack(b, q)
  BY <1>1, <1>2 DEF ReplaceBack, ReplacesQueued
<1>5. PICK t \in q : b.id < t.id
  BY <1>2, <1>3, <1>4 DEF IsBack
<1>6. PICK s \in q : Adjacent(b, s, q)
  BY <1>2, <1>5, Successor DEF QueueUpTo
<1>7. b.id < s.id /\ s \notin base
  <2>1. b.id < s.id
    BY <1>6 DEF Adjacent
  <2>2. QED
    BY <1>2, <1>3, <2>1 DEF IsBack
<1>8. IsCleared(s)
  BY <1>7 DEF ReplaceBack, ReplacesQueued
<1>9. QED
  BY <1>1, <1>2, <1>6, <1>8 DEF NoAdjacent, ReplacesQueued

----------------------------------------------------------------------------
(* Byte accounting.                                                        *)

Cells(q) == UNION { {x} \X (1 .. PayloadBytes(x)) : x \in q }

\* A payload is a number of bytes, none for a clear.
LEMMA PayloadType ==
    ASSUME NEW x \in Item
    PROVE  PayloadBytes(x) \in Nat
BY DEF PayloadBytes, Item

\* A finite queue has finitely many bytes, and Bytes counts them.
LEMMA CellsFinite ==
    ASSUME NEW q \in SUBSET Item, IsFiniteSet(q)
    PROVE  IsFiniteSet(Cells(q)) /\ Bytes(q) = Cardinality(Cells(q)) /\ Bytes(q) \in Nat
<1> DEFINE rows == { {x} \X (1 .. PayloadBytes(x)) : x \in q }
           f == [x \in q |-> {x} \X (1 .. PayloadBytes(x))]
<1>1. f \in Surjection(q, rows)
  BY DEF Surjection
<1>2. IsFiniteSet(rows)
  BY <1>1, FS_Surjection
<1>3. ASSUME NEW x \in q PROVE IsFiniteSet({x} \X (1 .. PayloadBytes(x)))
  <2>1. PayloadBytes(x) \in Int
    BY PayloadType
  <2>2. IsFiniteSet(1 .. PayloadBytes(x))
    BY <2>1, FS_Interval
  <2>3. IsFiniteSet({x})
    BY FS_Singleton
  <2>4. QED
    BY <2>2, <2>3, FS_Product
<1>4. \A T \in rows : IsFiniteSet(T)
  BY <1>3
<1>5. IsFiniteSet(Cells(q))
  BY <1>2, <1>4, FS_UNION DEF Cells
<1>6. QED
  BY <1>5, FS_CardinalityType DEF Bytes, Cells

\* The bytes of a queue are those of any part of it and those of the rest.
LEMMA BytesSplit ==
    ASSUME NEW q \in SUBSET Item, IsFiniteSet(q), NEW r \in SUBSET q
    PROVE  /\ Bytes(q) = Bytes(r) + Bytes(q \ r)
           /\ Bytes(r) \in Nat /\ Bytes(q \ r) \in Nat
           /\ Bytes(r) <= Bytes(q)
<1>1. IsFiniteSet(r) /\ IsFiniteSet(q \ r)
  BY FS_Subset
<1>2. /\ IsFiniteSet(Cells(r)) /\ Bytes(r) = Cardinality(Cells(r)) /\ Bytes(r) \in Nat
      /\ IsFiniteSet(Cells(q \ r)) /\ Bytes(q \ r) = Cardinality(Cells(q \ r))
      /\ Bytes(q \ r) \in Nat /\ Bytes(q) = Cardinality(Cells(q))
  BY <1>1, CellsFinite
<1>3. Cells(q) = Cells(r) \cup Cells(q \ r)
  BY DEF Cells
<1>4. Cells(r) \cap Cells(q \ r) = {}
  BY DEF Cells
<1>5. Cardinality(Cells(q)) =
         Cardinality(Cells(r)) + Cardinality(Cells(q \ r)) - Cardinality({})
  BY <1>2, <1>3, <1>4, FS_Union
<1>6. Cardinality({}) = 0
  BY FS_EmptySet
<1>7. QED
  BY <1>2, <1>5, <1>6

\* One event weighs its payload.
LEMMA BytesOfOne ==
    ASSUME NEW x \in Item
    PROVE  Bytes({x}) = PayloadBytes(x)
<1>1. Cells({x}) = {x} \X (1 .. PayloadBytes(x))
  BY DEF Cells
<1>2. /\ IsFiniteSet({x}) /\ Cardinality({x}) = 1
  BY FS_Singleton
<1>3. PayloadBytes(x) \in Nat
  BY PayloadType
<1>4. /\ IsFiniteSet(1 .. PayloadBytes(x))
      /\ Cardinality(1 .. PayloadBytes(x)) = PayloadBytes(x)
  BY <1>3, FS_Interval
<1>5. Cardinality({x} \X (1 .. PayloadBytes(x)))
        = Cardinality({x}) * Cardinality(1 .. PayloadBytes(x))
  <2> DEFINE I == 1 .. PayloadBytes(x)
  <2>1. IsFiniteSet(I)
    BY <1>4
  <2> HIDE DEF I
  <2>2. Cardinality({x} \X I) = Cardinality({x}) * Cardinality(I)
    BY <1>2, <2>1, FS_Product
  <2>3. QED
    BY <2>2 DEF I
<1>6. Bytes({x}) = Cardinality(Cells({x}))
  BY DEF Bytes, Cells
<1>7. ASSUME NEW k \in Nat PROVE 1 * k = k
  OBVIOUS
<1>8. 1 * PayloadBytes(x) = PayloadBytes(x)
  BY <1>3, <1>7
<1>9. Bytes({x}) = 1 * PayloadBytes(x)
  BY <1>1, <1>2, <1>4, <1>5, <1>6
<1>10. QED
  BY <1>8, <1>9

\* An arrival adds its payload to the bytes that wait.
LEMMA BytesAdd ==
    ASSUME NEW q \in SUBSET Item, IsFiniteSet(q), NEW item \in Item, item \notin q
    PROVE  Bytes(q \cup {item}) = Bytes(q) + PayloadBytes(item)
<1>1. q \cup {item} \in SUBSET Item /\ IsFiniteSet(q \cup {item})
  BY FS_AddElement
<1>2. q \in SUBSET (q \cup {item}) /\ (q \cup {item}) \ q = {item}
  OBVIOUS
<1>3. Bytes(q \cup {item}) = Bytes(q) + Bytes((q \cup {item}) \ q)
  BY <1>1, <1>2, BytesSplit
<1>4. QED
  BY <1>2, <1>3, BytesOfOne

\* Clears weigh nothing.
LEMMA BytesOfClears ==
    ASSUME NEW q, \A x \in q : IsCleared(x)
    PROVE  Bytes(q) = 0
<1>1. Cells(q) = {}
  BY DEF Cells, PayloadBytes
<1>2. QED
  BY <1>1, FS_EmptySet DEF Bytes, Cells

----------------------------------------------------------------------------
(* Making room.                                                            *)

Counted(q, item) ==
    Without(ReplaceBack(q, item), CountVictims(ReplaceBack(q, item)))

\* The steps of Room each leave a queue without neighbouring clears.
LEMMA RoomSteps ==
    ASSUME NEW q, NEW n, QueueUpTo(q, n), NoAdjacent(q), NEW item
    PROVE  LET base == ReplaceBack(q, item) IN
           /\ base \subseteq q /\ QueueUpTo(base, n) /\ NoAdjacent(base)
           /\ Counted(q, item) \subseteq base
           /\ QueueUpTo(Counted(q, item), n) /\ NoAdjacent(Counted(q, item))
           /\ Room(q, item) \subseteq base
           /\ QueueUpTo(Room(q, item), n) /\ NoAdjacent(Room(q, item))
           /\ ~Oversize(item) => Room(q, item) \subseteq Counted(q, item)
<1> DEFINE base == ReplaceBack(q, item)
           counted == Without(base, CountVictims(base))
<1>1. base \subseteq q /\ QueueUpTo(base, n) /\ NoAdjacent(base)
  BY ReplaceBackNoAdjacent
<1>2. counted \subseteq base
  BY WithoutSubset
<1>3. QueueUpTo(counted, n) /\ NoAdjacent(counted)
  BY <1>1, <1>2, SubQueue, WithoutNoAdjacent
<1>4. CASE Oversize(item)
  <2>1. Room(q, item) = Without(base, OversizeVictims(base))
    BY <1>4 DEF Room
  <2>2. Room(q, item) \subseteq base
    BY <2>1, WithoutSubset
  <2>3. QueueUpTo(Room(q, item), n) /\ NoAdjacent(Room(q, item))
    BY <1>1, <2>1, <2>2, SubQueue, WithoutNoAdjacent
  <2>4. QED
    BY <1>1, <1>2, <1>3, <1>4, <2>2, <2>3 DEF Counted
<1>5. CASE ~Oversize(item)
  <2>1. Room(q, item) = Without(counted, ByteVictims(counted, item))
    BY <1>5 DEF Room
  <2>2. Room(q, item) \subseteq counted
    BY <2>1, WithoutSubset
  <2>3. QueueUpTo(Room(q, item), n) /\ NoAdjacent(Room(q, item))
    BY <1>3, <2>1, <2>2, SubQueue, WithoutNoAdjacent
  <2>4. QED
    BY <1>1, <1>2, <1>3, <2>2, <2>3 DEF Counted
<1>6. QED
  BY <1>4, <1>5

\* A queue of three or more without neighbouring clears holds content in front
\* of its back item.
LEMMA ContentBeforeBack ==
    ASSUME NEW q, NEW n, QueueUpTo(q, n), NoAdjacent(q), Cardinality(q) >= 3,
           NEW b, IsBack(b, q)
    PROVE  \E y \in q : y # b /\ ~IsCleared(y)
<1>1. SUFFICES ASSUME \A y \in q : y # b => IsCleared(y) PROVE FALSE
  OBVIOUS
<1> DEFINE q0 == q \ {b}
<1>2. b \in q /\ q \in SUBSET Item /\ IsFiniteSet(q) /\ Cardinality(q) \in Nat
  BY FS_CardinalityType DEF IsBack, QueueUpTo
<1>3. IsFiniteSet(q0) /\ Cardinality(q0) = Cardinality(q) - 1
  BY <1>2, FS_RemoveElement
<1>4. q0 # {}
  BY <1>2, <1>3, FS_EmptySet
<1>5. PICK x \in q0 : \A y \in q0 : x.id <= y.id
  BY <1>2, <1>4, OldestItem
<1> DEFINE q1 == q0 \ {x}
<1>6. IsFiniteSet(q1) /\ Cardinality(q1) = Cardinality(q) - 2
  <2>1. IsFiniteSet(q0 \ {x}) /\ Cardinality(q0 \ {x}) = Cardinality(q0) - 1
    BY <1>3, FS_RemoveElement
  <2>2. QED
    BY <1>2, <1>3, <2>1
<1>7. q1 # {}
  BY <1>2, <1>6, FS_EmptySet
<1>8. PICK y \in q1 : \A z \in q1 : y.id <= z.id
  BY <1>2, <1>7, OldestItem
<1>9. \A z \in q : z.id \in Nat
  BY <1>2 DEF Item
<1>10. x.id < y.id
  <2>1. x.id # y.id
    BY <1>8 DEF QueueUpTo
  <2>2. QED
    BY <1>5, <1>9, <2>1
<1>11. ASSUME NEW z \in q PROVE z.id <= x.id \/ z.id >= y.id
  <2>1. CASE z = b
    BY <1>2, <1>9, <2>1 DEF IsBack
  <2>2. CASE z = x
    BY <1>9, <2>2
  <2>3. CASE z \in q1
    BY <1>8, <1>9, <2>3
  <2>4. QED
    BY <2>1, <2>2, <2>3
<1>12. Adjacent(x, y, q)
  BY <1>10, <1>11 DEF Adjacent
<1>13. QED
  BY <1>1, <1>12 DEF NoAdjacent, ReplacesQueued

\* A full queue loses its oldest content, so a slot is free afterwards.
LEMMA CountedHasSlot ==
    ASSUME NEW q, NEW n, QueueUpTo(q, n), NoAdjacent(q),
           Cardinality(q) <= Capacity, NEW item
    PROVE  Cardinality(Counted(q, item)) < Capacity
<1> DEFINE base == ReplaceBack(q, item)
           counted == Counted(q, item)
<1>1. /\ base \subseteq q /\ QueueUpTo(base, n) /\ NoAdjacent(base)
      /\ counted \subseteq base
  BY RoomSteps
<1>2. IsFiniteSet(q) /\ IsFiniteSet(base) /\ IsFiniteSet(counted)
  BY <1>1, FS_Subset DEF QueueUpTo
<1>3. /\ Cardinality(base) \in Nat /\ Cardinality(counted) \in Nat
      /\ Cardinality(base) <= Capacity /\ Cardinality(counted) <= Cardinality(base)
  BY <1>1, <1>2, FS_Subset, FS_CardinalityType, QueueAssumption
<1>4. CASE Cardinality(base) < Capacity
  BY <1>3, <1>4, QueueAssumption
<1>5. CASE Cardinality(base) >= Capacity
  <2>1. base # {} /\ base \in SUBSET Item
    BY <1>1, <1>2, <1>5, FS_EmptySet, QueueAssumption DEF QueueUpTo
  <2>2. PICK b \in base : IsBack(b, base)
    BY <1>1, <2>1, NewestItem DEF QueueUpTo, IsBack
  <2>3. Cardinality(base) >= 3
    BY <1>3, <1>5, QueueAssumption
  <2>4. Droppable(base) # {}
    BY <1>1, <2>2, <2>3, ContentBeforeBack DEF Droppable, RetainOnFlood
  <2>5. Droppable(base) \in SUBSET Item
    BY <2>1 DEF Droppable
  <2>6. PICK x \in Droppable(base) : \A y \in Droppable(base) : x.id <= y.id
    BY <2>4, <2>5, OldestItem
  <2>7. OlderThan(x, Droppable(base)) = {}
    BY <2>5, <2>6 DEF OlderThan, Item
  <2>8. x \in CountVictims(base)
    BY <1>5, <2>6, <2>7 DEF CountVictims, Without
  <2>9. counted \subseteq base \ {x}
    BY <2>8, WithoutSubset DEF Counted
  <2>10. x \in base
    BY <2>6 DEF Droppable
  <2>11. IsFiniteSet(base \ {x}) /\ Cardinality(base \ {x}) = Cardinality(base) - 1
    BY <1>2, <2>10, FS_RemoveElement
  <2>12. Cardinality(counted) <= Cardinality(base) - 1
    BY <2>9, <2>11, FS_Subset
  <2>13. QED
    BY <1>3, <2>12, QueueAssumption
<1>6. QED
  BY <1>3, <1>4, <1>5, QueueAssumption

\* An oversize arrival leaves only clears, fewer than there are slots.
LEMMA OversizeHasSlot ==
    ASSUME NEW q, NEW n, QueueUpTo(q, n), NoAdjacent(q),
           Cardinality(q) <= Capacity, NEW item, Oversize(item)
    PROVE  /\ \A x \in Room(q, item) : IsCleared(x)
           /\ Cardinality(Room(q, item)) < Capacity
<1> DEFINE base == ReplaceBack(q, item)
           room == Room(q, item)
<1>1. /\ base \subseteq q /\ QueueUpTo(base, n) /\ NoAdjacent(base)
      /\ room \subseteq base /\ QueueUpTo(room, n) /\ NoAdjacent(room)
  BY RoomSteps
<1>2. room = Without(base, OversizeVictims(base))
  BY DEF Room
<1>3. \A x \in room : IsCleared(x)
  BY <1>1, <1>2, WithoutSubset DEF OversizeVictims, Droppable, RetainOnFlood
<1>4. IsFiniteSet(room) /\ Cardinality(room) \in Nat
  BY <1>1, FS_CardinalityType DEF QueueUpTo
<1>5. SUFFICES ASSUME Cardinality(room) >= Capacity PROVE FALSE
  BY <1>3, <1>4, QueueAssumption
<1>6. Cardinality(room) >= 3
  BY <1>4, <1>5, QueueAssumption
<1>7. room # {} /\ room \in SUBSET Item
  BY <1>1, <1>4, <1>6, FS_EmptySet DEF QueueUpTo
<1>8. PICK b \in room : IsBack(b, room)
  BY <1>1, <1>7, NewestItem DEF QueueUpTo, IsBack
<1>9. QED
  BY <1>1, <1>3, <1>6, <1>8, ContentBeforeBack

\* Whatever arrives, enqueue() leaves it a free slot.
LEMMA RoomHasSlot ==
    ASSUME NEW q, NEW n, QueueUpTo(q, n), NoAdjacent(q),
           Cardinality(q) <= Capacity, NEW item
    PROVE  Cardinality(Room(q, item)) < Capacity
<1>1. CASE Oversize(item)
  BY <1>1, OversizeHasSlot
<1>2. CASE ~Oversize(item)
  <2>1. /\ Room(q, item) \subseteq Counted(q, item)
        /\ QueueUpTo(Counted(q, item), n) /\ QueueUpTo(Room(q, item), n)
    BY <1>2, RoomSteps
  <2>2. IsFiniteSet(Counted(q, item)) /\ IsFiniteSet(Room(q, item))
    BY <2>1 DEF QueueUpTo
  <2>3. /\ Cardinality(Room(q, item)) <= Cardinality(Counted(q, item))
        /\ Cardinality(Room(q, item)) \in Nat /\ Cardinality(Counted(q, item)) \in Nat
    BY <2>1, <2>2, FS_Subset, FS_CardinalityType
  <2>4. Cardinality(Counted(q, item)) < Capacity
    BY CountedHasSlot
  <2>5. QED
    BY <2>3, <2>4, QueueAssumption
<1>3. QED
  BY <1>1, <1>2

\* Thinning a queue only lowers the bytes counted against the budget.
LEMMA CountedBytesMonotone ==
    ASSUME NEW q, NEW n, QueueUpTo(q, n), NEW r \in SUBSET q
    PROVE  /\ CountedNonOversizeBytes(r) <= CountedNonOversizeBytes(q)
           /\ CountedNonOversizeBytes(r) \in Nat /\ CountedNonOversizeBytes(q) \in Nat
<1> DEFINE small(s) == { x \in s : ~Oversize(x) }
<1>1. small(q) \in SUBSET Item /\ IsFiniteSet(small(q)) /\ small(r) \in SUBSET small(q)
  BY FS_Subset DEF QueueUpTo
<1>2. Bytes(small(r)) <= Bytes(small(q)) /\ Bytes(small(r)) \in Nat
  BY <1>1, BytesSplit
<1>3. Bytes(small(q)) \in Nat
  BY <1>1, CellsFinite
<1>4. QED
  BY <1>2, <1>3 DEF CountedNonOversizeBytes

\* An arriving clear finds content at the back of what is left.
LEMMA ClearFindsContentAtBack ==
    ASSUME NEW q, NEW n, QueueUpTo(q, n), NoAdjacent(q), Cardinality(q) <= Capacity,
           CountedNonOversizeBytes(q) <= MaxBytes, NEW item \in Item, IsCleared(item),
           NEW x, IsBack(x, Room(q, item))
    PROVE  ~IsCleared(x)
<1> DEFINE base == ReplaceBack(q, item)
           D == Droppable(base)
<1>1. PayloadBytes(item) = 0
  BY DEF PayloadBytes
<1>2. ~Oversize(item)
  BY <1>1, QueueAssumption DEF Oversize
<1>3. /\ base \subseteq q /\ QueueUpTo(base, n) /\ NoAdjacent(base)
      /\ Counted(q, item) \subseteq base /\ QueueUpTo(Counted(q, item), n)
      /\ Room(q, item) \subseteq Counted(q, item)
  BY <1>2, RoomSteps
<1>4. \A z \in q : z.id \in Nat
  BY DEF QueueUpTo, Item
<1>5. x \in base
  BY <1>3 DEF IsBack
<1>6. PICK b \in base : IsBack(b, base)
  BY <1>3, <1>5, NewestItem DEF QueueUpTo, IsBack
<1>7. ~IsCleared(b)
  BY <1>6, ReplaceBackLeavesContent
<1>8. b \notin CountVictims(base)
  <2>1. SUFFICES ASSUME b \in CountVictims(base) PROVE FALSE
    OBVIOUS
  <2>2. Cardinality(Without(base, OlderThan(b, D))) >= Capacity
    BY <2>1 DEF CountVictims
  <2>3. IsFiniteSet(base) /\ IsFiniteSet(q) /\ Cardinality(base) \in Nat
    BY <1>3, FS_CardinalityType DEF QueueUpTo
  <2>4. Cardinality(base) <= Capacity
    BY <1>3, <2>3, FS_Subset, FS_CardinalityType, QueueAssumption
  <2>5. Without(base, OlderThan(b, D)) \subseteq base \ OlderThan(b, D)
    BY WithoutSubset
  <2>6. Cardinality(Without(base, OlderThan(b, D))) <= Cardinality(base)
    BY <2>3, <2>5, FS_Subset
  <2>7. IsFiniteSet(Without(base, OlderThan(b, D)))
    BY <2>3, <2>5, FS_Subset
  <2>8. Cardinality(Without(base, OlderThan(b, D))) \in Nat
    BY <2>7, FS_CardinalityType
  <2>9. /\ Cardinality(base) >= 3
        /\ Cardinality(Without(base, OlderThan(b, D))) = Cardinality(base)
    BY <2>2, <2>3, <2>4, <2>6, <2>8, QueueAssumption
  <2>10. PICK y \in base : y # b /\ ~IsCleared(y)
    BY <1>3, <1>6, <2>9, ContentBeforeBack
  <2>11. y.id < b.id
    <3>1. y.id # b.id
      BY <1>3, <2>10 DEF QueueUpTo
    <3>2. y.id <= b.id
      BY <1>6 DEF IsBack
    <3>3. QED
      BY <1>3, <1>4, <3>1, <3>2
  <2>12. y \in OlderThan(b, D)
    BY <2>10, <2>11 DEF OlderThan, Droppable, RetainOnFlood
  <2>13. Without(base, OlderThan(b, D)) = base
    BY <2>3, <2>5, <2>9, FS_Subset
  <2>14. QED
    BY <2>5, <2>12, <2>13
<1>9. b \in Counted(q, item)
  BY <1>7, <1>8, WithoutKeepsContent DEF Counted
<1>10. ByteVictims(Counted(q, item), item) = {}
  <2>1. ASSUME NEW s PROVE
          CountedNonOversizeBytes(Counted(q, item) \ s) + PayloadBytes(item) <= MaxBytes
    <3>1. Counted(q, item) \ s \in SUBSET q
      BY <1>3
    <3>2. /\ CountedNonOversizeBytes(Counted(q, item) \ s) <= CountedNonOversizeBytes(q)
          /\ CountedNonOversizeBytes(Counted(q, item) \ s) \in Nat
          /\ CountedNonOversizeBytes(q) \in Nat
      BY <3>1, CountedBytesMonotone
    <3>3. QED
      BY <1>1, <3>2, QueueAssumption
  <2>2. ASSUME NEW s PROVE
          ~ (CountedNonOversizeBytes(Counted(q, item) \ s) + PayloadBytes(item) > MaxBytes)
    <3>1. Counted(q, item) \ s \in SUBSET q
      BY <1>3
    <3>2. CountedNonOversizeBytes(Counted(q, item) \ s) \in Nat
      BY <3>1, CountedBytesMonotone
    <3>3. QED
      BY <1>1, <2>1, <3>2, QueueAssumption
  <2>3. QED
    BY <2>2 DEF ByteVictims
<1>11. Room(q, item) = Counted(q, item)
  BY <1>2, <1>10 DEF Room, Without, Counted
<1>12. x.id = b.id
  BY <1>3, <1>4, <1>5, <1>6, <1>9, <1>11 DEF IsBack
<1>13. x = b
  BY <1>3, <1>5, <1>12 DEF QueueUpTo
<1>14. QED
  BY <1>7, <1>13

----------------------------------------------------------------------------
(* enqueue().                                                              *)

\* Clears stay apart.
LEMMA EnqueueNoAdjacent ==
    ASSUME NEW q, NEW n, QueueUpTo(q, n), NoAdjacent(q), Cardinality(q) <= Capacity,
           CountedNonOversizeBytes(q) <= MaxBytes, NEW item \in Item, n < item.id
    PROVE  NoAdjacent(Enqueue(q, item))
<1> DEFINE room == Room(q, item)
<1>1. QueueUpTo(room, n) /\ NoAdjacent(room)
  BY RoomSteps
<1>2. \A z \in room \cup {item} : z.id \in Nat
  BY <1>1 DEF QueueUpTo, Item
<1>3. \A z \in room : z.id < item.id
  BY <1>1, <1>2 DEF QueueUpTo
<1>4. SUFFICES ASSUME NEW x \in room \cup {item}, NEW y \in room \cup {item},
                      Adjacent(x, y, room \cup {item})
               PROVE  ~ReplacesQueued(y, x)
  BY DEF NoAdjacent, Enqueue
<1>5. x \in room
  BY <1>2, <1>3, <1>4 DEF Adjacent
<1>6. CASE y = item
  <2>1. \A z \in room : z.id <= x.id
    BY <1>2, <1>3, <1>4, <1>6 DEF Adjacent
  <2>2. IsBack(x, room)
    BY <1>5, <2>1 DEF IsBack
  <2>3. QED
    BY <1>6, <2>2, ClearFindsContentAtBack DEF ReplacesQueued
<1>7. CASE y \in room
  <2>1. Adjacent(x, y, room)
    BY <1>4 DEF Adjacent
  <2>2. QED
    BY <1>1, <1>5, <1>7, <2>1 DEF NoAdjacent
<1>8. QED
  BY <1>6, <1>7

\* There are never more events than slots.
LEMMA EnqueueCount ==
    ASSUME NEW q, NEW n, QueueUpTo(q, n), NoAdjacent(q),
           Cardinality(q) <= Capacity, NEW item
    PROVE  Cardinality(Enqueue(q, item)) <= Capacity
<1>1. QueueUpTo(Room(q, item), n) /\ Cardinality(Room(q, item)) < Capacity
  BY RoomSteps, RoomHasSlot
<1>2. IsFiniteSet(Room(q, item)) /\ Cardinality(Room(q, item)) \in Nat
  BY <1>1, FS_CardinalityType DEF QueueUpTo
<1>3. Cardinality(Room(q, item) \cup {item}) <= Cardinality(Room(q, item)) + 1
  BY <1>2, FS_AddElement
<1>4. IsFiniteSet(Room(q, item) \cup {item})
  BY <1>2, FS_AddElement
<1>5. Cardinality(Room(q, item) \cup {item}) \in Nat
  BY <1>4, FS_CardinalityType
<1>6. QED
  BY <1>1, <1>2, <1>3, <1>5, QueueAssumption DEF Enqueue

\* Every clear that waited, or that arrives, waits or is stood in for.
LEMMA EnqueueStands ==
    ASSUME NEW q, NEW n, QueueUpTo(q, n), NoAdjacent(q), NEW item \in Item, n < item.id,
           NEW c \in q \cup {item}, IsCleared(c)
    PROVE  Stands(c, Enqueue(q, item))
<1> DEFINE base == ReplaceBack(q, item)
           room == Room(q, item)
           counted == Counted(q, item)
<1>1. /\ base \subseteq q /\ QueueUpTo(base, n) /\ room \subseteq base
      /\ QueueUpTo(room, n) /\ counted \subseteq base /\ QueueUpTo(counted, n)
  BY RoomSteps
<1>2. \A z \in q \cup {item} : z.id \in Nat
  BY DEF QueueUpTo, Item
<1>3. ASSUME NEW d \in base, IsCleared(d) PROVE Stands(d, room)
  <2>1. CASE Oversize(item)
    <3>1. room = Without(base, OversizeVictims(base))
      BY <2>1 DEF Room
    <3>2. OversizeVictims(base) \in SUBSET Droppable(base)
      BY DEF OversizeVictims
    <3>3. QED
      BY <1>1, <1>3, <3>1, <3>2, WithoutStands
  <2>2. CASE ~Oversize(item)
    <3>1. room = Without(counted, ByteVictims(counted, item))
      BY <2>2 DEF Room, Counted
    <3>2. ByteVictims(counted, item) \in SUBSET Droppable(counted)
      BY DEF ByteVictims
    <3>3. \A e \in counted : IsCleared(e) => Stands(e, room)
      BY <1>1, <3>1, <3>2, WithoutStands
    <3>4. CountVictims(base) \in SUBSET Droppable(base)
      BY DEF CountVictims
    <3>5. Stands(d, counted)
      BY <1>1, <1>3, <3>4, WithoutStands DEF Counted
    <3>6. room \in SUBSET counted /\ d \in Item
      BY <1>1, <2>2, RoomSteps DEF QueueUpTo
    <3>7. QED
      BY <1>1, <1>3, <3>3, <3>5, <3>6, StandsTransitive
  <2>3. QED
    BY <2>1, <2>2
<1>4. CASE c = item
  BY <1>4 DEF Stands, Enqueue
<1>5. CASE c \in base
  <2>1. Stands(c, room)
    BY <1>3, <1>5
  <2>2. ASSUME NEW d \in room, IsCleared(d), c.id < d.id,
               \A x \in room : ~ (c.id < x.id /\ x.id < d.id)
        PROVE  \A x \in room \cup {item} : ~ (c.id < x.id /\ x.id < d.id)
    <3>1. d.id <= n /\ n \in Nat
      BY <1>1, <2>2 DEF QueueUpTo
    <3>2. d.id \in Nat /\ item.id \in Nat
      BY <1>1, <1>2, <2>2
    <3>3. ~ (item.id < d.id)
      BY <3>1, <3>2
    <3>4. QED
      BY <2>2, <3>3
  <2>3. QED
    BY <2>1, <2>2 DEF Stands, Enqueue
<1>6. CASE c \in q \ base
  <2>1. IsBack(c, q) /\ IsCleared(item)
    BY <1>6 DEF ReplaceBack, ReplacesQueued
  <2>2. c.id < item.id
    BY <1>2, <1>6 DEF QueueUpTo
  <2>3. \A x \in room : ~ (c.id < x.id)
    BY <1>1, <1>2, <1>6, <2>1 DEF IsBack
  <2>4. ~ (item.id < item.id)
    BY <1>2
  <2>5. QED
    BY <2>1, <2>2, <2>3, <2>4 DEF Stands, Enqueue
<1>7. QED
  BY <1>4, <1>5, <1>6

\* What fits the byte budget stays inside it together.
LEMMA EnqueueBytes ==
    ASSUME NEW q, NEW n, QueueUpTo(q, n), NoAdjacent(q), NEW item \in Item, n < item.id
    PROVE  CountedNonOversizeBytes(Enqueue(q, item)) <= MaxBytes
<1> DEFINE room == Room(q, item)
           counted == Counted(q, item)
           small(s) == { x \in s : ~Oversize(x) }
<1>1. /\ QueueUpTo(room, n) /\ QueueUpTo(counted, n)
      /\ room \subseteq ReplaceBack(q, item)
  BY RoomSteps
<1>2. item \notin room
  BY <1>1 DEF QueueUpTo, Item
<1>3. CASE Oversize(item)
  <2>1. room = Without(ReplaceBack(q, item), OversizeVictims(ReplaceBack(q, item)))
    BY <1>3 DEF Room
  <2>2. \A x \in room : IsCleared(x)
    BY <1>1, <2>1, WithoutSubset DEF OversizeVictims, Droppable, RetainOnFlood
  <2>3. small(Enqueue(q, item)) = small(room)
    BY <1>3 DEF Enqueue
  <2>4. \A x \in small(room) : IsCleared(x)
    BY <2>2
  <2>5. Bytes(small(room)) = 0
    BY <2>4, BytesOfClears
  <2>6. QED
    BY <2>3, <2>5, QueueAssumption DEF CountedNonOversizeBytes
<1>4. CASE ~Oversize(item)
  <2>1. room = Without(counted, ByteVictims(counted, item))
    BY <1>4 DEF Room, Counted
  <2>2. small(Enqueue(q, item)) = small(room) \cup {item}
    BY <1>4 DEF Enqueue
  <2>3. small(room) \in SUBSET Item /\ IsFiniteSet(small(room)) /\ item \notin small(room)
    BY <1>1, <1>2, FS_Subset DEF QueueUpTo
  <2>4. CountedNonOversizeBytes(Enqueue(q, item))
          = CountedNonOversizeBytes(room) + PayloadBytes(item)
    BY <2>2, <2>3, BytesAdd DEF CountedNonOversizeBytes
  <2>5. PayloadBytes(item) \in Nat /\ PayloadBytes(item) <= MaxBytes
    BY <1>4, PayloadType, QueueAssumption DEF Oversize
  <2> DEFINE S == { x \in Droppable(counted) : ~Oversize(x) }
             W == S \ ByteVictims(counted, item)
  <2>6. CASE W = {}
    <3>1. \A x \in room : x \in counted /\ x \notin ByteVictims(counted, item)
      BY <2>1, WithoutSubset
    <3>2. \A x \in small(room) : IsCleared(x)
      BY <2>6, <3>1 DEF Droppable, RetainOnFlood
    <3>3. CountedNonOversizeBytes(room) = 0
      BY <3>2, BytesOfClears DEF CountedNonOversizeBytes
    <3>4. QED
      BY <2>4, <2>5, <3>3
  <2>7. CASE W # {}
    <3>1. W \in SUBSET Item
      BY <1>1 DEF Droppable, QueueUpTo
    <3>2. PICK w \in W : \A y \in W : w.id <= y.id
      BY <2>7, <3>1, OldestItem
    <3>3. \A z \in counted : z.id \in Nat
      BY <1>1 DEF QueueUpTo, Item
    <3>4. OlderThan(w, S) \subseteq ByteVictims(counted, item)
      BY <3>2, <3>3 DEF OlderThan, Droppable
    <3>5. ~ (CountedNonOversizeBytes(counted \ OlderThan(w, S)) + PayloadBytes(item) > MaxBytes)
      BY <3>2 DEF ByteVictims
    <3>6. room \in SUBSET (counted \ OlderThan(w, S))
      BY <2>1, <3>4, WithoutSubset
    <3>7. QueueUpTo(counted \ OlderThan(w, S), n)
      <4>1. (counted \ OlderThan(w, S)) \in SUBSET counted
        OBVIOUS
      <4>2. QED
        BY <1>1, <4>1, SubQueue
    <3>8. /\ CountedNonOversizeBytes(room)
                <= CountedNonOversizeBytes(counted \ OlderThan(w, S))
          /\ CountedNonOversizeBytes(room) \in Nat
          /\ CountedNonOversizeBytes(counted \ OlderThan(w, S)) \in Nat
      BY <3>6, <3>7, CountedBytesMonotone
    <3>9. QED
      BY <2>4, <2>5, <3>5, <3>8, QueueAssumption
  <2>8. QED
    BY <2>6, <2>7
<1>5. QED
  BY <1>3, <1>4

\* At most one oversize capture waits.
LEMMA EnqueueOneOversize ==
    ASSUME NEW q, NEW n, QueueUpTo(q, n), NoAdjacent(q), NEW item,
           \A x, y \in q : Oversize(x) /\ Oversize(y) => x = y
    PROVE  \A x, y \in Enqueue(q, item) : Oversize(x) /\ Oversize(y) => x = y
<1>1. Room(q, item) \subseteq q
  BY RoomSteps
<1>2. CASE ~Oversize(item)
  BY <1>1, <1>2 DEF Enqueue
<1>3. CASE Oversize(item)
  <2>1. Room(q, item) = Without(ReplaceBack(q, item), OversizeVictims(ReplaceBack(q, item)))
    BY <1>3 DEF Room
  <2>2. Room(q, item) \subseteq ReplaceBack(q, item)
    BY RoomSteps
  <2>3. \A x \in Room(q, item) : IsCleared(x)
    BY <2>1, <2>2, WithoutSubset DEF OversizeVictims, Droppable, RetainOnFlood
  <2>4. \A x \in Room(q, item) : ~Oversize(x)
    BY <2>3, QueueAssumption DEF Oversize, PayloadBytes
  <2>5. QED
    BY <2>4 DEF Enqueue
<1>4. QED
  BY <1>2, <1>3

\* Content is lost only when one of the budgets is exceeded.
LEMMA NothingLostWithoutPressure ==
    ASSUME NEW q, NEW n, QueueUpTo(q, n), NoAdjacent(q), NEW item \in Item,
           ~Oversize(item), Cardinality(q) < Capacity,
           CountedNonOversizeBytes(q) + PayloadBytes(item) <= MaxBytes
    PROVE  Droppable(q) \subseteq Enqueue(q, item)
<1> DEFINE base == ReplaceBack(q, item)
           counted == Counted(q, item)
<1>1. /\ base \subseteq q /\ QueueUpTo(base, n)
      /\ counted \subseteq base /\ QueueUpTo(counted, n)
  BY RoomSteps
<1>2. CountVictims(base) = {}
  <2>1. ASSUME NEW s PROVE ~ (Cardinality(Without(base, s)) >= Capacity)
    <3>1. Without(base, s) \in SUBSET q /\ IsFiniteSet(q)
      BY <1>1, WithoutSubset DEF QueueUpTo
    <3>2. /\ Cardinality(Without(base, s)) <= Cardinality(q)
          /\ Cardinality(Without(base, s)) \in Nat /\ Cardinality(q) \in Nat
      BY <3>1, FS_Subset, FS_CardinalityType
    <3>3. QED
      BY <3>2, QueueAssumption
  <2>2. QED
    BY <2>1 DEF CountVictims
<1>3. ByteVictims(counted, item) = {}
  <2>1. ASSUME NEW s PROVE
          ~ (CountedNonOversizeBytes(counted \ s) + PayloadBytes(item) > MaxBytes)
    <3>1. counted \ s \in SUBSET q
      BY <1>1
    <3>2. /\ CountedNonOversizeBytes(counted \ s) <= CountedNonOversizeBytes(q)
          /\ CountedNonOversizeBytes(counted \ s) \in Nat
          /\ CountedNonOversizeBytes(q) \in Nat
      BY <3>1, CountedBytesMonotone
    <3>3. PayloadBytes(item) \in Nat
      BY PayloadType
    <3>4. QED
      BY <3>2, <3>3, QueueAssumption
  <2>2. QED
    BY <2>1 DEF ByteVictims
<1>4. Room(q, item) = base
  BY <1>2, <1>3 DEF Room, Without, Counted
<1>5. Droppable(q) \subseteq base
  BY DEF Droppable, ReplaceBack, RetainOnFlood, ReplacesQueued
<1>6. QED
  BY <1>4, <1>5 DEF Enqueue

----------------------------------------------------------------------------
(* The channel.                                                            *)

\* How many events have been sent is also the last arrival number.
History ==
    /\ QueueUpTo(sent, Cardinality(sent))
    /\ sent \subseteq AllEvents
    /\ queue \subseteq sent
    /\ delivered \subseteq sent

Counters ==
    /\ receiverGone \in BOOLEAN /\ sendersGone \in BOOLEAN /\ permit \in BOOLEAN
    /\ senderPc \in {"idle", "notify", "closing", "gone"}
    /\ receiverPc \in {"check", "wait", "busy", "done", "gone"}

(***************************************************************************)
(* The inductive invariant: what the queue lemmas need to know about the   *)
(* queue, that deliveries are older than what waits (a clear that was      *)
(* delivered, or evicted behind one, cannot be overtaken), and the claims. *)
(***************************************************************************)
IInv ==
    /\ History
    /\ Counters
    /\ CountBounded
    /\ BytesBounded
    /\ NoAdjacentClears
    /\ BytesExact
    /\ Fifo
    /\ ClearNotLost

----------------------------------------------------------------------------

\* What a sender may send is a queue item.
LEMMA EventsAreItems == AllEvents \subseteq Item
<1>1. ASSUME NEW id \in 1 .. MaxSends, NEW e \in Events(id) PROVE e \in Item
  BY ChannelAssumption DEF Events, Item
<1>2. QED
  BY <1>1 DEF AllEvents

\* What the lemmas about the queue need to know of a reachable one.
LEMMA QueueFacts ==
    ASSUME IInv
    PROVE  /\ QueueUpTo(queue, Cardinality(sent))
           /\ NoAdjacent(queue)
           /\ IsFiniteSet(queue) /\ queue \in SUBSET Item
           /\ IsFiniteSet(sent) /\ Cardinality(sent) \in Nat
           /\ \A x \in sent : x \in Item /\ x.id \in Nat
<1>1. QueueUpTo(queue, Cardinality(sent))
  BY SubQueue DEF IInv, History
<1>2. NoAdjacent(queue)
  BY DEF IInv, NoAdjacentClears, NoAdjacent
<1>3. QED
  BY <1>1, <1>2 DEF IInv, History, QueueUpTo, Item

\* A clear stands among what is kept exactly as ClearNotLost says.
LEMMA ClearNotLostStands ==
    ClearNotLost <=>
        \A c \in { x \in sent : IsCleared(x) } : Stands(c, queue \cup delivered)
BY DEF ClearNotLost, Stands

\* The channel starts out in the invariant.
LEMMA InitInv == Init => IInv
<1> SUFFICES ASSUME Init PROVE IInv
  OBVIOUS
<1> USE DEF Init
<1>1. Cardinality({}) = 0 /\ IsFiniteSet({})
  BY FS_EmptySet
<1>2. History
  BY <1>1 DEF History, QueueUpTo
<1>3. Counters
  BY DEF Counters
<1>4. Bytes({}) = 0
  BY BytesOfClears
<1>5. { x \in queue : ~Oversize(x) } = {}
  OBVIOUS
<1>6. CountBounded /\ BytesBounded /\ BytesExact
  BY <1>1, <1>4, <1>5, QueueAssumption
  DEF CountBounded, BytesBounded, BytesExact, CountedNonOversizeBytes
<1>7. NoAdjacentClears /\ Fifo /\ ClearNotLost
  BY DEF NoAdjacentClears, Fifo, ClearNotLost
<1>8. QED
  BY <1>2, <1>3, <1>6, <1>7 DEF IInv

\* Sending.
LEMMA PushInv ==
    ASSUME IInv, NEW item \in AllEvents, Push(item)
    PROVE  IInv'
<1> DEFINE n == Cardinality(sent)
           room == Room(queue, item)
<1>1. /\ QueueUpTo(queue, n) /\ NoAdjacent(queue)
      /\ IsFiniteSet(queue) /\ queue \in SUBSET Item
      /\ IsFiniteSet(sent) /\ n \in Nat
      /\ \A x \in sent : x \in Item /\ x.id \in Nat
  BY QueueFacts
<1>2. item \in Item /\ item.id = n + 1 /\ n < item.id
  BY <1>1, EventsAreItems DEF Push
<1>3. item \notin sent
  BY <1>1, <1>2 DEF IInv, History, QueueUpTo
<1>4. room \subseteq queue
  BY <1>1, RoomSteps
<1>5. sent' = sent \cup {item} /\ Cardinality(sent') = n + 1 /\ IsFiniteSet(sent')
  BY <1>1, <1>3, FS_AddElement DEF Push
<1>6. queue' = room \cup {item} /\ delivered' = delivered
  BY DEF Push, Enqueue
<1>7. History'
  <2>1. QueueUpTo(sent', n + 1)
    BY <1>1, <1>2, <1>5 DEF IInv, History, QueueUpTo
  <2>2. QED
    BY <1>4, <1>5, <1>6, <2>1 DEF IInv, History
<1>8. Counters'
  BY DEF IInv, Counters, Push
<1>9. CountBounded'
  BY <1>1, EnqueueCount DEF IInv, CountBounded, Push
<1>10. BytesBounded'
  <2>1. CountedNonOversizeBytes(queue') <= MaxBytes
    BY <1>1, <1>2, EnqueueBytes DEF Push
  <2>2. \A x, y \in queue' : Oversize(x) /\ Oversize(y) => x = y
    BY <1>1, EnqueueOneOversize DEF Push, IInv, BytesBounded
  <2>3. QED
    BY <2>1, <2>2 DEF BytesBounded
<1>11. NoAdjacentClears'
  <2>1. NoAdjacent(queue')
    BY <1>1, <1>2, EnqueueNoAdjacent DEF Push, IInv, CountBounded, BytesBounded
  <2>2. QED
    BY <2>1 DEF NoAdjacentClears, NoAdjacent
<1>12. BytesExact'
  <2>1. /\ Bytes(queue) = Bytes(room) + Bytes(queue \ room)
        /\ Bytes(room) \in Nat /\ Bytes(queue \ room) \in Nat
    BY <1>1, <1>4, BytesSplit
  <2>2. SaturatingSub(queuedBytes, Bytes(queue \ room)) = Bytes(room)
    BY <2>1 DEF SaturatingSub, IInv, BytesExact
  <2>3. room \in SUBSET Item /\ IsFiniteSet(room) /\ item \notin room
    BY <1>1, <1>3, <1>4, FS_Subset DEF IInv, History
  <2>4. Bytes(room \cup {item}) = Bytes(room) + PayloadBytes(item)
    BY <1>2, <2>3, BytesAdd
  <2>5. QED
    BY <1>6, <2>2, <2>4 DEF BytesExact, Push
<1>13. Fifo'
  BY <1>1, <1>2, <1>4, <1>6 DEF IInv, Fifo, History, QueueUpTo
<1>14. ClearNotLost'
  <2> DEFINE kept == queue \cup delivered
             keptP == Enqueue(queue, item) \cup delivered
  <2>1. kept \subseteq sent /\ queue' \cup delivered' = keptP
    BY <1>6 DEF IInv, History, Push
  <2>2. \A x \in sent : x.id < item.id
    BY <1>1, <1>2 DEF IInv, History, QueueUpTo
  <2>3. ASSUME NEW d \in kept \cup {item}, IsCleared(d) PROVE Stands(d, keptP)
    <3>1. CASE d \in delivered \/ d = item
      BY <3>1 DEF Stands, Enqueue
    <3>2. CASE d \in queue
      <4>1. Stands(d, Enqueue(queue, item))
        BY <1>1, <1>2, <2>3, <3>2, EnqueueStands
      <4>2. \A x \in delivered : ~ (d.id < x.id)
        BY <1>1, <3>2 DEF IInv, Fifo, History
      <4>3. QED
        BY <4>1, <4>2 DEF Stands
    <3>3. QED
      BY <2>3, <3>1, <3>2
  <2>4. ASSUME NEW c \in sent, IsCleared(c) PROVE Stands(c, kept \cup {item})
    <3>1. Stands(c, kept)
      BY <2>4, ClearNotLostStands DEF IInv
    <3>2. \A d \in kept : ~ (item.id < d.id)
      BY <1>1, <1>2, <2>1, <2>2
    <3>3. QED
      BY <3>1, <3>2 DEF Stands
  <2>5. QueueUpTo(kept \cup {item}, n + 1)
    <3>1. kept \cup {item} \subseteq sent'
      BY <1>5, <2>1
    <3>2. QueueUpTo(sent', n + 1)
      BY <1>5, <1>7 DEF History
    <3>3. QED
      BY <3>1, <3>2, SubQueue
  <2>6. keptP \in SUBSET (kept \cup {item})
    BY <1>4 DEF Enqueue
  <2>7. ASSUME NEW c \in sent, IsCleared(c) PROVE Stands(c, keptP)
    BY <1>1, <2>3, <2>4, <2>5, <2>6, <2>7, StandsTransitive
  <2>8. ASSUME NEW c \in sent', IsCleared(c) PROVE Stands(c, queue' \cup delivered')
    BY <1>5, <2>1, <2>3, <2>7, <2>8
  <2>9. QED
    BY <2>8 DEF ClearNotLost, Stands
<1>15. QED
  BY <1>7, <1>8, <1>9, <1>10, <1>11, <1>12, <1>13, <1>14 DEF IInv

\* Receiving.
LEMMA PopInv ==
    ASSUME IInv, Pop
    PROVE  IInv'
<1> DEFINE n == Cardinality(sent)
           f == Front(queue)
<1>1. /\ QueueUpTo(queue, n) /\ NoAdjacent(queue)
      /\ IsFiniteSet(queue) /\ queue \in SUBSET Item
      /\ IsFiniteSet(sent) /\ n \in Nat
      /\ \A x \in sent : x \in Item /\ x.id \in Nat
  BY QueueFacts
<1>2. queue \subseteq sent
  BY DEF IInv, History
<1>3. IsFront(f, queue)
  <2>1. queue # {}
    BY DEF Pop
  <2>2. PICK x \in queue : \A y \in queue : x.id <= y.id
    BY <1>1, <2>1, OldestItem
  <2>3. IsFront(x, queue)
    BY <1>1, <1>2, <2>2 DEF IsFront, OlderThan
  <2>4. QED
    BY <2>3 DEF Front
<1>4. f \in queue /\ \A y \in queue \ {f} : f.id < y.id
  <2>1. f \in queue /\ \A y \in queue : ~ (y.id < f.id)
    BY <1>3 DEF IsFront, OlderThan
  <2>2. \A y \in queue : y.id = f.id => y = f
    BY <1>1, <2>1 DEF QueueUpTo
  <2>3. QED
    BY <1>1, <1>2, <2>1, <2>2
<1>5. queue' = queue \ {f} /\ delivered' = delivered \cup {f} /\ sent' = sent
  BY DEF Pop, Dequeue
<1>6. History'
  BY <1>4, <1>5 DEF IInv, History
<1>7. Counters'
  BY DEF IInv, Counters, Pop
<1>8. CountBounded'
  <2>1. /\ Cardinality(queue') <= Cardinality(queue)
        /\ Cardinality(queue) \in Nat
    BY <1>1, <1>5, FS_Subset, FS_CardinalityType
  <2>2. IsFiniteSet(queue')
    BY <1>1, <1>5, FS_Subset
  <2>3. Cardinality(queue') \in Nat
    BY <2>2, FS_CardinalityType
  <2>4. QED
    BY <2>1, <2>3, QueueAssumption DEF IInv, CountBounded
<1>9. BytesBounded'
  <2>1. queue' \in SUBSET queue
    BY <1>5
  <2>2. /\ CountedNonOversizeBytes(queue') <= CountedNonOversizeBytes(queue)
        /\ CountedNonOversizeBytes(queue') \in Nat
        /\ CountedNonOversizeBytes(queue) \in Nat
    BY <1>1, <2>1, CountedBytesMonotone
  <2>3. QED
    BY <2>1, <2>2, QueueAssumption DEF IInv, BytesBounded
<1>10. NoAdjacentClears'
  <2>1. ASSUME NEW x \in queue', NEW y \in queue', Adjacent(x, y, queue')
        PROVE  ~ReplacesQueued(y, x)
    <3>1. Adjacent(x, y, queue)
      BY <1>1, <1>2, <1>4, <1>5, <2>1 DEF Adjacent
    <3>2. QED
      BY <1>1, <1>5, <3>1 DEF NoAdjacent
  <2>2. QED
    BY <2>1 DEF NoAdjacentClears
<1>11. BytesExact'
  <2>1. {f} \in SUBSET queue /\ f \in Item
    BY <1>1, <1>4
  <2>2. /\ Bytes(queue) = Bytes({f}) + Bytes(queue \ {f})
        /\ Bytes({f}) \in Nat /\ Bytes(queue \ {f}) \in Nat
    BY <1>1, <2>1, BytesSplit
  <2>3. Bytes({f}) = PayloadBytes(f)
    BY <2>1, BytesOfOne
  <2>4. QED
    BY <1>5, <2>2, <2>3 DEF IInv, BytesExact, SaturatingSub, Pop
<1>12. Fifo'
  BY <1>4, <1>5 DEF IInv, Fifo
<1>13. ClearNotLost'
  <2>1. queue' \cup delivered' = queue \cup delivered
    BY <1>4, <1>5
  <2>2. QED
    BY <1>5, <2>1 DEF IInv, ClearNotLost
<1>14. QED
  BY <1>6, <1>7, <1>8, <1>9, <1>10, <1>11, <1>12, <1>13 DEF IInv

\* The steps that only move a program counter, the permit or a closing flag.
LEMMA ControlInv ==
    ASSUME IInv,
           \/ NotifyReceiver \/ CloseSender \/ EndOfStream \/ Sleep
           \/ Wake \/ Handled \/ DropReceiver \/ UNCHANGED vars
    PROVE  IInv'
<1>1. UNCHANGED <<queue, queuedBytes, sent, delivered>>
  BY DEF NotifyReceiver, CloseSender, EndOfStream, Sleep, Wake, Handled,
         DropReceiver, vars
<1>2. Counters'
  BY DEF IInv, Counters, NotifyReceiver, CloseSender, EndOfStream, Sleep, Wake,
         Handled, DropReceiver, vars
<1>3. /\ History' /\ CountBounded' /\ BytesBounded' /\ NoAdjacentClears'
      /\ BytesExact' /\ Fifo' /\ ClearNotLost'
  BY <1>1 DEF IInv, History, CountBounded, BytesBounded, NoAdjacentClears,
              BytesExact, Fifo, ClearNotLost
<1>4. QED
  BY <1>2, <1>3 DEF IInv

\* Every reachable state of the channel satisfies the inductive invariant.
THEOREM Invariance == Spec => []IInv
<1>1. Init => IInv
  BY InitInv
<1>2. IInv /\ [Next]_vars => IInv'
  BY PushInv, PopInv, ControlInv DEF Next, SendSome, Receive
<1>3. QED
  BY <1>1, <1>2, PTL DEF Spec

----------------------------------------------------------------------------
(* The results.                                                            *)

\* Every variable keeps its type.
THEOREM TypeCorrect == Spec => []TypeOK
<1>1. IInv => TypeOK
  <2> SUFFICES ASSUME IInv PROVE TypeOK
    OBVIOUS
  <2>1. Bytes(queue) \in Nat
    BY QueueFacts, CellsFinite
  <2>2. QED
    BY <2>1 DEF IInv, History, Counters, BytesExact, TypeOK
<1>2. QED
  BY <1>1, Invariance, PTL

\* Never more events wait than there are slots.
THEOREM NeverOverCapacity == Spec => []CountBounded
<1>1. IInv => CountBounded
  BY DEF IInv
<1>2. QED
  BY <1>1, Invariance, PTL

\* The queued bytes stay inside the budget, but for one oversize capture.
THEOREM NeverOverBudget == Spec => []BytesBounded
<1>1. IInv => BytesBounded
  BY DEF IInv
<1>2. QED
  BY <1>1, Invariance, PTL

\* The queue is bounded, in events and in bytes.
THEOREM AlwaysBounded == Spec => []Bounded
BY NeverOverCapacity, NeverOverBudget, PTL DEF Bounded

\* Inner.bytes is what waits.
THEOREM ByteCounterExact == Spec => []BytesExact
<1>1. IInv => BytesExact
  BY DEF IInv
<1>2. QED
  BY <1>1, Invariance, PTL

\* Two clears never wait side by side.
THEOREM ClearsCoalesced == Spec => []NoAdjacentClears
<1>1. IInv => NoAdjacentClears
  BY DEF IInv
<1>2. QED
  BY <1>1, Invariance, PTL

\* No flood makes the consumer miss a clear of the content it saw last.
THEOREM ClearsSurvive == Spec => []ClearNotLost
<1>1. IInv => ClearNotLost
  BY DEF IInv
<1>2. QED
  BY <1>1, Invariance, PTL

\* Delivery follows capture order.
THEOREM InOrder == Spec => []Fifo
<1>1. IInv => Fifo
  BY DEF IInv
<1>2. QED
  BY <1>1, Invariance, PTL

\* A send drops a waiting capture only when a budget is exceeded.
THEOREM OnlyUnderPressure == Spec => EvictsOnlyUnderPressure
<1> DEFINE Pressure ==
      \A item \in sent' \ sent :
         (\E x \in Droppable(queue) : x \notin queue')
             => \/ Oversize(item)
                \/ Cardinality(queue) >= Capacity
                \/ CountedNonOversizeBytes(queue) + PayloadBytes(item) > MaxBytes
<1>1. IInv /\ [Next]_vars => [Pressure]_vars
  <2> SUFFICES ASSUME IInv, Next PROVE Pressure
    OBVIOUS
  <2>1. ASSUME NEW item \in AllEvents, Push(item) PROVE Pressure
    <3> SUFFICES ASSUME NEW i \in sent' \ sent, ~Oversize(i),
                        ~ (Cardinality(queue) >= Capacity),
                        ~ (CountedNonOversizeBytes(queue) + PayloadBytes(i) > MaxBytes)
                 PROVE  Droppable(queue) \subseteq queue'
      OBVIOUS
    <3>1. i = item /\ item \in Item
      BY <2>1, EventsAreItems DEF Push
    <3>2. /\ QueueUpTo(queue, Cardinality(sent)) /\ NoAdjacent(queue)
          /\ IsFiniteSet(queue)
      BY QueueFacts
    <3>3. /\ Cardinality(queue) \in Nat /\ CountedNonOversizeBytes(queue) \in Nat
          /\ PayloadBytes(item) \in Nat
      BY <3>1, <3>2, FS_CardinalityType, CountedBytesMonotone, PayloadType
    <3>4. /\ Cardinality(queue) < Capacity
          /\ CountedNonOversizeBytes(queue) + PayloadBytes(item) <= MaxBytes
      BY <3>1, <3>3, QueueAssumption
    <3>5. QED
      BY <2>1, <3>1, <3>2, <3>4, NothingLostWithoutPressure DEF Push
  <2>2. CASE ~ \E item \in AllEvents : Push(item)
    <3>1. sent' = sent
      BY <2>2 DEF Next, SendSome, Receive, NotifyReceiver, CloseSender, Pop,
                  EndOfStream, Sleep, Wake, Handled, DropReceiver
    <3>2. QED
      BY <3>1
  <2>3. QED
    BY <2>1, <2>2
<1>2. QED
  BY <1>1, Invariance, PTL DEF Spec, EvictsOnlyUnderPressure

----------------------------------------------------------------------------
(* The ignore marker (SelfPasteIgnore).                                    *)

AtMostOne(S) == \A x, y \in S : x = y

\* The marker is that of the last paste: an older one cannot come back.
MarkerIsLast ==
    /\ generation \in 0 .. MaxPastes
    /\ marker \subseteq Markers /\ AtMostOne(marker)
    /\ \A m \in marker : m.generation = generation

Fresh == \E m \in marker : m.fresh

\* What is known of a snapshot on its way: its binding was fresh when it was read, or
\* set since.
OnItsWay(s) ==
    /\ s.id \in Nat /\ s.hash \in Hashes
    /\ s.since \in Nat /\ s.since <= generation + 1
    /\ Fresh => s.since <= generation
    /\ s.bound \subseteq Bindings /\ AtMostOne(s.bound)
    /\ \A b \in s.bound : s.since <= b.generation /\ b.generation <= generation

AllOnTheirWay == \A s \in reading \cup sending \cup snapshots \cup taken : OnItsWay(s)

\* Snapshots are read, queued, taken and stored in the order of their sequence numbers.
InTurn ==
    /\ clipboard.seq \in Nat /\ clipboard.hash \in Hashes
    /\ handled \in Nat /\ handled <= clipboard.seq
    /\ pasting \subseteq Bindings
    /\ AtMostOne(reading) /\ AtMostOne(sending) /\ AtMostOne(taken)
    /\ reading = {} \/ sending = {}
    /\ \A s \in reading \cup sending \cup snapshots \cup taken \cup stored :
          s.id \in Nat /\ s.id <= handled
    /\ \A s, t \in snapshots : s.id = t.id => s = t
    /\ \A s \in snapshots \cup taken \cup stored, r \in reading \cup sending : s.id < r.id
    /\ \A s \in taken \cup stored, r \in snapshots : s.id < r.id
    /\ \A s \in stored, r \in taken : s.id < r.id

\* What was used up is known, and is not live.
SpentIsKnown ==
    /\ consumed \in Nat /\ consumed <= generation
    /\ \A m \in marker : m.generation # consumed
    /\ \A e \in spends : e.generation \in Nat /\ e.generation <= generation

IgnoreInv ==
    /\ MarkerIsLast /\ AllOnTheirWay /\ InTurn /\ SpentIsKnown
    /\ SpentMarkerNotLive /\ StaleNeverSwallows

----------------------------------------------------------------------------

\* The last element of a set of snapshots whose numbers have a bound.
LEMMA LastOne ==
    ASSUME NEW S, S # {}, NEW n \in Nat, \A s \in S : s.id \in Nat /\ s.id <= n
    PROVE  \E s \in S : IsBack(s, S)
<1> DEFINE Gaps == { n - s.id : s \in S }
<1>1. Gaps \in SUBSET Nat /\ Gaps # {}
  OBVIOUS
<1>2. PICK m \in Gaps : \A k \in Gaps : m <= k
  BY <1>1, LeastElement
<1>3. PICK s \in S : m = n - s.id
  BY <1>2
<1>4. ASSUME NEW t \in S PROVE t.id <= s.id
  <2>1. n - t.id \in Gaps
    BY <1>4
  <2>2. n - s.id <= n - t.id
    BY <1>2, <1>3, <2>1
  <2>3. n - s.id \in Int /\ s.id \in Nat /\ t.id \in Nat
    BY <1>4
  <2> QED
    BY <2>2, <2>3
<1> QED
  BY <1>3, <1>4 DEF IsBack

\* And the first.
LEMMA FirstOne ==
    ASSUME NEW S, S # {}, \A s \in S : s.id \in Nat
    PROVE  \E s \in S : \A t \in S : s.id <= t.id
<1> DEFINE Ids == { s.id : s \in S }
<1>1. Ids \in SUBSET Nat /\ Ids # {}
  OBVIOUS
<1>2. PICK m \in Ids : \A k \in Ids : m <= k
  BY <1>1, LeastElement
<1> QED
  BY <1>2

\* A snapshot spends at most one generation, one it was bound to.
LEMMA OwnOne ==
    ASSUME NEW s, OnItsWay(s)
    PROVE  /\ \A g \in OwnGenerations(s) :
                 g \in Generations /\ s.since <= g /\ g <= generation
           /\ AtMostOne(OwnGenerations(s))
BY DEF OnItsWay, OwnGenerations, AtMostOne, Bindings

\* What a send leaves of the queue, and what it evicts, was in it.
LEMMA SendOnlyDrops ==
    ASSUME NEW q, NEW item
    PROVE  Room(q, item) \subseteq q /\ Evicted(q, item) \subseteq q
<1> DEFINE base == ReplaceBack(q, item)
<1>1. base \subseteq q
  BY DEF ReplaceBack
<1>2. \A c, v : Without(c, v) \subseteq c
  BY DEF Without, CoalesceAdjacentReplacements
<1>3. Room(q, item) \subseteq q
  BY <1>1, <1>2 DEF Room
<1>4. /\ OversizeVictims(base) \subseteq base /\ CountVictims(base) \subseteq base
      /\ \A c : ByteVictims(c, item) \subseteq c
  BY DEF OversizeVictims, CountVictims, ByteVictims, Droppable
<1>5. Evicted(q, item) \subseteq q
  BY <1>1, <1>2, <1>4 DEF Evicted
<1> QED
  BY <1>3, <1>5

\* Eviction leaves as the last generation spent the one it was, or one it releases.
LEMMA LastSpentIsSpent ==
    ASSUME IgnoreInv, NEW evicted \in SUBSET snapshots
    PROVE  LET spent == UNION { OwnGenerations(s) : s \in Released(evicted) }
           IN  LastSpent(BoundEchoes(evicted)) \in {consumed} \cup spent
<1> DEFINE echoes == BoundEchoes(evicted)
           spent == UNION { OwnGenerations(s) : s \in Released(evicted) }
           known == {consumed} \cup spent
<1>1. /\ echoes \subseteq snapshots
      /\ \A s \in echoes : /\ s.id \in Nat /\ s.id <= handled
                           /\ OwnGenerations(s) # {} /\ OnItsWay(s)
      /\ handled \in Nat
  BY DEF BoundEchoes, IgnoreInv, InTurn, AllOnTheirWay
<1>2. ASSUME NEW S \in SUBSET echoes, S # {}
      PROVE  \E s \in S : IsBack(s, S) /\ LastSpent(S) \in OwnGenerations(s)
  <2>1. PICK s \in S : IsBack(s, S)
    BY <1>1, <1>2, LastOne
  <2>2. \A t \in S : IsBack(t, S) => t = s
    BY <1>1, <2>1 DEF IsBack, IgnoreInv, InTurn
  <2>3. \E g \in Generations : \E t \in S : IsBack(t, S) /\ g \in OwnGenerations(t)
    BY <1>1, <2>1, OwnOne
  <2>4. \E t \in S : IsBack(t, S) /\ LastSpent(S) \in OwnGenerations(t)
    BY <1>2, <2>3 DEF LastSpent
  <2> QED
    BY <2>4
<1>3. \A s \in echoes : OwnGenerations(s) \subseteq known
  <2> DEFINE bad == { s \in echoes : ~(OwnGenerations(s) \subseteq known) }
  <2>1. SUFFICES ASSUME bad # {} PROVE FALSE
    OBVIOUS
  <2>2. PICK s \in bad : \A t \in bad : s.id <= t.id
    BY <1>1, <2>1, FirstOne
  <2>3. s \in echoes /\ s \notin Released(evicted)
    BY <2>2
  <2>4. LastSpent(OlderThan(s, echoes)) \in OwnGenerations(s)
    BY <2>3 DEF Released
  <2>5. LastSpent(OlderThan(s, echoes)) \in known
    <3>1. CASE OlderThan(s, echoes) = {}
      BY <3>1 DEF LastSpent
    <3>2. CASE OlderThan(s, echoes) # {}
      <4>1. OlderThan(s, echoes) \in SUBSET echoes
        BY DEF OlderThan
      <4>2. PICK t \in OlderThan(s, echoes) :
               LastSpent(OlderThan(s, echoes)) \in OwnGenerations(t)
        BY <1>2, <3>2, <4>1
      <4>3. t \in echoes /\ t \notin bad
        BY <1>1, <2>2, <4>1, <4>2 DEF OlderThan
      <4> QED
        BY <4>2, <4>3
    <3> QED
      BY <3>1, <3>2
  <2>6. OwnGenerations(s) \subseteq known
    BY <1>1, <2>3, <2>4, <2>5, OwnOne DEF AtMostOne
  <2> QED
    BY <2>2, <2>6
<1>4. CASE echoes = {}
  BY <1>4 DEF LastSpent
<1>5. CASE echoes # {}
  BY <1>2, <1>3, <1>5
<1> QED
  BY <1>4, <1>5

----------------------------------------------------------------------------
(* The invariant.                                                          *)

\* The inductive invariant holds at first.
LEMMA IgnoreStarts == IgnoreInit => IgnoreInv
<1> SUFFICES ASSUME IgnoreInit PROVE IgnoreInv
  OBVIOUS
<1> USE IgnoreAssumption DEF IgnoreInit
<1>1. MarkerIsLast
  BY DEF MarkerIsLast, AtMostOne
<1>2. AllOnTheirWay
  BY DEF AllOnTheirWay
<1>3. InTurn
  BY DEF InTurn, AtMostOne
<1>4. SpentIsKnown /\ SpentMarkerNotLive /\ StaleNeverSwallows
  BY DEF SpentIsKnown, NoGeneration, SpentMarkerNotLive, StaleNeverSwallows
<1> QED
  BY <1>1, <1>2, <1>3, <1>4 DEF IgnoreInv

\* Another application copies.
LEMMA UserCopiesInv == ASSUME IgnoreInv, NEW h \in Hashes, UserCopies(h) PROVE IgnoreInv'
<1> USE DEF UserCopies
<1>1. MarkerIsLast'
  BY DEF IgnoreInv, MarkerIsLast
<1>2. AllOnTheirWay'
  BY DEF IgnoreInv, AllOnTheirWay, OnItsWay, Fresh
<1>3. InTurn'
  BY DEF IgnoreInv, InTurn
<1>4. SpentIsKnown' /\ SpentMarkerNotLive' /\ StaleNeverSwallows'
  BY DEF IgnoreInv, SpentIsKnown, SpentMarkerNotLive, StaleNeverSwallows
<1> QED
  BY <1>1, <1>2, <1>3, <1>4 DEF IgnoreInv

\* A paste sets its marker.
LEMMA SetMarkerInv == ASSUME IgnoreInv, NEW h \in Hashes, SetMarker(h) PROVE IgnoreInv'
<1> USE IgnoreAssumption DEF SetMarker
<1>0. generation \in Nat /\ generation + 1 \in Generations
  BY DEF IgnoreInv, MarkerIsLast, Generations
<1>1. MarkerIsLast'
  BY <1>0 DEF IgnoreInv, MarkerIsLast, AtMostOne, Markers, Generations
<1>2. AllOnTheirWay'
  <2> SUFFICES ASSUME NEW s \in reading \cup sending \cup snapshots \cup taken PROVE OnItsWay(s)'
    BY DEF AllOnTheirWay
  <2>1. OnItsWay(s)
    BY DEF IgnoreInv, AllOnTheirWay
  <2>2. \A b \in s.bound : b.generation \in Nat
    BY <2>1 DEF OnItsWay, Bindings, Generations
  <2> QED
    BY <1>0, <2>1, <2>2 DEF OnItsWay
<1>3. InTurn'
  BY <1>0 DEF IgnoreInv, InTurn, Bindings
<1>4. SpentIsKnown' /\ SpentMarkerNotLive' /\ StaleNeverSwallows'
  <2>1. consumed <= generation
    BY DEF IgnoreInv, SpentIsKnown
  <2> QED
    BY <1>0, <2>1 DEF IgnoreInv, SpentIsKnown, SpentMarkerNotLive, StaleNeverSwallows
<1> QED
  BY <1>1, <1>2, <1>3, <1>4 DEF IgnoreInv

\* A marker that goes, or goes stale, is the same marker.
LEMMA LessMarkerInv ==
    ASSUME IgnoreInv,
           \A m \in marker' : \E k \in marker :
              m \in Markers /\ m.generation = k.generation /\ (m.fresh => k.fresh),
           AtMostOne(marker'),
           clipboard'.seq \in {clipboard.seq, clipboard.seq + 1},
           clipboard'.hash \in Hashes,
           pasting' \subseteq pasting,
           UNCHANGED <<consumed, generation, reading, sending, handled, snapshots, taken,
                       spends, stored>>
    PROVE  IgnoreInv'
<1>1. MarkerIsLast'
  BY DEF IgnoreInv, MarkerIsLast
<1>2. AllOnTheirWay'
  BY DEF IgnoreInv, AllOnTheirWay, OnItsWay, Fresh
<1>3. InTurn'
  BY DEF IgnoreInv, InTurn
<1>4. SpentIsKnown' /\ SpentMarkerNotLive' /\ StaleNeverSwallows'
  BY DEF IgnoreInv, SpentIsKnown, SpentMarkerNotLive, StaleNeverSwallows
<1> QED
  BY <1>1, <1>2, <1>3, <1>4 DEF IgnoreInv

\* The write lands: the sequence number moves on, the marker stays.
LEMMA PasteWritesInv == ASSUME IgnoreInv, PasteWrites PROVE IgnoreInv'
<1>1. PICK p \in pasting : clipboard' = [seq |-> clipboard.seq + 1, hash |-> p.hash,
                                         writer |-> p.generation]
  BY DEF PasteWrites
<1>2. p.hash \in Hashes
  BY DEF IgnoreInv, InTurn, Bindings
<1>3. marker' = marker
  BY DEF PasteWrites
<1>4. /\ clipboard'.seq \in {clipboard.seq, clipboard.seq + 1}
      /\ clipboard'.hash \in Hashes
  BY <1>1, <1>2
<1>5. UNCHANGED <<consumed, generation, reading, sending, handled, snapshots, taken, spends,
                  stored>>
  BY DEF PasteWrites
<1>6. /\ \A m \in marker' : \E k \in marker :
            m \in Markers /\ m.generation = k.generation /\ (m.fresh => k.fresh)
      /\ AtMostOne(marker')
  BY <1>3 DEF IgnoreInv, MarkerIsLast, AtMostOne
<1>7. pasting' \subseteq pasting
  BY DEF PasteWrites
<1> QED
  BY <1>4, <1>5, <1>6, <1>7, LessMarkerInv

\* The write failed, or was refused before it: the paste is over.
LEMMA PasteEndsInv == ASSUME IgnoreInv, PasteFails \/ PasteRejected PROVE IgnoreInv'
<1>1. UNCHANGED <<consumed, generation, reading, sending, handled, snapshots, taken, spends,
                  stored>>
  BY DEF PasteFails, PasteRejected
<1>2. marker' \subseteq marker /\ clipboard' = clipboard
  BY DEF PasteFails, PasteRejected
<1>3. /\ clipboard'.seq \in {clipboard.seq, clipboard.seq + 1}
      /\ clipboard'.hash \in Hashes
  BY <1>2 DEF IgnoreInv, InTurn
<1>4. /\ \A m \in marker' : \E k \in marker :
            m \in Markers /\ m.generation = k.generation /\ (m.fresh => k.fresh)
      /\ AtMostOne(marker')
  BY <1>2 DEF IgnoreInv, MarkerIsLast, AtMostOne
<1>5. pasting' \subseteq pasting
  BY DEF PasteFails, PasteRejected
<1> QED
  BY <1>1, <1>3, <1>4, <1>5, LessMarkerInv

\* The marker goes stale.
LEMMA MarkerExpiresInv == ASSUME IgnoreInv, MarkerExpires PROVE IgnoreInv'
<1>1. UNCHANGED <<consumed, generation, reading, sending, handled, snapshots, taken, spends,
                  stored>>
  BY DEF MarkerExpires
<1>2. PICK m \in marker : marker' = { [m EXCEPT !.fresh = FALSE] } /\ clipboard' = clipboard
  BY DEF MarkerExpires
<1>3. /\ clipboard'.seq \in {clipboard.seq, clipboard.seq + 1}
      /\ clipboard'.hash \in Hashes
  BY <1>2 DEF IgnoreInv, InTurn
<1>4. m \in Markers
  BY DEF IgnoreInv, MarkerIsLast
<1>5. [m EXCEPT !.fresh = FALSE] \in Markers
      /\ [m EXCEPT !.fresh = FALSE].generation = m.generation
      /\ ~[m EXCEPT !.fresh = FALSE].fresh
  BY <1>4 DEF Markers
<1>6. /\ \A k \in marker' : \E n \in marker :
            k \in Markers /\ k.generation = n.generation /\ (k.fresh => n.fresh)
      /\ AtMostOne(marker')
  BY <1>2, <1>5 DEF AtMostOne
<1>7. pasting' \subseteq pasting
  BY DEF MarkerExpires
<1> QED
  BY <1>1, <1>3, <1>6, <1>7, LessMarkerInv

\* The listener reads the latest copy: it is later than all on their way.
LEMMA ReadInv == ASSUME IgnoreInv, Read PROVE IgnoreInv'
<1>1. reading = {} /\ sending = {} /\ handled < clipboard.seq /\ handled' = clipboard.seq
  BY DEF Read
<1>2. UNCHANGED <<clipboard, marker, consumed, generation, pasting, sending, snapshots, taken,
                  spends, stored>>
  BY DEF Read
<1>3. generation \in Nat /\ clipboard.seq \in Nat /\ clipboard.hash \in Hashes /\ handled \in Nat
  BY DEF IgnoreInv, MarkerIsLast, InTurn
<1>4. PICK new : /\ reading' = {new}
                 /\ new.id = clipboard.seq /\ new.hash = clipboard.hash /\ new.bound = {}
                 /\ new.since = IF Fresh THEN generation ELSE generation + 1
  <2> DEFINE w == [id |-> clipboard.seq, kind |-> "content",
                   bytes |-> Size[clipboard.hash], hash |-> clipboard.hash, bound |-> {},
                   writer |-> clipboard.writer,
                   since |-> IF Fresh THEN generation ELSE generation + 1]
  <2>1. /\ w.id = clipboard.seq /\ w.hash = clipboard.hash /\ w.bound = {}
        /\ w.since = IF Fresh THEN generation ELSE generation + 1
    OBVIOUS
  <2>2. reading' = {w}
    BY Zenon DEF Read, Fresh
  <2> HIDE DEF w
  <2> QED
    BY <2>1, <2>2
<1>5. /\ new.since \in Nat /\ new.since <= generation + 1
      /\ Fresh => new.since <= generation
  BY <1>3, <1>4
<1>6. Fresh' = Fresh
  BY <1>2 DEF Fresh
<1>7. MarkerIsLast'
  BY <1>2 DEF IgnoreInv, MarkerIsLast
<1>8. AllOnTheirWay'
  <2>1. OnItsWay(new)'
    BY <1>2, <1>3, <1>4, <1>5, <1>6 DEF OnItsWay, AtMostOne
  <2>2. ASSUME NEW s \in snapshots \cup taken PROVE OnItsWay(s)'
    BY <1>2, <1>6 DEF IgnoreInv, AllOnTheirWay, OnItsWay
  <2> QED
    BY <1>1, <1>2, <1>4, <2>1, <2>2 DEF AllOnTheirWay
<1>9. InTurn'
  BY <1>1, <1>2, <1>3, <1>4 DEF IgnoreInv, InTurn, AtMostOne
<1>10. SpentIsKnown' /\ SpentMarkerNotLive' /\ StaleNeverSwallows'
  BY <1>2 DEF IgnoreInv, SpentIsKnown, SpentMarkerNotLive, StaleNeverSwallows
<1> QED
  BY <1>7, <1>8, <1>9, <1>10 DEF IgnoreInv

\* The listener binds the marker: it is fresh.
LEMMA BindInv == ASSUME IgnoreInv, Bind PROVE IgnoreInv'
<1>1. PICK r \in reading : reading' = {} /\ sending' = { [r EXCEPT !.bound = Binding] }
  BY DEF Bind
<1>2. UNCHANGED <<clipboard, marker, consumed, generation, pasting, handled, snapshots, taken,
                  spends, stored>>
  BY DEF Bind
<1> DEFINE item == [r EXCEPT !.bound = Binding]
<1>3. reading \cup sending = {r}
  BY <1>1 DEF IgnoreInv, InTurn, AtMostOne
<1>4. OnItsWay(r)
  BY DEF IgnoreInv, AllOnTheirWay
<1>5. /\ Binding \subseteq Bindings /\ AtMostOne(Binding)
      /\ \A b \in Binding : b.generation = generation /\ Fresh
  BY DEF IgnoreInv, MarkerIsLast, AtMostOne, Binding, Bindings, Markers, Fresh
<1>6. item.id = r.id /\ item.hash = r.hash /\ item.since = r.since
  OBVIOUS
<1>7. item.bound = Binding \/ item.bound = r.bound
  OBVIOUS
<1>8. generation \in Nat
  BY DEF IgnoreInv, MarkerIsLast
<1>9. sending' = {item}
  BY <1>1
<1> HIDE DEF item
<1>10. OnItsWay(item)
  BY <1>4, <1>5, <1>6, <1>7, <1>8 DEF OnItsWay
<1>11. MarkerIsLast'
  BY <1>2 DEF IgnoreInv, MarkerIsLast
<1>12. AllOnTheirWay'
  <2>1. ASSUME NEW s, OnItsWay(s) PROVE OnItsWay(s)'
    BY <1>2, <2>1 DEF OnItsWay, Fresh
  <2>2. \A s \in reading' \cup sending' \cup snapshots' \cup taken' : OnItsWay(s)
    BY <1>1, <1>2, <1>9, <1>10 DEF IgnoreInv, AllOnTheirWay
  <2> QED
    BY <2>1, <2>2 DEF AllOnTheirWay
<1>13. InTurn'
  BY <1>1, <1>2, <1>3, <1>6, <1>9 DEF IgnoreInv, InTurn, AtMostOne
<1>14. SpentIsKnown' /\ SpentMarkerNotLive' /\ StaleNeverSwallows'
  BY <1>2 DEF IgnoreInv, SpentIsKnown, SpentMarkerNotLive, StaleNeverSwallows
<1> QED
  BY <1>11, <1>12, <1>13, <1>14 DEF IgnoreInv

\* The listener sends; what is evicted is released.
LEMMA SendInv == ASSUME IgnoreInv, Send PROVE IgnoreInv'
<1>1. PICK item \in sending :
         LET evicted == Evicted(snapshots, item)
             spent == UNION { OwnGenerations(s) : s \in Released(evicted) }
         IN
         /\ snapshots' = Enqueue(snapshots, item)
         /\ consumed' = LastSpent(BoundEchoes(evicted))
         /\ marker' = MarkerAfter(spent)
         /\ spends' = spends \cup
              UNION { { [generation |-> g, snapshot |-> s, how |-> "released"] :
                          g \in OwnGenerations(s) } : s \in Released(evicted) }
         /\ sending' = {}
  BY DEF Send
<1>2. UNCHANGED <<clipboard, generation, pasting, reading, handled, taken, stored>>
  BY DEF Send
<1> DEFINE evicted == Evicted(snapshots, item)
           spent == UNION { OwnGenerations(s) : s \in Released(evicted) }
<1>3. evicted \subseteq snapshots /\ snapshots' \subseteq snapshots \cup {item}
  BY <1>1, SendOnlyDrops DEF Enqueue
<1>4. consumed' \in {consumed} \cup spent
  BY <1>1, <1>3, LastSpentIsSpent
<1>5. marker' = { m \in marker : m.generation \notin spent }
  BY <1>1 DEF MarkerAfter
<1>6. \A e \in spends' : e \in spends \/ (e.generation \in spent /\ e.how = "released")
  BY <1>1
<1>7. \A g \in spent : g \in Nat /\ g <= generation
  <2>1. Released(evicted) \subseteq snapshots
    BY <1>3 DEF Released, BoundEchoes
  <2> QED
    BY <2>1, OwnOne DEF IgnoreInv, AllOnTheirWay, Generations
<1>8. sending = {item} /\ reading = {}
  BY <1>1 DEF IgnoreInv, InTurn, AtMostOne
<1>9. OnItsWay(item)
  BY DEF IgnoreInv, AllOnTheirWay
<1>10. Fresh' => Fresh
  BY <1>5 DEF Fresh
<1> HIDE DEF evicted, spent
<1>11. MarkerIsLast'
  BY <1>2, <1>5 DEF IgnoreInv, MarkerIsLast, AtMostOne
<1>12. AllOnTheirWay'
  <2>1. ASSUME NEW s, OnItsWay(s) PROVE OnItsWay(s)'
    BY <1>2, <1>10, <2>1 DEF OnItsWay
  <2>2. \A s \in reading' \cup sending' \cup snapshots' \cup taken' : OnItsWay(s)
    BY <1>1, <1>2, <1>3, <1>8, <1>9 DEF IgnoreInv, AllOnTheirWay
  <2> QED
    BY <2>1, <2>2 DEF AllOnTheirWay
<1>13. InTurn'
  <2>1. \A s \in snapshots \cup taken \cup stored : s.id < item.id
    BY DEF IgnoreInv, InTurn
  <2>2. item.id \in Nat /\ item.id <= handled
    BY DEF IgnoreInv, InTurn
  <2>3. \A s, t \in snapshots' : s.id = t.id => s = t
    BY <1>3, <2>1, <2>2 DEF IgnoreInv, InTurn
  <2>4. \A s \in taken \cup stored, t \in snapshots' : s.id < t.id
    BY <1>3, <2>1 DEF IgnoreInv, InTurn
  <2>5. \A s \in snapshots' : s.id \in Nat /\ s.id <= handled
    BY <1>3, <2>2 DEF IgnoreInv, InTurn
  <2> QED
    BY <1>1, <1>2, <1>8, <2>3, <2>4, <2>5 DEF IgnoreInv, InTurn, AtMostOne
<1>14. SpentIsKnown'
  BY <1>2, <1>4, <1>5, <1>6, <1>7 DEF IgnoreInv, SpentIsKnown
<1>15. SpentMarkerNotLive'
  BY <1>5, <1>6 DEF IgnoreInv, SpentMarkerNotLive
<1>16. StaleNeverSwallows'
  BY <1>6 DEF IgnoreInv, StaleNeverSwallows
<1> QED
  BY <1>11, <1>12, <1>13, <1>14, <1>15, <1>16 DEF IgnoreInv

\* The consumer takes the oldest snapshot.
LEMMA ReceiveInv == ASSUME IgnoreInv, TakeSnapshot PROVE IgnoreInv'
<1>1. /\ taken = {} /\ snapshots # {}
      /\ UNCHANGED <<clipboard, marker, consumed, generation, pasting, reading, sending, handled,
                     spends, stored>>
      /\ taken' = { Front(snapshots) } /\ snapshots' = Dequeue(snapshots)
  BY DEF TakeSnapshot
<1> DEFINE f == Front(snapshots)
<1>2. f \in snapshots /\ \A t \in snapshots : f.id <= t.id
  <2>1. \E s \in snapshots : \A t \in snapshots : s.id <= t.id
    BY <1>1, FirstOne DEF IgnoreInv, InTurn
  <2> QED
    <3>1. \E s \in snapshots : IsFront(s, snapshots)
      BY <2>1 DEF IsFront, OlderThan, IgnoreInv, InTurn
    <3>2. IsFront(f, snapshots)
      BY <3>1 DEF Front
    <3> QED
      BY <3>2 DEF IsFront, OlderThan, IgnoreInv, InTurn
<1> HIDE DEF f
<1>3. snapshots' = snapshots \ {f} /\ taken' = {f}
  BY <1>1 DEF Dequeue, f
<1>4. MarkerIsLast'
  BY <1>1 DEF IgnoreInv, MarkerIsLast
<1>5. AllOnTheirWay'
  BY <1>1, <1>2, <1>3 DEF IgnoreInv, AllOnTheirWay, OnItsWay, Fresh
<1>6. InTurn'
  <2>1. \A t \in snapshots' : f.id < t.id
    BY <1>2, <1>3 DEF IgnoreInv, InTurn
  <2> QED
    BY <1>1, <1>2, <1>3, <2>1 DEF IgnoreInv, InTurn, AtMostOne
<1>7. SpentIsKnown' /\ SpentMarkerNotLive' /\ StaleNeverSwallows'
  BY <1>1 DEF IgnoreInv, SpentIsKnown, SpentMarkerNotLive, StaleNeverSwallows
<1> QED
  BY <1>4, <1>5, <1>6, <1>7 DEF IgnoreInv

\* A snapshot that is skipped spends a generation it may spend, and not the last one spent.
LEMMA SpentInTime ==
    ASSUME IgnoreInv, NEW s \in taken, ShouldIgnore(s)
    PROVE  LET g == GenerationSpentBy(s)
           IN  g \in Nat /\ s.since <= g /\ g <= generation /\ g # consumed
<1>1. OnItsWay(s)
  BY DEF IgnoreInv, AllOnTheirWay
<1>2. CASE IgnoredViaQueued(s)
  <2>1. PICK g \in OwnGenerations(s) : g # consumed
    BY <1>2 DEF IgnoredViaQueued
  <2>2. GenerationSpentBy(s) = g
    BY <1>1, <1>2, <2>1, OwnOne DEF AtMostOne, GenerationSpentBy
  <2> QED
    BY <1>1, <2>1, <2>2, OwnOne DEF Generations
<1>3. CASE ~IgnoredViaQueued(s)
  <2>1. PICK m \in marker : m.fresh
    BY <1>3 DEF ShouldIgnore, IgnoredViaLive
  <2>2. GenerationSpentBy(s) \in { k.generation : k \in marker }
    BY <1>3, <2>1 DEF GenerationSpentBy
  <2>3. GenerationSpentBy(s) = generation /\ generation # consumed
    BY <2>1, <2>2 DEF IgnoreInv, MarkerIsLast, SpentIsKnown
  <2> QED
    BY <1>1, <2>1, <2>3 DEF OnItsWay, Fresh, IgnoreInv, MarkerIsLast
<1> QED
  BY <1>2, <1>3

\* The consumer skips its own echo: the generation it spends leaves the marker.
LEMMA SwallowInv == ASSUME IgnoreInv, Swallow PROVE IgnoreInv'
<1>1. PICK s \in taken :
         /\ ShouldIgnore(s)
         /\ consumed' = GenerationSpentBy(s)
         /\ marker' = MarkerAfter({ GenerationSpentBy(s) })
         /\ spends' = spends \cup
              { [generation |-> GenerationSpentBy(s), snapshot |-> s, how |-> "swallowed"] }
         /\ taken' = {}
  BY DEF Swallow
<1>2. UNCHANGED <<clipboard, generation, pasting, reading, sending, handled, snapshots, stored>>
  BY DEF Swallow
<1> DEFINE g == GenerationSpentBy(s)
<1>3. g \in Nat /\ s.since <= g /\ g <= generation
  BY <1>1, SpentInTime
<1>4. marker' = { m \in marker : m.generation # g }
  BY <1>1 DEF MarkerAfter
<1>5. \A e \in spends' : e \in spends \/ (e.generation = g /\ e.snapshot = s)
  BY <1>1
<1>6. consumed' = g
  BY <1>1
<1> HIDE DEF g
<1>7. MarkerIsLast'
  BY <1>2, <1>4 DEF IgnoreInv, MarkerIsLast, AtMostOne
<1>8. AllOnTheirWay'
  BY <1>1, <1>2, <1>4 DEF IgnoreInv, AllOnTheirWay, OnItsWay, Fresh
<1>9. InTurn'
  BY <1>1, <1>2 DEF IgnoreInv, InTurn, AtMostOne
<1>10. SpentIsKnown'
  BY <1>2, <1>3, <1>4, <1>5, <1>6 DEF IgnoreInv, SpentIsKnown
<1>11. SpentMarkerNotLive'
  BY <1>4, <1>5 DEF IgnoreInv, SpentMarkerNotLive
<1>12. StaleNeverSwallows'
  BY <1>3, <1>5 DEF IgnoreInv, StaleNeverSwallows
<1> QED
  BY <1>7, <1>8, <1>9, <1>10, <1>11, <1>12 DEF IgnoreInv

\* The consumer goes on to store: nothing later is stored before it.
LEMMA StoreInv == ASSUME IgnoreInv, Store PROVE IgnoreInv'
<1>1. PICK s \in taken : stored' = stored \cup {s} /\ taken' = {}
  BY DEF Store
<1>2. UNCHANGED <<clipboard, marker, consumed, generation, pasting, reading, sending, handled,
                  snapshots, spends>>
  BY DEF Store
<1>3. MarkerIsLast'
  BY <1>2 DEF IgnoreInv, MarkerIsLast
<1>4. AllOnTheirWay'
  BY <1>1, <1>2 DEF IgnoreInv, AllOnTheirWay, OnItsWay, Fresh
<1>5. InTurn'
  BY <1>1, <1>2 DEF IgnoreInv, InTurn, AtMostOne
<1>6. SpentIsKnown' /\ SpentMarkerNotLive' /\ StaleNeverSwallows'
  BY <1>2 DEF IgnoreInv, SpentIsKnown, SpentMarkerNotLive, StaleNeverSwallows
<1> QED
  BY <1>3, <1>4, <1>5, <1>6 DEF IgnoreInv

\* What the invariant is about stands still while the consumer waits for the lock.
LEMMA LockInv == ASSUME IgnoreInv, Lock \/ UNCHANGED ignoreVars PROVE IgnoreInv'
<1>1. UNCHANGED <<clipboard, marker, consumed, generation, pasting, reading, sending, handled,
                  snapshots, taken, spends, stored>>
  BY DEF Lock, ignoreVars
<1>2. MarkerIsLast' /\ AllOnTheirWay' /\ InTurn'
  BY <1>1 DEF IgnoreInv, MarkerIsLast, AllOnTheirWay, OnItsWay, Fresh, InTurn
<1>3. SpentIsKnown' /\ SpentMarkerNotLive' /\ StaleNeverSwallows'
  BY <1>1 DEF IgnoreInv, SpentIsKnown, SpentMarkerNotLive, StaleNeverSwallows
<1> QED
  BY <1>2, <1>3 DEF IgnoreInv

\* Every step keeps the invariant.
LEMMA IgnoreSteps == ASSUME IgnoreInv, [IgnoreNext]_ignoreVars PROVE IgnoreInv'
BY UserCopiesInv, SetMarkerInv, PasteWritesInv, PasteEndsInv, MarkerExpiresInv, ReadInv,
   BindInv, SendInv, ReceiveInv, SwallowInv, StoreInv, LockInv DEF IgnoreNext

----------------------------------------------------------------------------

\* A marker whose generation has been used up is not live any more, however many copies and
\* pastes are on their way (SpentMarkerNotLive; consume_ignore_marker_after_self_paste).
THEOREM SpentIsNotLive == IgnoreSpec => []SpentMarkerNotLive
<1>1. IgnoreInv => SpentMarkerNotLive
  BY DEF IgnoreInv
<1> QED
  BY <1>1, IgnoreStarts, IgnoreSteps, PTL DEF IgnoreSpec

\* A stale marker never swallows a copy made after it went stale (StaleNeverSwallows;
\* bind_ignore_hash_for_queued_work and ignore_marker_applies).
THEOREM StaleSwallowsNothing == IgnoreSpec => []StaleNeverSwallows
<1>1. IgnoreInv => StaleNeverSwallows
  BY DEF IgnoreInv
<1> QED
  BY <1>1, IgnoreStarts, IgnoreSteps, PTL DEF IgnoreSpec

\* No generation is spent twice in a row (NeverSpentTwiceInARow; ignored_via_queued and
\* consumed_generation).
THEOREM SpentOnce == IgnoreSpec => NeverSpentTwiceInARow
<1> DEFINE OnceMore == \A s \in taken : taken' = {} /\ stored' = stored
                          => GenerationSpentBy(s) # consumed
<1>1. ASSUME IgnoreInv, [IgnoreNext]_ignoreVars PROVE [OnceMore]_ignoreVars
  <2> SUFFICES ASSUME IgnoreNext, NEW s \in taken, taken' = {}, stored' = stored
               PROVE  GenerationSpentBy(s) # consumed
    BY <1>1
  <2>1. CASE Swallow
    <3>1. ShouldIgnore(s)
      BY <1>1, <2>1 DEF Swallow, IgnoreInv, InTurn, AtMostOne
    <3> QED
      BY <1>1, <3>1, SpentInTime
  <2>2. CASE Store
    <3>1. s \in stored /\ s \in taken
      BY <1>1, <2>2 DEF Store, IgnoreInv, InTurn, AtMostOne
    <3>2. s.id < s.id /\ s.id \in Nat
      BY <1>1, <3>1 DEF IgnoreInv, InTurn
    <3> QED
      BY <3>2
  <2> QED
    BY <2>1, <2>2 DEF IgnoreNext, UserCopies, SetMarker, PasteWrites, PasteFails, PasteRejected,
       MarkerExpires, Read, Bind, Send, TakeSnapshot, Lock
<1> QED
  BY <1>1, IgnoreStarts, IgnoreSteps, PTL DEF IgnoreSpec, NeverSpentTwiceInARow, OnceMore
=============================================================================
