------------------------- MODULE SearchIndexProofs -------------------------
(***************************************************************************)
(* The search index implements the view of SearchView, and what is         *)
(* scrolled through with it is exact, for every set of clips, every page   *)
(* size and every bound on changes and searches.                           *)
(***************************************************************************)
EXTENDS SearchIndex, FiniteSetTheorems, SequenceTheorems, TLAPS

Doc == Docs \cup {Gone}
Table == [Clips -> Doc]

RowsTyped == rows \in Table /\ hidden \in Table /\ unused \subseteq Clips

IndexTyped == index \in Table \cup {None} /\ generation \in Nat

JobsTyped ==
    /\ jobs \in [Writers -> Job \cup {Idle}]
    /\ owed \subseteq Clips /\ contested \subseteq Clips

ClientTyped ==
    /\ DOMAIN client = DOMAIN NoPage
    /\ client.snapshot \in Table \cup {None}
    /\ client.seen \in Nat /\ client.seen <= generation
    /\ client.pc \in {"select", "publish"} => index = None
    /\ client.pc = "publish" => client.snapshot # None

\* Messages are owed by those who have still to send them, and two that are owed for
\* one clip are known to be in no order.
OwedByWriters ==
    /\ owed = Owing("capture") \cup Owing("user")
    /\ Owing("capture") \cap Owing("user") \subseteq contested

\* A uuid is given out once: nobody has heard of one that is not.
FreshOnce ==
    /\ \A c \in unused : /\ rows[c] = Gone /\ hidden[c] = Gone
                         /\ index # None => index[c] = Gone
                         /\ client.snapshot # None => client.snapshot[c] = Gone
    /\ \A w \in Writers : Owing(w) \cap unused = {}
    /\ jobs["user"].op = "edit" => jobs["user"].clip \notin unused
    /\ jobs["capture"].op = "capture" /\ jobs["capture"].pc = "write"
          => (jobs["capture"].new <=> jobs["capture"].clip \in unused)

\* What the message writer w owes for clip c makes of the documents f: the row.
Repaired(w, f, c) ==
    LET job == jobs[w] IN
    \/ /\ job.op = "capture"
       /\ rows[c].body = job.body
       /\ \/ f[c] = rows[c]
          \/ job.new /\ f[c] = Gone /\ ~rows[c].notes
    \/ /\ job.op = "edit"
       /\ rows[c].body = job.body
       /\ f[c] # Gone /\ f[c].notes = rows[c].notes
    \/ /\ job.op = "annotate"
       /\ rows[c].notes = job.notes
       /\ f[c] # Gone /\ f[c].body = rows[c].body
    \/ job.op = "sweep"

\* Documents f are level with the rows but for what is owed.
Level(f) ==
    \A c \in Clips \ (Unreadable \cup contested) :
       rows[c] # Gone =>
          IF c \in owed THEN \A w \in Writers : c \in Owing(w) => Repaired(w, f, c)
          ELSE f[c] = rows[c]

IndexLevel ==
    /\ index # None => Level(index)
    /\ client.pc = "publish" /\ client.seen = generation => Level(client.snapshot)

\* A writer that owes a message has done to its row what the message says.
Done(w, c) ==
    LET job == jobs[w] IN
    \/ job.op \in {"capture", "edit"} /\ rows[c].body = job.body
    \/ job.op = "annotate" /\ rows[c].notes = job.notes
    \/ job.op = "sweep"

Told ==
    \A c \in Clips \ (Unreadable \cup contested) : rows[c] # Gone =>
        \A w \in Writers : c \in Owing(w) => Done(w, c)

IInv == RowsTyped /\ IndexTyped /\ JobsTyped /\ ClientTyped /\ OwedByWriters
          /\ FreshOnce /\ Told /\ IndexLevel

----------------------------------------------------------------------------
(* Facts about the data.                                                   *)

\* What the assumption says of the values that stand for nothing.
LEMMA Nothing == Gone \notin Docs /\ None \notin Table /\ Unreadable \subseteq Clips
BY IndexAssumption DEF Table, Doc

\* What is known of a job by its operation.
LEMMA JobShape ==
    ASSUME NEW j \in Job \cup {Idle}
    PROVE  /\ j = Idle <=> j.op = "idle"
           /\ j.op = "capture" => /\ j.clip \in Clips /\ j.body \in BOOLEAN
                                  /\ j.new \in BOOLEAN
                                  /\ j.pc \in {"write", "formats", "message"}
           /\ j.op = "edit" => /\ j.clip \in Clips /\ j.body \in BOOLEAN
                               /\ j.pc \in {"write", "message"}
           /\ j.op = "annotate" => /\ j.clip \in Clips /\ j.notes \in BOOLEAN
                                   /\ j.pc = "message"
           /\ j.op = "delete" => j.clip \in Clips /\ j.pc = "message"
           /\ j.op = "sweep" => j.gone \subseteq Clips /\ j.pc = "message"
           /\ j.op \in {"idle", "capture", "edit", "annotate", "delete", "sweep"}
BY DEF Job, Idle

\* No job is that of an idle writer.
LEMMA JobIsBusy == ASSUME NEW j \in Job PROVE j # Idle
BY DEF Job, Idle

\* The first state.
LEMMA InitInv == Init => IInv
<1> SUFFICES ASSUME Init PROVE IInv
  OBVIOUS
<1>1. RowsTyped
  <2>1. {Gone, [body |-> TRUE, notes |-> FALSE], [body |-> FALSE, notes |-> TRUE]}
          \subseteq Doc
    BY DEF Doc, Docs
  <2>2. rows \in Table
    BY <2>1 DEF Init, Table
  <2>3. hidden \in Table /\ unused \subseteq Clips
    BY DEF Init, Table, Doc
  <2> QED
    BY <2>2, <2>3 DEF RowsTyped
<1>2. IndexTyped
  BY DEF Init, IndexTyped
<1>3. JobsTyped /\ OwedByWriters
  BY DEF Init, JobsTyped, OwedByWriters, Owing, Writers
<1>4. ClientTyped
  BY DEF Init, ClientTyped, NoPage
<1>5. FreshOnce
  <2>1. \A c \in unused : rows[c] = Gone /\ hidden[c] = Gone
    BY DEF Init, Visible
  <2>2. client.snapshot = None /\ index = None
    BY DEF Init, NoPage
  <2>3. \A w \in Writers : jobs[w] = Idle
    BY DEF Init
  <2>4. jobs["user"].op = "idle" /\ jobs["capture"].op = "idle"
    BY <2>3 DEF Idle, Writers
  <2> QED
    BY <2>1, <2>2, <2>3, <2>4 DEF FreshOnce, Owing
<1>6. Told /\ IndexLevel
  BY <1>3 DEF Init, IndexLevel, Told, NoPage, Owing
<1> QED
  BY <1>1, <1>2, <1>3, <1>4, <1>5, <1>6 DEF IInv

----------------------------------------------------------------------------
(* Steps of the reader that leave the index alone.                         *)


\* What such a step may do to the reader keeps the invariant.
LEMMA ReaderMoves ==
    ASSUME IInv,
           UNCHANGED <<rows, hidden, unused, index, generation, jobs, owed, contested>>,
           DOMAIN client' = DOMAIN client,
           client'.snapshot \in {client.snapshot, None},
           client'.seen \in {client.seen, generation, 0},
           client'.pc # "publish",
           client'.pc = "select" => index = None
    PROVE  IInv'
<1>1. RowsTyped' /\ IndexTyped' /\ JobsTyped'
  BY DEF IInv, RowsTyped, IndexTyped, JobsTyped
<1>2. ClientTyped'
  BY DEF IInv, ClientTyped, IndexTyped
<1>3. (\A w \in Writers : Owing(w)' = Owing(w)) /\ "capture" \in Writers /\ "user" \in Writers
  BY DEF Owing, Writers
<1>4. OwedByWriters'
  BY <1>3 DEF IInv, OwedByWriters
<1>5. FreshOnce'
  BY <1>3 DEF IInv, FreshOnce
<1>6. Told' /\ IndexLevel'
  BY <1>3 DEF IInv, Told, Done, IndexLevel, Level, Repaired
<1> QED
  BY <1>1, <1>2, <1>4, <1>5, <1>6 DEF IInv

\* The fields of the reader that tell how it stands with the index.
LEMMA ReaderFields ==
    ASSUME ClientTyped
    PROVE  {"mode", "pc", "seen", "snapshot", "candidates", "ids", "start", "page",
            "shown", "calm", "moved", "ended"} = DOMAIN client
BY DEF ClientTyped, NoPage

\* The steps of the reader that leave the index alone.
LEMMA ReaderStepInv ==
    ASSUME IInv, LoadGeneration \/ Match \/ Order \/ Fetch \/ NextPage
                   \/ (\E mode \in {"list", "search"} : Open(mode))
                   \/ (Publish /\ generation # client.seen)
    PROVE  IInv'
<1> USE ReaderFields DEF NotReader, database, Reader
<1>0. ClientTyped
  BY DEF IInv
<1>1. CASE LoadGeneration
  BY <1>0, <1>1, ReaderMoves DEF LoadGeneration
<1>2. CASE Match
  BY <1>0, <1>2, ReaderMoves DEF Match, Answer
<1>3. CASE Order
  BY <1>0, <1>3, ReaderMoves DEF Order, Answer
<1>4. CASE Fetch
  BY <1>0, <1>4, ReaderMoves DEF Fetch, Answer
<1>5. CASE NextPage
  BY <1>0, <1>5, ReaderMoves DEF NextPage
<1>6. CASE \E mode \in {"list", "search"} : Open(mode)
  BY <1>0, <1>6, ReaderMoves DEF Open, NoPage
<1>7. CASE Publish /\ generation # client.seen
  BY <1>0, <1>7, ReaderMoves DEF Publish
<1> QED
  BY <1>1, <1>2, <1>3, <1>4, <1>5, <1>6, <1>7

----------------------------------------------------------------------------
(* The rebuild.                                                            *)

\* What a writer still owes is its own clip, and no job of another shape owes any.
LEMMA OwedJob ==
    ASSUME JobsTyped, NEW w \in Writers, NEW c \in Owing(w)
    PROVE  /\ c \in Clips
           /\ jobs[w] \in Job /\ jobs[w] # Idle
           /\ \/ jobs[w].op = "sweep" /\ c \in jobs[w].gone
              \/ jobs[w].op \in {"capture", "edit", "annotate", "delete"} /\ c = jobs[w].clip
<1>1. jobs[w] \in Job \cup {Idle}
  BY DEF JobsTyped
<1> QED
  BY <1>1, JobShape DEF Owing

\* What the SELECT of a rebuild finds is level with the rows.
LEMMA SnapshotLevel ==
    ASSUME IInv
    PROVE  Snapshot \in Table /\ Level(Snapshot)
<1>1. Snapshot \in Table
  BY Nothing DEF IInv, RowsTyped, Snapshot, Table, Doc
<1>2. \A c \in Clips \ Unreadable : Snapshot[c] = rows[c]
  BY DEF Snapshot
<1>3. Level(Snapshot)
  BY <1>2 DEF IInv, Told, Level, Repaired, Done
<1> QED
  BY <1>1, <1>3

\* The SELECT.
LEMMA SelectInv == ASSUME IInv, SelectRows PROVE IInv'
<1> USE ReaderFields, SnapshotLevel DEF SelectRows, NotReader, database, Reader
<1>0. /\ client'.snapshot = Snapshot /\ client'.pc = "publish"
      /\ client'.seen = client.seen /\ DOMAIN client' = DOMAIN client /\ client.pc = "select"
  BY DEF IInv
<1>1. RowsTyped' /\ IndexTyped' /\ JobsTyped'
  BY DEF IInv, RowsTyped, IndexTyped, JobsTyped
<1>2. ClientTyped'
  BY <1>0, Nothing DEF IInv, ClientTyped
<1>3. \A w \in Writers : Owing(w)' = Owing(w)
  BY DEF Owing
<1>4. OwedByWriters'
  BY <1>3 DEF IInv, OwedByWriters, Writers
<1>5. FreshOnce'
  <2>1. \A c \in unused : Snapshot[c] = Gone
    BY DEF Snapshot, IInv, FreshOnce, RowsTyped
  <2> QED
    BY <1>0, <1>3, <2>1 DEF IInv, FreshOnce
<1>6. Told'
  BY <1>3 DEF IInv, Told, Done
<1>7. IndexLevel'
  BY <1>0, <1>3 DEF IInv, IndexLevel, ClientTyped, Level, Repaired
<1> QED
  BY <1>1, <1>2, <1>4, <1>5, <1>6, <1>7 DEF IInv

\* A rebuild that has won the race is published.
LEMMA PublishInv == ASSUME IInv, Publish, generation = client.seen PROVE IInv'
<1> USE ReaderFields DEF Publish, database, Reader
<1> DEFINE f == client.snapshot
<1>0. /\ index' = f
      /\ contested' = { c \in contested : c \in owed \/ f[c] # Snapshot[c] }
      /\ client.pc = "publish" /\ DOMAIN client' = DOMAIN client
      /\ client'.snapshot = None /\ client'.pc = "match" /\ client'.seen = 0
      /\ UNCHANGED <<rows, hidden, unused, generation, jobs, owed>>
  BY DEF IInv
<1> HIDE DEF Publish
<1>1. f \in Table /\ f # None
  BY <1>0 DEF IInv, ClientTyped
<1>2. RowsTyped' /\ IndexTyped' /\ JobsTyped' /\ ClientTyped'
  BY <1>0, <1>1 DEF IInv, RowsTyped, IndexTyped, JobsTyped, ClientTyped
<1>3. \A w \in Writers : Owing(w)' = Owing(w)
  BY <1>0 DEF Owing
<1>4. OwedByWriters'
  BY <1>0, <1>3 DEF IInv, OwedByWriters, Writers
<1>5. FreshOnce'
  BY <1>0, <1>1, <1>3 DEF IInv, FreshOnce
<1>6. \A c \in Clips \ (Unreadable \cup contested') :
         c \in contested => c \notin owed /\ f[c] = rows[c]
  BY <1>0 DEF Snapshot
<1>7. Told'
  <2>1. \A w \in Writers : Owing(w) \subseteq owed
    BY DEF IInv, OwedByWriters, Writers
  <2> QED
    BY <1>0, <1>3, <1>6, <2>1 DEF IInv, Told, Done
<1>8. IndexLevel'
  <2>1. Level(f)
    BY <1>0 DEF IInv, IndexLevel
  <2> QED
    BY <1>0, <1>3, <1>6, <2>1 DEF IndexLevel, Level, Repaired
<1> QED
  BY <1>2, <1>4, <1>5, <1>7, <1>8 DEF IInv

----------------------------------------------------------------------------
(* Messages.                                                               *)

\* Only the other writer's debt is left.
LEMMA OtherDebt ==
    /\ OwedBut("capture") = Owing("user")
    /\ OwedBut("user") = Owing("capture")
<1>1. Writers \ {"capture"} = {"user"} /\ Writers \ {"user"} = {"capture"}
  BY DEF Writers
<1> QED
  BY <1>1 DEF OwedBut

\* The documents a message leaves: nothing, or the old ones with that of the clip the
\* writer owed replaced by its row.
Settled(w, f) ==
    \/ f = None
    \/ /\ index # None /\ f \in Table
       /\ \A c \in Clips \ Owing(w) : f[c] = index[c]
       /\ \A c \in Owing(w) \ (Unreadable \cup contested) : rows[c] # Gone => f[c] = rows[c]

\* A message that settles the documents, or drops them.
LEMMA MessageInv ==
    ASSUME IInv, NEW w \in Writers, jobs[w] # Idle,
           index' \in Table \cup {None}, Settled(w, index'),
           generation' = generation + 1,
           jobs' = [jobs EXCEPT ![w] = Idle],
           owed' = OwedBut(w),
           UNCHANGED <<rows, hidden, unused, contested, client>>,
           index = None => index' = None
    PROVE  IInv'
<1>1. RowsTyped' /\ IndexTyped'
  BY DEF IInv, RowsTyped, IndexTyped
<1>2. /\ Owing(w)' = {}
      /\ \A v \in Writers \ {w} : Owing(v)' = Owing(v) /\ jobs'[v] = jobs[v]
      /\ jobs'[w] = Idle
  BY DEF IInv, JobsTyped, Owing
<1>3. owed' = Owing("capture")' \cup Owing("user")' /\ owed' \subseteq owed
      /\ owed = owed' \cup Owing(w)
  BY <1>2, OtherDebt DEF Writers, IInv, OwedByWriters
<1>4. JobsTyped'
  BY <1>3 DEF IInv, JobsTyped
<1>5. ClientTyped'
  BY DEF IInv, ClientTyped, IndexTyped
<1>6. OwedByWriters'
  BY <1>2, <1>3 DEF IInv, OwedByWriters, Writers
<1>7. FreshOnce'
  <2>1. \A c \in unused : index' # None => index'[c] = Gone
    BY DEF Settled, IInv, FreshOnce, RowsTyped
  <2>2. \A v \in Writers : Owing(v)' \cap unused = {}
    BY <1>2 DEF IInv, FreshOnce
  <2>3. jobs'["user"].op = "edit" => jobs'["user"].clip \notin unused
    BY <1>2 DEF IInv, FreshOnce, Writers, Idle
  <2>4. jobs'["capture"].op = "capture" /\ jobs'["capture"].pc = "write"
          => (jobs'["capture"].new <=> jobs'["capture"].clip \in unused)
    BY <1>2 DEF IInv, FreshOnce, Writers, Idle
  <2> QED
    BY <2>1, <2>2, <2>3, <2>4 DEF IInv, FreshOnce
<1>8. Told'
  BY <1>2 DEF IInv, Told, Done
<1>9. IndexLevel'
  <2>1. client.seen # generation'
    BY DEF IInv, ClientTyped, IndexTyped
  <2>2. ASSUME index' # None PROVE Level(index)
    BY <2>2 DEF IInv, IndexLevel
  <2>3. ASSUME index' # None, NEW c \in Clips \ (Unreadable \cup contested), rows[c] # Gone
        PROVE  IF c \in owed' THEN \A v \in Writers : c \in Owing(v)' => Repaired(v, index, c)'
               ELSE index'[c] = rows[c]
    <3>1. CASE c \in Owing(w)
      <4>1. c \notin owed'
        BY <1>2, <1>3, <3>1 DEF IInv, OwedByWriters, Writers
      <4> QED
        BY <2>3, <3>1, <4>1 DEF Settled
    <3>2. CASE c \notin Owing(w)
      <4>1. index'[c] = index[c] /\ (c \in owed' <=> c \in owed)
        BY <1>3, <2>3, <3>2 DEF Settled
      <4>2. CASE c \notin owed
        BY <2>2, <2>3, <4>1, <4>2 DEF Level
      <4>3. ASSUME c \in owed, NEW v \in Writers, c \in Owing(v)' PROVE Repaired(v, index, c)'
        <5>1. v # w /\ c \in Owing(v) /\ jobs'[v] = jobs[v]
          BY <1>2, <4>3
        <5>2. Repaired(v, index, c)
          BY <2>2, <2>3, <4>3, <5>1 DEF Level
        <5> QED
          BY <4>1, <5>1, <5>2 DEF Repaired
      <4> QED
        BY <4>1, <4>2, <4>3
    <3> QED
      BY <3>1, <3>2
  <2> QED
    BY <2>1, <2>3 DEF IndexLevel, Level
<1> QED
  BY <1>1, <1>4, <1>5, <1>6, <1>7, <1>8, <1>9 DEF IInv

\* A document is what its two fields say.
LEMMA DocFields ==
    ASSUME NEW d \in Docs
    PROVE  d = [body |-> d.body, notes |-> d.notes] /\ d # Gone
BY Nothing DEF Docs

\* Two truth values make a document.
LEMMA DocMade ==
    ASSUME NEW b \in BOOLEAN, NEW n \in BOOLEAN
    PROVE  [body |-> b, notes |-> n] \in Docs
BY DEF Docs

\* What every message does beside its documents.
LEMMA Sending ==
    ASSUME IInv, NEW w \in Writers, NEW new, Message(w, new)
    PROVE  /\ jobs[w] \in Job /\ jobs[w] # Idle /\ jobs[w].pc = "message"
           /\ generation' = generation + 1
           /\ index' = IF index = None THEN None ELSE new
           /\ jobs' = [jobs EXCEPT ![w] = Idle] /\ owed' = OwedBut(w)
           /\ UNCHANGED <<rows, hidden, unused, contested, client>>
           /\ jobs[w].op \in {"capture", "edit", "annotate", "delete"}
                => /\ jobs[w].clip \in Clips /\ Owing(w) = {jobs[w].clip}
                   /\ index # None => Level(index) /\ index \in Table
<1>1. jobs[w] \in Job \cup {Idle}
  BY DEF IInv, JobsTyped
<1>2. jobs[w].op \in {"capture", "edit", "annotate", "delete"}
        => jobs[w].clip \in Clips /\ Owing(w) = {jobs[w].clip}
  BY <1>1, JobShape DEF Message, Owing
<1>3. index # None => Level(index) /\ index \in Table
  BY DEF IInv, IndexLevel, IndexTyped
<1> QED
  BY <1>1, <1>2, <1>3 DEF Message, database

\* The clip of a writer that sends, unless contested, is repaired by the message.
LEMMA Repairs ==
    ASSUME IInv, index # None, NEW w \in Writers,
           NEW c \in Owing(w) \ (Unreadable \cup contested), rows[c] # Gone
    PROVE  /\ Repaired(w, index, c) /\ rows[c] \in Docs
           /\ index[c] \in Docs \cup {Gone} /\ c \in Clips
<1>1. c \in owed /\ c \in Clips
  BY OwedJob DEF IInv, OwedByWriters, Writers
<1> QED
  BY <1>1 DEF IInv, IndexLevel, Level, RowsTyped, IndexTyped, Table, Doc

\* The message of a capture, and of an edit.
LEMMA UpsertSettles ==
    ASSUME IInv, NEW w \in Writers, jobs[w].op \in {"capture", "edit"},
           Message(w, Upsert(jobs[w].clip, jobs[w].body))
    PROVE  IInv'
<1> DEFINE k == jobs[w].clip
           b == jobs[w].body
<1>0. jobs[w].body \in BOOLEAN
  BY Sending, JobShape
<1>1. CASE index = None
  BY <1>1, Sending, MessageInv DEF Settled
<1>2. CASE index # None
  <2>1. /\ index' = Upsert(k, b) /\ k \in Clips /\ Owing(w) = {k}
        /\ index \in Table
    BY <1>2, Sending
  <2>2. Existing(k).notes \in BOOLEAN
    BY <2>1, Nothing DEF Existing, EmptyDoc, Table, Doc, Docs
  <2>3. /\ index' \in Table /\ index'[k] = [body |-> b, notes |-> Existing(k).notes]
        /\ \A c \in Clips \ {k} : index'[c] = index[c]
    BY <1>0, <2>1, <2>2, DocMade DEF Upsert, Table, Doc
  <2>4. ASSUME k \notin Unreadable \cup contested, rows[k] # Gone
        PROVE  index'[k] = rows[k]
    <3>1. /\ Repaired(w, index, k) /\ rows[k] \in Docs
      BY <1>2, <2>1, <2>4, Repairs
    <3>2. rows[k].body = b
      BY <3>1 DEF Repaired
    <3>3. Existing(k).notes = rows[k].notes
      <4>1. index[k] = rows[k] \/ (index[k] = Gone /\ rows[k].notes = FALSE)
              \/ (index[k] # Gone /\ index[k].notes = rows[k].notes)
        BY <3>1 DEF Repaired, Docs
      <4> QED
        BY <2>4, <4>1 DEF Existing, EmptyDoc
    <3> QED
      BY <2>3, <3>1, <3>2, <3>3, DocFields
  <2>5. Settled(w, index')
    BY <1>2, <2>1, <2>3, <2>4 DEF Settled
  <2> QED
    BY <1>2, <2>3, <2>5, Sending, MessageInv
<1> QED
  BY <1>1, <1>2

\* The message that notes, or the recognized text, have changed.
LEMMA AnnotateSettles == ASSUME IInv, AnnotateMessage PROVE IInv'
<1> DEFINE w == "user"
           k == jobs[w].clip
           n == jobs[w].notes
<1>0. w \in Writers /\ jobs[w].op = "annotate" /\ Message(w, UpdateNotes(k, n))
  BY DEF Writers, AnnotateMessage
<1> HIDE DEF w
<1>1. jobs[w].notes \in BOOLEAN
  BY <1>0, Sending, JobShape
<1>2. CASE index = None
  BY <1>0, <1>2, Sending, MessageInv DEF Settled
<1>3. CASE index # None
  <2>1. /\ index' = UpdateNotes(k, n) /\ k \in Clips /\ Owing(w) = {k}
        /\ index \in Table
    BY <1>0, <1>3, Sending
  <2>2. index[k] # Gone => index[k] \in Docs
    BY <2>1 DEF Table, Doc
  <2>3. /\ index' \in Table
        /\ index[k] # Gone => index'[k] = [index[k] EXCEPT !.notes = n]
        /\ \A c \in Clips \ {k} : index'[c] = index[c]
    BY <1>1, <2>1, <2>2 DEF UpdateNotes, Table, Doc, Docs
  <2>4. ASSUME k \notin Unreadable \cup contested, rows[k] # Gone
        PROVE  index'[k] = rows[k]
    <3>1. Repaired(w, index, k) /\ rows[k] \in Docs
      BY <1>0, <1>3, <2>1, <2>4, Repairs
    <3>2. index[k] # Gone /\ rows[k].notes = n /\ index[k].body = rows[k].body
      BY <1>0, <2>4, <3>1 DEF Repaired
    <3>3. index[k] \in Docs
      BY <2>2, <3>2
    <3>4. index'[k] \in Docs /\ index'[k].body = index[k].body /\ index'[k].notes = n
      BY <1>1, <2>3, <3>2, <3>3 DEF Docs
    <3> QED
      BY <3>1, <3>2, <3>4, DocFields
  <2>5. Settled(w, index')
    BY <1>3, <2>1, <2>3, <2>4 DEF Settled
  <2> QED
    BY <1>0, <1>3, <2>3, <2>5, Sending, MessageInv
<1> QED
  BY <1>2, <1>3

\* The message that a clip is gone.
LEMMA DeleteSettles == ASSUME IInv, DeleteMessage PROVE IInv'
<1> DEFINE w == "user"
           k == jobs[w].clip
<1>0. w \in Writers /\ jobs[w].op = "delete" /\ Message(w, RemoveDoc(k))
  BY DEF Writers, DeleteMessage
<1> HIDE DEF w
<1>1. CASE index = None
  BY <1>0, <1>1, Sending, MessageInv DEF Settled
<1>2. CASE index # None
  <2>1. /\ index' = RemoveDoc(k) /\ k \in Clips /\ Owing(w) = {k}
        /\ index \in Table
    BY <1>0, <1>2, Sending
  <2>2. index' \in Table /\ \A c \in Clips \ {k} : index'[c] = index[c]
    BY <2>1 DEF RemoveDoc, Table, Doc
  <2>3. k \in Unreadable \cup contested \/ rows[k] = Gone
    BY <1>0, <1>2, <2>1, Repairs DEF Repaired
  <2>4. Settled(w, index')
    BY <1>2, <2>1, <2>2, <2>3 DEF Settled
  <2> QED
    BY <1>0, <1>2, <2>2, <2>4, Sending, MessageInv
<1> QED
  BY <1>1, <1>2

\* The message that drops the index.
LEMMA InvalidateInv == ASSUME IInv, NEW w \in Writers, Invalidate(w) PROVE IInv'
BY Sending, MessageInv DEF Invalidate, Settled

----------------------------------------------------------------------------
(* Changes.                                                                *)

\* The step tells the reader nothing it could act on.
SameReader ==
    /\ DOMAIN client' = DOMAIN client
    /\ client'.pc = client.pc /\ client'.seen = client.seen
    /\ client'.snapshot = client.snapshot

\* A change disturbs the scan of the user, not the rebuild.
LEMMA DisturbSame ==
    ASSUME ClientTyped, NEW order, Disturb(order) \/ UNCHANGED client
    PROVE  SameReader
BY ReaderFields DEF Disturb, SameReader

\* Documents f know of clip c what the rows say, and nothing of a new one.
Knows(f, c) == /\ rows[c] # Gone => f[c] = rows[c]
               /\ c \in unused => f[c] = Gone

\* A writer that owed nothing changes the rows S and owes them.
LEMMA ChangeInv ==
    ASSUME IInv, NEW w \in Writers, NEW S \in SUBSET Clips, NEW j \in Job \cup {Idle},
           jobs' = [jobs EXCEPT ![w] = j],
           Owing(w) = {}, Owing(w)' = S,
           owed' = owed \cup S,
           contested \cup (S \cap owed) \subseteq contested', contested' \subseteq Clips,
           \A c \in Clips \ S : rows'[c] = rows[c],
           \A c \in S \ (Unreadable \cup contested') : rows'[c] # Gone =>
               /\ Done(w, c)'
               /\ \A f \in Table : Knows(f, c) => Repaired(w, f, c)',
           RowsTyped', unused' \subseteq unused, FreshOnce',
           index' = index, generation' = generation, SameReader
    PROVE  IInv'
<1>1. IndexTyped'
  BY DEF IInv, IndexTyped
<1>2. JobsTyped'
  BY DEF IInv, JobsTyped
<1>3. ClientTyped'
  BY DEF IInv, ClientTyped, SameReader
<1>4. \A v \in Writers \ {w} : Owing(v)' = Owing(v) /\ jobs'[v] = jobs[v]
  BY DEF IInv, JobsTyped, Owing
<1>5. OwedByWriters'
  BY <1>4 DEF IInv, OwedByWriters, Writers
<1>6. ASSUME NEW c \in Clips \ (Unreadable \cup contested'), rows'[c] # Gone,
             NEW v \in Writers, c \in Owing(v)'
      PROVE  Done(v, c)'
  <2>1. CASE v = w
    BY <1>6, <2>1
  <2>2. CASE v # w
    <3>1. c \in Owing(v) /\ jobs'[v] = jobs[v] /\ c \in owed
      BY <1>4, <1>6, <2>2 DEF IInv, OwedByWriters, Writers
    <3>2. c \notin S
      BY <1>6, <3>1
    <3>3. Done(v, c)
      BY <1>6, <3>1, <3>2 DEF IInv, Told
    <3> QED
      BY <3>1, <3>2, <3>3 DEF Done
  <2> QED
    BY <2>1, <2>2
<1>7. Told'
  BY <1>6 DEF Told
<1>8. ASSUME NEW f \in Table, Level(f), \A c \in unused : f[c] = Gone
      PROVE  Level(f)'
  <2> SUFFICES ASSUME NEW c \in Clips \ (Unreadable \cup contested'), rows'[c] # Gone
               PROVE  IF c \in owed' THEN \A v \in Writers : c \in Owing(v)' => Repaired(v, f, c)'
                      ELSE f[c] = rows'[c]
    BY DEF Level
  <2>1. CASE c \in S
    <3>1. c \notin owed /\ c \in owed'
      BY <2>1
    <3>2. Knows(f, c)
      BY <1>8, <3>1 DEF Level, Knows
    <3>3. Repaired(w, f, c)'
      BY <2>1, <3>2
    <3>4. \A v \in Writers \ {w} : c \notin Owing(v)'
      BY <1>4, <3>1 DEF IInv, OwedByWriters, Writers
    <3> QED
      BY <3>1, <3>3, <3>4
  <2>2. CASE c \notin S
    <3>1. rows'[c] = rows[c] /\ (c \in owed' <=> c \in owed) /\ c \notin contested
      BY <2>2
    <3>2. CASE c \notin owed
      BY <1>8, <3>1, <3>2 DEF Level
    <3>3. ASSUME c \in owed, NEW v \in Writers, c \in Owing(v)' PROVE Repaired(v, f, c)'
      <4>1. c \in Owing(v) /\ jobs'[v] = jobs[v]
        BY <1>4, <2>2, <3>3
      <4>2. Repaired(v, f, c)
        BY <1>8, <3>1, <3>3, <4>1 DEF Level
      <4> QED
        BY <3>1, <4>1, <4>2 DEF Repaired
    <3> QED
      BY <3>1, <3>2, <3>3
  <2> QED
    BY <2>1, <2>2
<1>9. IndexLevel'
  <2>1. ASSUME index' # None PROVE Level(index)'
    <3>1. PICK f \in Table : f = index
      BY <2>1 DEF IInv, IndexTyped
    <3>2. Level(f) /\ \A c \in unused : f[c] = Gone
      BY <2>1, <3>1 DEF IInv, IndexLevel, FreshOnce
    <3>3. Level(f)'
      BY <1>8, <3>2
    <3> QED
      BY <3>1, <3>3 DEF Level, Repaired
  <2>2. ASSUME client'.pc = "publish", client'.seen = generation'
        PROVE  Level(client.snapshot)'
    <3>1. PICK f \in Table : f = client.snapshot
      BY <2>2 DEF IInv, ClientTyped, SameReader
    <3>2. Level(f) /\ \A c \in unused : f[c] = Gone
      BY <2>2, <3>1, Nothing DEF IInv, IndexLevel, FreshOnce, SameReader
    <3>3. Level(f)'
      BY <1>8, <3>2
    <3> QED
      BY <3>1, <3>3 DEF Level, Repaired, SameReader
  <2> QED
    BY <2>1, <2>2 DEF IndexLevel
<1> QED
  BY <1>1, <1>2, <1>3, <1>5, <1>7, <1>9 DEF IInv

\* Looking a row up leaves everything but the job alone.
LEMMA LookUpInv ==
    ASSUME IInv, NEW c \in Clips, NEW b \in BOOLEAN, CaptureLookUp(c, b) \/ EditCheck(c, b)
    PROVE  IInv'
<1>1. ASSUME NEW w \in Writers, NEW j \in Job, j.pc = "write", j.op # "sweep",
             jobs[w] = Idle, jobs' = [jobs EXCEPT ![w] = j], FreshOnce',
             UNCHANGED <<rows, hidden, unused, index, generation, owed, contested, client>>
      PROVE  IInv'
  <2>1. Owing(w) = {} /\ Owing(w)' = {}
    <3>1. jobs'[w] = j /\ j # Idle
      BY <1>1, JobIsBusy DEF IInv, JobsTyped
    <3> QED
      BY <1>1, <3>1 DEF Owing
  <2>2. /\ RowsTyped' /\ SameReader
        /\ {} \in SUBSET Clips /\ j \in Job \cup {Idle}
        /\ owed' = owed \cup {} /\ unused' \subseteq unused
        /\ contested \cup ({} \cap owed) \subseteq contested' /\ contested' \subseteq Clips
        /\ \A d \in Clips \ {} : rows'[d] = rows[d]
        /\ index' = index /\ generation' = generation
    BY <1>1 DEF IInv, RowsTyped, JobsTyped, SameReader
  <2> QED
    BY <1>1, <2>1, <2>2, ChangeInv
<1>2. CASE CaptureLookUp(c, b)
  <2> DEFINE fresh == c \in unused
             j == [op |-> "capture", clip |-> c, body |-> b, new |-> fresh, pc |-> "write"]
  <2>1. /\ j \in Job /\ j.pc = "write" /\ j.op # "sweep" /\ "capture" \in Writers
        /\ jobs["capture"] = Idle /\ jobs' = [jobs EXCEPT !["capture"] = j]
        /\ UNCHANGED <<rows, hidden, unused, index, generation, owed, contested, client>>
    BY <1>2 DEF CaptureLookUp, Begin, Job, Writers, database
  <2>2. /\ jobs'["user"] = jobs["user"] /\ jobs'["capture"] = j
        /\ Owing("capture")' = {} /\ Owing("user")' = Owing("user")
    BY <2>1 DEF IInv, JobsTyped, Owing, Writers, Idle
  <2>3. jobs'["capture"].new <=> jobs'["capture"].clip \in unused
    <3>1. jobs'["capture"].new = fresh /\ jobs'["capture"].clip = c
      <4> HIDE DEF fresh
      <4> QED
        BY <2>2
    <3> QED
      BY <3>1, Zenon DEF fresh
  <2>4. FreshOnce'
    <3> HIDE DEF j
    <3> QED
      BY <2>1, <2>2, <2>3 DEF IInv, FreshOnce, Writers
  <2> QED
    BY <1>1, <2>1, <2>4
<1>3. CASE EditCheck(c, b)
  <2> DEFINE j == [op |-> "edit", clip |-> c, body |-> b, pc |-> "write"]
  <2>1. /\ j \in Job /\ j.pc = "write" /\ j.op # "sweep" /\ "user" \in Writers
        /\ jobs["user"] = Idle /\ jobs' = [jobs EXCEPT !["user"] = j]
        /\ UNCHANGED <<rows, hidden, unused, index, generation, owed, contested, client>>
        /\ rows[c] # Gone
    BY <1>3 DEF EditCheck, Begin, Job, Writers, database
  <2>2. /\ jobs'["capture"] = jobs["capture"] /\ jobs'["user"] = j
        /\ Owing("user")' = {} /\ Owing("capture")' = Owing("capture")
    BY <2>1 DEF IInv, JobsTyped, Owing, Writers, Idle
  <2>3. FreshOnce'
    BY <2>1, <2>2 DEF IInv, FreshOnce, Writers
  <2> QED
    BY <1>1, <2>1, <2>3
<1> QED
  BY <1>2, <1>3

\* A change of the notes.
LEMMA AnnotateInv ==
    ASSUME IInv, NEW c \in Clips, NEW n \in BOOLEAN, Annotate(c, n)
    PROVE  IInv'
<1> DEFINE j == [op |-> "annotate", clip |-> c, notes |-> n, pc |-> "message"]
<1>1. /\ j \in Job /\ "user" \in Writers /\ jobs["user"] = Idle
      /\ jobs' = [jobs EXCEPT !["user"] = j]
      /\ rows[c] # Gone /\ rows' = [rows EXCEPT ![c].notes = n]
      /\ owed' = owed \cup {c} /\ contested' = contested \cup ({c} \cap owed)
      /\ Disturb(FALSE)
      /\ UNCHANGED <<hidden, unused, index, generation>>
  BY DEF Annotate, Begin, Job, Writers, Owe
<1>2. SameReader
  BY <1>1, DisturbSame DEF IInv
<1>3. /\ jobs'["user"] = j /\ jobs'["capture"] = jobs["capture"]
      /\ Owing("user") = {} /\ Owing("user")' = {c} /\ Owing("capture")' = Owing("capture")
  BY <1>1 DEF IInv, JobsTyped, Owing, Writers, Idle
<1>4. rows[c] \in Docs
  BY <1>1 DEF IInv, RowsTyped, Table, Doc
<1>5. /\ rows' \in Table /\ \A d \in Clips \ {c} : rows'[d] = rows[d]
      /\ rows'[c].notes = n /\ rows'[c].body = rows[c].body
  BY <1>1, <1>4 DEF IInv, RowsTyped, Table, Doc, Docs
<1>6. RowsTyped'
  BY <1>1, <1>5 DEF IInv, RowsTyped
<1>7. c \notin unused
  BY <1>1 DEF IInv, FreshOnce
<1>8. FreshOnce'
  BY <1>1, <1>2, <1>3, <1>5, <1>7 DEF IInv, FreshOnce, RowsTyped, Writers, SameReader
<1>9. \A d \in {c} \ (Unreadable \cup contested') : rows'[d] # Gone =>
         /\ Done("user", d)'
         /\ \A f \in Table : Knows(f, d) => Repaired("user", f, d)'
  BY <1>1, <1>3, <1>5 DEF Done, Knows, Repaired
<1> QED
  <2>1. /\ j \in Job \cup {Idle} /\ {c} \in SUBSET Clips
        /\ contested \cup ({c} \cap owed) \subseteq contested' /\ contested' \subseteq Clips
        /\ unused' \subseteq unused /\ index' = index /\ generation' = generation
    BY <1>1 DEF IInv, JobsTyped
  <2> HIDE DEF j
  <2> QED
    BY <1>1, <1>2, <1>3, <1>5, <1>6, <1>8, <1>9, <2>1, ChangeInv

\* A change of the text.
LEMMA EditInv == ASSUME IInv, EditWrite PROVE IInv'
<1> DEFINE job == jobs["user"]
           c == job.clip
           j == [job EXCEPT !.pc = "message"]
<1>0. /\ job \in Job /\ job.op = "edit" /\ job.pc = "write" /\ "user" \in Writers
      /\ c \in Clips /\ job.body \in BOOLEAN
  BY JobShape DEF EditWrite, IInv, JobsTyped, Writers, Idle
<1>1. /\ jobs' = [jobs EXCEPT !["user"] = j] /\ j.body = job.body /\ j.op = "edit"
      /\ j.clip = c /\ j.pc = "message" /\ j \in Job
  BY <1>0 DEF EditWrite, IInv, JobsTyped, Job
<1>2. /\ owed' = owed \cup {c} /\ contested' = contested \cup ({c} \cap owed)
      /\ UNCHANGED <<hidden, unused, index, generation>>
  BY DEF EditWrite, Owe
<1>3. SameReader
  BY DisturbSame DEF EditWrite, IInv
<1>4. \/ rows[c] # Gone /\ rows' = [rows EXCEPT ![c].body = job.body]
      \/ rows[c] = Gone /\ rows' = rows
  BY DEF EditWrite
<1>5. /\ rows' \in Table /\ \A d \in Clips \ {c} : rows'[d] = rows[d]
      /\ rows[c] # Gone => rows'[c].notes = rows[c].notes /\ rows'[c].body = job.body
      /\ rows[c] = Gone => rows'[c] = Gone
  <2>1. rows[c] # Gone => rows[c] \in Docs
    BY <1>0 DEF IInv, RowsTyped, Table, Doc
  <2> QED
    BY <1>0, <1>4, <2>1 DEF IInv, RowsTyped, Table, Doc, Docs
<1>6. RowsTyped'
  BY <1>2, <1>5 DEF IInv, RowsTyped
<1> HIDE DEF j
<1>7. /\ jobs'["user"] = j /\ jobs'["capture"] = jobs["capture"]
      /\ Owing("user") = {} /\ Owing("user")' = {c} /\ Owing("capture")' = Owing("capture")
  BY <1>0, <1>1, JobIsBusy DEF IInv, JobsTyped, Owing, Writers
<1>8. c \notin unused
  BY <1>0 DEF IInv, FreshOnce
<1>9. FreshOnce'
  BY <1>1, <1>2, <1>3, <1>5, <1>7, <1>8 DEF IInv, FreshOnce, RowsTyped, Writers, SameReader
<1>10. \A d \in {c} \ (Unreadable \cup contested') : rows'[d] # Gone =>
          /\ Done("user", d)'
          /\ \A f \in Table : Knows(f, d) => Repaired("user", f, d)'
  BY <1>1, <1>5, <1>7 DEF Done, Knows, Repaired
<1> QED
  <2>1. /\ j \in Job \cup {Idle} /\ {c} \in SUBSET Clips
        /\ contested \cup ({c} \cap owed) \subseteq contested' /\ contested' \subseteq Clips
        /\ unused' \subseteq unused /\ index' = index /\ generation' = generation
    BY <1>0, <1>1, <1>2 DEF IInv, JobsTyped
  <2> QED
    BY <1>0, <1>1, <1>2, <1>3, <1>5, <1>6, <1>7, <1>9, <1>10, <2>1, ChangeInv

\* Rows that go are owed, and nothing has to be said of them.
LEMMA RemoveInv ==
    ASSUME IInv, NEW w \in Writers, NEW S \in SUBSET Clips, NEW j \in Job,
           w = "user", jobs[w] = Idle, jobs' = [jobs EXCEPT ![w] = j],
           (j.op = "delete" /\ S = {j.clip}) \/ (j.op = "sweep" /\ S = j.gone),
           j.pc = "message",
           \A c \in S : rows[c] # Gone,
           rows' \in Table, \A c \in S : rows'[c] = Gone,
           \A c \in Clips \ S : rows'[c] = rows[c],
           hidden' \in Table, \A c \in Clips : c \notin S => hidden'[c] \in {hidden[c], Gone},
           owed' = owed \cup S, contested' = contested \cup (S \cap owed),
           UNCHANGED <<unused, index, generation>>, SameReader
    PROVE  IInv'
<1>1. /\ jobs'["user"] = j /\ jobs'["capture"] = jobs["capture"]
      /\ Owing("user") = {} /\ Owing("user")' = S /\ Owing("capture")' = Owing("capture")
  BY JobIsBusy DEF IInv, JobsTyped, Owing, Writers
<1>2. RowsTyped'
  BY DEF IInv, RowsTyped
<1>3. S \cap unused = {}
  BY DEF IInv, FreshOnce
<1>4. FreshOnce'
  BY <1>1, <1>3 DEF IInv, FreshOnce, RowsTyped, Writers, SameReader
<1>5. /\ j \in Job \cup {Idle} /\ owed' = owed \cup S
      /\ contested \cup (S \cap owed) \subseteq contested' /\ contested' \subseteq Clips
      /\ unused' \subseteq unused /\ index' = index /\ generation' = generation
  BY DEF IInv, JobsTyped
<1>6. \A d \in S \ (Unreadable \cup contested') : rows'[d] # Gone =>
         /\ Done(w, d)'
         /\ \A f \in Table : Knows(f, d) => Repaired(w, f, d)'
  OBVIOUS
<1> QED
  BY <1>1, <1>2, <1>4, <1>5, <1>6, ChangeInv

\* One row goes.
LEMMA DeleteInv ==
    ASSUME IInv, NEW c \in Clips, NEW soft \in BOOLEAN, Delete(c, soft)
    PROVE  IInv'
<1> DEFINE j == [op |-> "delete", clip |-> c, pc |-> "message"]
           S == {c}
<1>1. /\ j \in Job /\ j.op = "delete" /\ S = {j.clip} /\ j.pc = "message"
      /\ "user" \in Writers /\ S \in SUBSET Clips
  BY DEF Job, Writers
<1>2. /\ jobs["user"] = Idle /\ jobs' = [jobs EXCEPT !["user"] = j]
      /\ owed' = owed \cup S /\ contested' = contested \cup (S \cap owed)
      /\ UNCHANGED <<unused, index, generation>>
      /\ \A d \in S : rows[d] # Gone
  BY DEF Delete, Begin, Owe
<1>3. SameReader
  BY DisturbSame DEF Delete, IInv
<1>4. /\ rows' \in Table /\ \A d \in S : rows'[d] = Gone
      /\ \A d \in Clips \ S : rows'[d] = rows[d]
  BY DEF Delete, IInv, RowsTyped, Table, Doc
<1>5. hidden' \in Table /\ \A d \in Clips : d \notin S => hidden'[d] \in {hidden[d], Gone}
  BY DEF Delete, IInv, RowsTyped, Table, Doc
<1> HIDE DEF j, S
<1> QED
  BY <1>1, <1>2, <1>3, <1>4, <1>5, RemoveInv

\* Many rows go.
LEMMA SweepInv ==
    ASSUME IInv, NEW S \in SUBSET Clips, Sweep(S)
    PROVE  IInv'
<1> DEFINE j == [op |-> "sweep", gone |-> S, pc |-> "message"]
<1>1. /\ j \in Job /\ j.op = "sweep" /\ S = j.gone /\ j.pc = "message" /\ "user" \in Writers
  BY DEF Job, Writers
<1>2. /\ jobs["user"] = Idle /\ jobs' = [jobs EXCEPT !["user"] = j]
      /\ owed' = owed \cup S /\ contested' = contested \cup (S \cap owed)
      /\ UNCHANGED <<unused, index, generation>>
      /\ \A d \in S : rows[d] # Gone
  BY DEF Sweep, Begin, Owe, Visible
<1>3. SameReader
  BY DisturbSame DEF Sweep, IInv
<1>4. /\ rows' \in Table /\ \A d \in S : rows'[d] = Gone
      /\ \A d \in Clips \ S : rows'[d] = rows[d]
  BY DEF Sweep, IInv, RowsTyped, Table, Doc
<1>5. hidden' \in Table /\ \A d \in Clips : d \notin S => hidden'[d] \in {hidden[d], Gone}
  BY DEF Sweep, IInv, RowsTyped, Table, Doc
<1> HIDE DEF j
<1> QED
  BY <1>1, <1>2, <1>3, <1>4, <1>5, RemoveInv

\* A capture writes its row.
LEMMA CaptureWriteInv == ASSUME IInv, CaptureWrite PROVE IInv'
<1> DEFINE job == jobs["capture"]
           c == job.clip
           j == [job EXCEPT !.pc = "formats"]
           row == IF job.new THEN [body |-> job.body, notes |-> FALSE]
                  ELSE IF rows[c] # Gone THEN rows[c] ELSE hidden[c]
           S == {c}
<1>0. /\ job \in Job /\ job.op = "capture" /\ job.pc = "write" /\ "capture" \in Writers
      /\ c \in Clips /\ job.body \in BOOLEAN /\ job.new \in BOOLEAN
  BY JobShape DEF CaptureWrite, IInv, JobsTyped, Writers, Idle
<1>1. /\ jobs' = [jobs EXCEPT !["capture"] = j] /\ j.body = job.body /\ j.op = "capture"
      /\ j.clip = c /\ j.pc = "formats" /\ j.new = job.new /\ j \in Job
  BY <1>0 DEF CaptureWrite, IInv, JobsTyped, Job
<1>2. /\ owed' = owed \cup S
      /\ contested' = contested \cup (S \cap owed)
           \cup (IF row = Gone \/ hidden[c] # Gone \/ row.body # job.body THEN S ELSE {})
      /\ rows' = [rows EXCEPT ![c] = row] /\ hidden' = [hidden EXCEPT ![c] = Gone]
      /\ unused' = unused \ {c} /\ UNCHANGED <<index, generation>>
  BY DEF CaptureWrite, Owe
<1>3. SameReader
  BY DisturbSame DEF CaptureWrite, IInv
<1>4. job.new <=> c \in unused
  BY <1>0 DEF IInv, FreshOnce
<1>5. row \in Doc /\ (job.new => row.notes = FALSE)
  BY <1>0, DocMade DEF IInv, RowsTyped, Table, Doc
<1>6. ~job.new /\ rows[c] # Gone => row = rows[c]
  OBVIOUS
<1>7. ~job.new /\ rows[c] = Gone => row = hidden[c]
  OBVIOUS
<1> HIDE DEF j, S, row
<1>8. /\ rows' \in Table /\ rows'[c] = row /\ \A d \in Clips \ S : rows'[d] = rows[d]
      /\ hidden' \in Table /\ \A d \in Clips : hidden'[d] \in {hidden[d], Gone}
  BY <1>0, <1>2, <1>5 DEF IInv, RowsTyped, Table, Doc, S
<1>9. RowsTyped'
  BY <1>2, <1>8 DEF IInv, RowsTyped
<1>10. /\ jobs'["capture"] = j /\ jobs'["user"] = jobs["user"]
       /\ Owing("capture") = {} /\ Owing("capture")' = S /\ Owing("user")' = Owing("user")
  BY <1>0, <1>1, JobIsBusy DEF IInv, JobsTyped, Owing, Writers, S
<1>11. FreshOnce'
  <2>1. \A d \in unused' : d \in unused /\ d \notin S /\ d \in Clips
    BY <1>2 DEF IInv, RowsTyped, S
  <2>2. \A d \in unused' : rows'[d] = Gone /\ hidden'[d] = Gone
    BY <1>8, <2>1 DEF IInv, FreshOnce
  <2> QED
    BY <1>1, <1>2, <1>3, <1>10, <2>1, <2>2 DEF IInv, FreshOnce, Writers, SameReader
<1>12. \A d \in S \ (Unreadable \cup contested') : rows'[d] # Gone =>
          /\ Done("capture", d)'
          /\ \A f \in Table : Knows(f, d) => Repaired("capture", f, d)'
  <2> SUFFICES ASSUME NEW d \in S \ (Unreadable \cup contested'), rows'[d] # Gone
               PROVE  /\ Done("capture", d)'
                      /\ \A f \in Table : Knows(f, d) => Repaired("capture", f, d)'
    OBVIOUS
  <2>0. d = c
    BY DEF S
  <2>1. row # Gone /\ hidden[d] = Gone /\ row.body = job.body
    BY <1>2, <2>0
  <2>2. Done("capture", d)'
    BY <1>1, <1>8, <1>10, <2>0, <2>1 DEF Done
  <2>3. ASSUME NEW f \in Table, Knows(f, d) PROVE Repaired("capture", f, d)'
    <3>1. CASE job.new
      BY <1>1, <1>4, <1>5, <1>8, <1>10, <2>0, <2>1, <2>3, <3>1 DEF Knows, Repaired
    <3>2. CASE ~job.new
      <4>1. f[d] = rows'[d]
        BY <1>6, <1>7, <1>8, <2>0, <2>1, <2>3, <3>2 DEF Knows
      <4> QED
        BY <1>1, <1>8, <1>10, <2>0, <2>1, <4>1 DEF Repaired
    <3> QED
      BY <3>1, <3>2
  <2> QED
    BY <2>2, <2>3
<1> QED
  <2>1. /\ j \in Job \cup {Idle} /\ S \in SUBSET Clips
        /\ contested \cup (S \cap owed) \subseteq contested' /\ contested' \subseteq Clips
        /\ unused' \subseteq unused /\ index' = index /\ generation' = generation
    BY <1>0, <1>1, <1>2 DEF IInv, JobsTyped, S
  <2> QED
    BY <1>0, <1>1, <1>2, <1>3, <1>8, <1>9, <1>10, <1>11, <1>12, <2>1, ChangeInv

----------------------------------------------------------------------------
(* Steps that bring no new debt.                                           *)

\* The capture goes on to a job that owes what it owed, or rows it has removed since,
\* or nothing where the documents say what the row says already.
LEMMA CaptureGoesOn ==
    ASSUME IInv, NEW j \in Job \cup {Idle}, NEW S \in SUBSET Clips,
           jobs' = [jobs EXCEPT !["capture"] = j],
           Owing("capture")' = S,
           owed' = S \cup Owing("user"),
           contested' = contested \cup ((S \ Owing("capture")) \cap owed),
           \A c \in Clips : rows'[c] = rows[c] \/ rows'[c] = Gone,
           \A c \in Clips \ (Unreadable \cup contested') : rows'[c] # Gone =>
              \/ /\ c \in S => c \in Owing("capture") /\ Done("capture", c)'
                 /\ \A f \in Table : Repaired("capture", f, c) =>
                       IF c \in S THEN Repaired("capture", f, c)' ELSE f[c] = rows[c]
              \/ c \notin S /\ c \notin Owing("capture"),
           RowsTyped', UNCHANGED unused, FreshOnce',
           index' = index, generation' = generation, SameReader
    PROVE  IInv'
<1>1. IndexTyped'
  BY DEF IInv, IndexTyped
<1>2. /\ Owing("user")' = Owing("user") /\ jobs'["user"] = jobs["user"]
      /\ owed = Owing("capture") \cup Owing("user")
      /\ Owing("user") \subseteq Clips
  BY DEF IInv, JobsTyped, Owing, Writers, OwedByWriters
<1>3. JobsTyped'
  BY <1>2 DEF IInv, JobsTyped
<1>4. ClientTyped'
  BY DEF IInv, ClientTyped, SameReader
<1>5. OwedByWriters'
  BY <1>2 DEF IInv, OwedByWriters
<1>6. Told'
  <2> SUFFICES ASSUME NEW c \in Clips \ (Unreadable \cup contested'), rows'[c] # Gone,
                      NEW v \in Writers, c \in Owing(v)'
               PROVE  Done(v, c)'
    BY DEF Told
  <2>1. CASE v = "capture"
    BY <2>1
  <2>2. CASE v = "user"
    <3>1. Done(v, c) /\ rows'[c] = rows[c]
      BY <1>2, <2>2 DEF IInv, Told
    <3> QED
      BY <1>2, <2>2, <3>1 DEF Done
  <2> QED
    BY <2>1, <2>2 DEF Writers
<1>7. ASSUME NEW f \in Table, Level(f) PROVE Level(f)'
  <2> SUFFICES ASSUME NEW c \in Clips \ (Unreadable \cup contested'), rows'[c] # Gone
               PROVE  IF c \in owed' THEN \A v \in Writers : c \in Owing(v)' => Repaired(v, f, c)'
                      ELSE f[c] = rows'[c]
    BY DEF Level
  <2>0. rows'[c] = rows[c] /\ rows[c] # Gone /\ c \notin contested
    OBVIOUS
  <2>1. CASE c \in Owing("user")
    <3>1. c \notin Owing("capture")' /\ c \in owed'
      BY <1>2, <2>0, <2>1 DEF IInv, OwedByWriters
    <3>2. Repaired("user", f, c)
      BY <1>2, <1>7, <2>0, <2>1 DEF Level, Writers
    <3>3. Repaired("user", f, c)'
      BY <1>2, <2>0, <3>2 DEF Repaired
    <3> QED
      BY <3>1, <3>3 DEF Writers
  <2>2. CASE c \notin Owing("user")
    <3>1. c \in Owing("capture") => Repaired("capture", f, c)
      BY <1>2, <1>7, <2>0 DEF Level, Writers
    <3>2. c \notin Owing("capture") => f[c] = rows[c]
      BY <1>2, <1>7, <2>0, <2>2 DEF Level
    <3>3. CASE c \in S
      BY <1>2, <2>2, <3>1, <3>3 DEF Writers
    <3>4. CASE c \notin S
      BY <1>2, <2>0, <2>2, <3>1, <3>2, <3>4
    <3> QED
      BY <3>3, <3>4
  <2> QED
    BY <2>1, <2>2
<1>8. IndexLevel'
  <2>1. ASSUME index' # None PROVE Level(index)'
    <3>1. PICK f \in Table : f = index
      BY <2>1 DEF IInv, IndexTyped
    <3>2. Level(f)'
      BY <1>7, <2>1, <3>1 DEF IInv, IndexLevel
    <3> QED
      BY <3>1, <3>2 DEF Level, Repaired
  <2>2. ASSUME client'.pc = "publish", client'.seen = generation'
        PROVE  Level(client.snapshot)'
    <3>1. PICK f \in Table : f = client.snapshot
      BY <2>2 DEF IInv, ClientTyped, SameReader
    <3>2. Level(f)'
      BY <1>7, <2>2, <3>1 DEF IInv, IndexLevel, SameReader
    <3> QED
      BY <3>1, <3>2 DEF Level, Repaired, SameReader
  <2> QED
    BY <2>1, <2>2 DEF IndexLevel
<1> QED
  BY <1>1, <1>3, <1>4, <1>5, <1>6, <1>8 DEF IInv

\* The formats of a capture are stored.
LEMMA FormatsInv == ASSUME IInv, CaptureFormats PROVE IInv'
<1> DEFINE job == jobs["capture"]
           j == [job EXCEPT !.pc = "message"]
           S == {job.clip}
<1>0. /\ job \in Job /\ job.op = "capture" /\ job.pc = "formats" /\ job.clip \in Clips
  BY JobShape DEF CaptureFormats, IInv, JobsTyped, Writers, Idle
<1>1. /\ jobs' = [jobs EXCEPT !["capture"] = j] /\ j.body = job.body /\ j.op = "capture"
      /\ j.clip = job.clip /\ j.pc = "message" /\ j.new = job.new /\ j \in Job
      /\ UNCHANGED <<rows, hidden, unused, index, generation, owed, contested, client>>
  BY <1>0 DEF CaptureFormats, IInv, JobsTyped, Job, database
<1> HIDE DEF j, S
<1>2. /\ jobs'["capture"] = j /\ jobs'["user"] = jobs["user"] /\ owed = S \cup Owing("user")
      /\ Owing("capture") = S /\ Owing("capture")' = S /\ Owing("user")' = Owing("user")
  BY <1>0, <1>1, JobIsBusy DEF IInv, JobsTyped, Owing, Writers, S, OwedByWriters
<1>3. /\ RowsTyped' /\ SameReader /\ S \in SUBSET Clips /\ j \in Job \cup {Idle}
      /\ owed' = S \cup Owing("user")
      /\ contested' = contested \cup ((S \ Owing("capture")) \cap owed)
      /\ \A c \in Clips : rows'[c] = rows[c] \/ rows'[c] = Gone
      /\ UNCHANGED unused /\ index' = index /\ generation' = generation
  BY <1>0, <1>1, <1>2 DEF IInv, RowsTyped, SameReader, S
<1>4. FreshOnce'
  BY <1>1, <1>2 DEF IInv, FreshOnce, Writers
<1>5. \A c \in Clips \ (Unreadable \cup contested') : rows'[c] # Gone =>
              \/ /\ c \in S => c \in Owing("capture") /\ Done("capture", c)'
                 /\ \A f \in Table : Repaired("capture", f, c) =>
                       IF c \in S THEN Repaired("capture", f, c)' ELSE f[c] = rows[c]
              \/ c \notin S /\ c \notin Owing("capture")
  <2> SUFFICES ASSUME NEW c \in Clips \ (Unreadable \cup contested'), rows'[c] # Gone,
                      c \in S
               PROVE  /\ Done("capture", c)'
                      /\ \A f \in Table : Repaired("capture", f, c) => Repaired("capture", f, c)'
    BY <1>2
  <2>1. Done("capture", c)
    BY <1>1, <1>2 DEF IInv, Told, Writers
  <2>2. Done("capture", c)'
    BY <1>0, <1>1, <1>2, <2>1 DEF Done
  <2>3. ASSUME NEW f \in Table, Repaired("capture", f, c) PROVE Repaired("capture", f, c)'
    BY <1>0, <1>1, <1>2, <2>3 DEF Repaired
  <2> QED
    BY <2>2, <2>3
<1> QED
  BY <1>1, <1>2, <1>3, <1>4, <1>5, CaptureGoesOn

\* A capture whose formats could not be stored gives up.
LEMMA RollBackInv == ASSUME IInv, CaptureRollBack PROVE IInv'
<1> DEFINE job == jobs["capture"]
           S == {}
<1>0. /\ job \in Job /\ job.op = "capture" /\ job.pc = "formats" /\ job.clip \in Clips
  BY JobShape DEF CaptureRollBack, IInv, JobsTyped, Writers, Idle
<1>1. /\ jobs' = [jobs EXCEPT !["capture"] = Idle] /\ owed' = Owing("user")
      /\ UNCHANGED <<hidden, unused, index, generation, contested>>
      /\ \/ job.new /\ rows' = [rows EXCEPT ![job.clip] = Gone]
         \/ ~job.new /\ rows' = rows
  BY OtherDebt DEF CaptureRollBack
<1>2. SameReader
  BY DisturbSame DEF CaptureRollBack, IInv
<1>3. /\ jobs'["capture"] = Idle /\ jobs'["user"] = jobs["user"]
      /\ Owing("capture") = {job.clip} /\ Owing("capture")' = S
      /\ Owing("user")' = Owing("user")
  BY <1>0, <1>1, JobIsBusy DEF IInv, JobsTyped, Owing, Writers
<1>4. /\ rows' \in Table /\ \A c \in Clips : rows'[c] = rows[c] \/ rows'[c] = Gone
      /\ job.new => rows'[job.clip] = Gone
  BY <1>0, <1>1 DEF IInv, RowsTyped, Table, Doc
<1>5. /\ RowsTyped' /\ S \in SUBSET Clips /\ Idle \in Job \cup {Idle}
      /\ owed' = S \cup Owing("user")
      /\ contested' = contested \cup ((S \ Owing("capture")) \cap owed)
      /\ UNCHANGED unused /\ index' = index /\ generation' = generation
  BY <1>1, <1>4 DEF IInv, RowsTyped
<1>6. FreshOnce'
  BY <1>1, <1>2, <1>3, <1>4 DEF IInv, FreshOnce, RowsTyped, Writers, Idle, SameReader
<1>7. \A c \in Clips \ (Unreadable \cup contested') : rows'[c] # Gone =>
              \/ /\ c \in S => c \in Owing("capture") /\ Done("capture", c)'
                 /\ \A f \in Table : Repaired("capture", f, c) =>
                       IF c \in S THEN Repaired("capture", f, c)' ELSE f[c] = rows[c]
              \/ c \notin S /\ c \notin Owing("capture")
  BY <1>0, <1>3, <1>4 DEF Repaired
<1> HIDE DEF S
<1> QED
  BY <1>1, <1>2, <1>3, <1>4, <1>5, <1>6, <1>7, CaptureGoesOn

\* The retention that follows a capture.
LEMMA RetentionInv ==
    ASSUME IInv, NEW T \in SUBSET Clips, CaptureRetention(T)
    PROVE  IInv'
<1> DEFINE job == jobs["capture"]
           S == T \cup {job.clip}
           j == [op |-> "sweep", gone |-> S, pc |-> "message"]
<1>0. /\ job \in Job /\ job.op = "capture" /\ job.pc = "message" /\ job.clip \in Clips
      /\ job.clip \notin T /\ \A c \in T : rows[c] # Gone
  BY JobShape DEF CaptureRetention, IInv, JobsTyped, Writers, Idle, Visible
<1>1. /\ jobs' = [jobs EXCEPT !["capture"] = j]
      /\ owed' = owed \cup T /\ contested' = contested \cup (T \cap owed)
      /\ UNCHANGED <<unused, index, generation>>
      /\ rows' = [c \in Clips |-> IF c \in T THEN Gone ELSE rows[c]]
      /\ hidden' = [c \in Clips |-> Gone]
  BY DEF CaptureRetention, Owe
<1>2. SameReader
  BY DisturbSame DEF CaptureRetention, IInv
<1>3. j \in Job /\ j.op = "sweep" /\ j.gone = S /\ j.pc = "message" /\ S \in SUBSET Clips
  BY <1>0 DEF Job
<1> HIDE DEF j, S
<1>4. /\ jobs'["capture"] = j /\ jobs'["user"] = jobs["user"]
      /\ Owing("capture") = {job.clip} /\ Owing("capture")' = S
      /\ Owing("user")' = Owing("user")
  BY <1>0, <1>1, <1>3, JobIsBusy DEF IInv, JobsTyped, Owing, Writers
<1>5. /\ rows' \in Table /\ \A c \in Clips : rows'[c] = rows[c] \/ rows'[c] = Gone
      /\ hidden' \in Table /\ \A c \in Clips : hidden'[c] = Gone
      /\ \A c \in T : rows'[c] = Gone
  BY <1>1 DEF IInv, RowsTyped, Table, Doc
<1>6. /\ RowsTyped' /\ j \in Job \cup {Idle}
      /\ owed' = S \cup Owing("user")
      /\ contested' = contested \cup ((S \ Owing("capture")) \cap owed)
      /\ UNCHANGED unused /\ index' = index /\ generation' = generation
  BY <1>0, <1>1, <1>3, <1>4, <1>5 DEF IInv, RowsTyped, OwedByWriters, S
<1>7. FreshOnce'
  <2>1. S \cap unused = {}
    BY <1>0, <1>4 DEF IInv, FreshOnce, Writers, S
  <2> QED
    BY <1>1, <1>2, <1>3, <1>4, <1>5, <2>1 DEF IInv, FreshOnce, RowsTyped, Writers, SameReader
<1>8. \A c \in Clips \ (Unreadable \cup contested') : rows'[c] # Gone =>
              \/ /\ c \in S => c \in Owing("capture") /\ Done("capture", c)'
                 /\ \A f \in Table : Repaired("capture", f, c) =>
                       IF c \in S THEN Repaired("capture", f, c)' ELSE f[c] = rows[c]
              \/ c \notin S /\ c \notin Owing("capture")
  BY <1>3, <1>4, <1>5 DEF Repaired, Done, S
<1> QED
  BY <1>1, <1>2, <1>3, <1>4, <1>5, <1>6, <1>7, <1>8, CaptureGoesOn

\* Steps that touch neither a row nor a message.
LEMMA AsideInv ==
    ASSUME IInv, SameReader,
           UNCHANGED <<rows, hidden, unused, index, generation, jobs, owed, contested>>
    PROVE  IInv'
<1>1. \A w \in Writers : Owing(w)' = Owing(w)
  BY DEF Owing
<1>2. RowsTyped' /\ IndexTyped' /\ JobsTyped' /\ ClientTyped'
  BY DEF IInv, RowsTyped, IndexTyped, JobsTyped, ClientTyped, SameReader
<1>3. OwedByWriters' /\ FreshOnce'
  BY <1>1 DEF IInv, OwedByWriters, FreshOnce, SameReader, Writers
<1>4. Told' /\ IndexLevel'
  BY <1>1 DEF IInv, Told, Done, IndexLevel, Level, Repaired, SameReader
<1> QED
  BY <1>2, <1>3, <1>4 DEF IInv

\* Only the order of the rows changes.
LEMMA OrderInv ==
    ASSUME IInv, NEW c \in Clips, Use(c) \/ Pin(c)
    PROVE  IInv'
BY AsideInv, DisturbSame DEF Use, Pin, IInv

----------------------------------------------------------------------------
(* All steps together.                                                     *)

\* Every step keeps the invariant.
LEMMA NextInv == ASSUME IInv, [Next]_vars PROVE IInv'
<1>1. CASE ReaderStep
  BY <1>1, ReaderStepInv, SelectInv, PublishInv DEF ReaderStep
<1>2. CASE CaptureStep
  <2>1. CASE CaptureMessage
    BY <2>1, UpsertSettles DEF CaptureMessage, Writers
  <2>2. CASE Invalidate("capture")
    BY <2>2, InvalidateInv DEF Writers
  <2> QED
    BY <1>2, <2>1, <2>2, CaptureWriteInv, FormatsInv, RollBackInv DEF CaptureStep
<1>3. CASE UserStep
  <2>1. CASE EditMessage
    BY <2>1, UpsertSettles DEF EditMessage, Writers
  <2>2. CASE Invalidate("user")
    BY <2>2, InvalidateInv DEF Writers
  <2> QED
    BY <1>3, <2>1, <2>2, EditInv, AnnotateSettles, DeleteSettles DEF UserStep
<1>4. CASE \E S \in SUBSET Clips : Sweep(S) \/ CaptureRetention(S)
  BY <1>4, SweepInv, RetentionInv
<1>5. CASE \E c \in Clips :
            \/ \E b \in BOOLEAN :
                  CaptureLookUp(c, b) \/ EditCheck(c, b) \/ Annotate(c, b) \/ Delete(c, b)
            \/ Use(c) \/ Pin(c)
  BY <1>5, LookUpInv, AnnotateInv, DeleteInv, OrderInv
<1>6. CASE (\E mode \in {"list", "search"} : Open(mode)) \/ NextPage
  BY <1>6, ReaderStepInv
<1>7. CASE UNCHANGED vars
  BY <1>7, AsideInv DEF vars, SameReader
<1> QED
  BY <1>1, <1>2, <1>3, <1>4, <1>5, <1>6, <1>7 DEF Next

\* The invariant holds in every state the index, its writers and its readers reach.
THEOREM Invariant == Spec => []IInv
BY InitInv, NextInv, PTL DEF Spec

\* A row nobody is busy with is found by what it says: no message is lost to a rebuild
\* (search_index.rs, ensure_ready).
THEOREM SettledRows == Spec => []SettledRowsAreFound
<1>1. IInv => SettledRowsAreFound
  BY DEF IInv, IndexLevel, Level, SettledRowsAreFound, Visible
<1> QED
  BY <1>1, Invariant, PTL

----------------------------------------------------------------------------
(* The refinement.  Each step of the index is one of the view, or none.    *)

\* A table without its unreadable rows is a table, and there is one.
LEMMA ReadableTable ==
    ASSUME NEW f \in Table
    PROVE  /\ Readable(f) \in Table /\ Readable(f) # None
           /\ \A c \in Clips : Readable(f)[c] = IF c \in Unreadable THEN Gone ELSE f[c]
BY Nothing DEF Readable, Table, Doc

\* Nothing the view speaks of.
LEMMA Stutters ==
    ASSUME UNCHANGED <<rows, index, owed, contested>>
    PROVE  UNCHANGED View!viewVars
BY DEF View!viewVars, Readable

\* A change that is owed is a change of the view.
LEMMA Changes ==
    ASSUME IInv, rows' \in Table, NEW S \in SUBSET Clips,
           \A c \in Clips \ S : rows'[c] = rows[c],
           owed' = owed \cup S,
           contested \cup (S \cap owed) \subseteq contested',
           contested' \subseteq contested \cup S,
           index' = index
    PROVE  View!Next
<1>1. Readable(rows)' \in Table
  BY ReadableTable DEF Readable
<1>2. \A c \in Clips \ S : Readable(rows)'[c] = Readable(rows)[c]
  BY DEF Readable
<1>3. View!Change(S)
  BY <1>1, <1>2 DEF View!Change, Readable, Table, Doc, IInv, JobsTyped
<1> QED
  BY <1>3 DEF View!Next

\* The debt of a writer that has sent its message, or given up.
LEMMA LessOwed ==
    ASSUME IInv, NEW w \in Writers, owed' = OwedBut(w)
    PROVE  owed' \subseteq owed /\ owed \ owed' \subseteq Owing(w)
BY OtherDebt DEF IInv, OwedByWriters, Writers

\* A message about one clip tells the view of it.
LEMMA Tells ==
    ASSUME IInv, IInv', NEW w \in Writers, NEW c \in Clips, Owing(w) = {c},
           UNCHANGED <<rows, contested>>, owed' = OwedBut(w),
           index = None => index' = None,
           index # None => index' \in Table /\ \A d \in Clips \ {c} : index'[d] = index[d]
    PROVE  View!Next
<1> DEFINE view == IF index = None THEN None ELSE Readable(index)
           more == c \in owed'
<1>1. owed' = IF more THEN owed ELSE owed \ {c}
  BY LessOwed
<1>2. index # None => index \in Table
  BY DEF IInv, IndexTyped
<1>3. view' \in IF view = None THEN {None}
                ELSE { [view EXCEPT ![c] = d] : d \in Docs \cup {Gone} }
  <2>1. CASE index = None
    BY <2>1
  <2>2. CASE index # None
    <3>1. index' # None /\ view' = Readable(index)' /\ view = Readable(index) /\ view # None
      BY <1>2, <2>2, Nothing, ReadableTable
    <3>2. /\ view \in Table /\ view' \in Table
          /\ \A d \in Clips \ {c} : view'[d] = view[d]
      BY <1>2, <2>2, <3>1, ReadableTable DEF Readable, Table, Doc
    <3>3. view' = [view EXCEPT ![c] = view'[c]] /\ view'[c] \in Docs \cup {Gone}
      BY <3>2 DEF Table, Doc
    <3> QED
      BY <3>1, <3>3
  <2> QED
    BY <2>1, <2>2
<1>4. c \notin owed' \cup contested /\ view # None /\ Readable(rows)[c] # Gone
        => view'[c] = Readable(rows)[c]
  <2> SUFFICES ASSUME c \notin owed' \cup contested, view # None, Readable(rows)[c] # Gone
               PROVE  view'[c] = Readable(rows)[c]
    OBVIOUS
  <2>1. index # None /\ index' # None /\ index' \in Table
    BY Nothing
  <2>2. c \notin Unreadable /\ rows[c] # Gone /\ Readable(rows)[c] = rows[c]
    BY DEF Readable
  <2>3. index'[c] = rows[c]
    BY <2>1, <2>2 DEF IInv, IndexLevel, Level
  <2> QED
    BY <2>1, <2>2, <2>3 DEF Readable
<1>5. UNCHANGED <<Readable(rows), contested>>
  BY DEF Readable
<1>6. View!Tell(c, more)
  BY <1>1, <1>3, <1>4, <1>5 DEF View!Tell
<1>7. more \in BOOLEAN
  OBVIOUS
<1> HIDE DEF more
<1> QED
  BY <1>6, <1>7 DEF View!Next

\* The same, from what a message is.
LEMMA MessageTells ==
    ASSUME IInv, IInv', NEW w \in Writers, NEW new, Message(w, new),
           jobs[w].op \in {"capture", "edit", "annotate", "delete"},
           index # None => new \in Table /\ \A d \in Clips \ {jobs[w].clip} : new[d] = index[d]
    PROVE  View!Next
<1>1. PICK c \in Clips : c = jobs[w].clip
  BY Sending
<1>2. /\ Owing(w) = {c} /\ UNCHANGED <<rows, contested>> /\ owed' = OwedBut(w)
      /\ index' = IF index = None THEN None ELSE new
  BY <1>1, Sending
<1> QED
  BY <1>1, <1>2, Tells

\* Each message to the index is one to the view.
LEMMA MessageMaps ==
    ASSUME IInv, IInv', CaptureMessage \/ EditMessage \/ AnnotateMessage \/ DeleteMessage
    PROVE  View!Next
<1>0. index # None => index \in Table
  BY DEF IInv, IndexTyped
<1>1. ASSUME NEW w \in Writers, jobs[w].op \in {"capture", "edit"},
             Message(w, Upsert(jobs[w].clip, jobs[w].body))
      PROVE  View!Next
  <2>1. ASSUME index # None
        PROVE  /\ Upsert(jobs[w].clip, jobs[w].body) \in Table
               /\ \A d \in Clips \ {jobs[w].clip} :
                     Upsert(jobs[w].clip, jobs[w].body)[d] = index[d]
    <3>1. index' = Upsert(jobs[w].clip, jobs[w].body) /\ jobs[w].clip \in Clips
      BY <1>1, <2>1, Sending
    <3>2. index' \in Table
      <4>1. jobs[w].body \in BOOLEAN
        BY <1>1, Sending, JobShape
      <4>2. Existing(jobs[w].clip).notes \in BOOLEAN
        BY <1>0, <2>1, <3>1, Nothing DEF Existing, EmptyDoc, Table, Doc, Docs
      <4>3. [body |-> jobs[w].body, notes |-> Existing(jobs[w].clip).notes] \in Docs
        BY <4>1, <4>2, DocMade
      <4> QED
        BY <1>0, <2>1, <3>1, <4>3 DEF Upsert, Table, Doc
    <3>3. \A d \in Clips \ {jobs[w].clip} : index'[d] = index[d]
      BY <1>0, <2>1, <3>1 DEF Upsert, Table
    <3> QED
      BY <3>1, <3>2, <3>3
  <2> QED
    BY <1>1, <2>1, MessageTells
<1>2. CASE CaptureMessage
  BY <1>1, <1>2 DEF CaptureMessage, Writers
<1>3. CASE EditMessage
  BY <1>1, <1>3 DEF EditMessage, Writers
<1>4. CASE AnnotateMessage
  <2> DEFINE k == jobs["user"].clip
             new == UpdateNotes(k, jobs["user"].notes)
  <2>1. "user" \in Writers /\ jobs["user"].op = "annotate" /\ Message("user", new)
    BY <1>4 DEF AnnotateMessage, Writers
  <2>2. jobs["user"].notes \in BOOLEAN /\ k \in Clips
    BY <2>1, Sending, JobShape
  <2>3. index # None => new \in Table /\ \A d \in Clips \ {k} : new[d] = index[d]
    BY <1>0, <2>2 DEF UpdateNotes, Table, Doc, Docs
  <2> HIDE DEF new
  <2> QED
    BY <2>1, <2>3, MessageTells
<1>5. CASE DeleteMessage
  <2> DEFINE k == jobs["user"].clip
             new == RemoveDoc(k)
  <2>1. "user" \in Writers /\ jobs["user"].op = "delete" /\ Message("user", new)
    BY <1>5 DEF DeleteMessage, Writers
  <2>2. index # None => new \in Table /\ \A d \in Clips \ {k} : new[d] = index[d]
    BY <1>0 DEF RemoveDoc, Table, Doc
  <2> HIDE DEF new
  <2> QED
    BY <2>1, <2>2, MessageTells
<1> QED
  BY <1>2, <1>3, <1>4, <1>5

\* Dropping the index drops the view.
LEMMA InvalidateMaps ==
    ASSUME IInv, NEW w \in Writers, Invalidate(w)
    PROVE  View!Next
<1>1. index' = None /\ owed' = OwedBut(w) /\ UNCHANGED <<rows, contested>>
  BY Sending DEF Invalidate
<1>2. Owing(w) \in SUBSET Clips
  BY DEF IInv, OwedByWriters, JobsTyped, Writers
<1>3. View!Drop(Owing(w))
  BY <1>1, LessOwed DEF View!Drop, Readable
<1> QED
  BY <1>2, <1>3 DEF View!Next

\* A capture that gives up gives its change up.
LEMMA RollBackMaps ==
    ASSUME IInv, IInv', CaptureRollBack
    PROVE  View!Next
<1>0. /\ jobs["capture"] \in Job /\ jobs["capture"].op = "capture"
      /\ jobs["capture"].pc = "formats" /\ jobs["capture"].clip \in Clips
  BY JobShape DEF CaptureRollBack, IInv, JobsTyped, Writers, Idle
<1>1. PICK c \in Clips : c = jobs["capture"].clip
  BY <1>0
<1>2. Owing("capture") = {c}
  BY <1>0, <1>1, JobIsBusy DEF Owing
<1>3. /\ rows' = [rows EXCEPT ![c] = Gone] \/ rows' = rows
      /\ owed' = OwedBut("capture") /\ UNCHANGED <<index, contested>>
  BY <1>1 DEF CaptureRollBack
<1>4. owed' \in {owed, owed \ {c}}
  BY <1>2, <1>3, LessOwed DEF Writers
<1>5. Readable(rows)' \in {Readable(rows), [Readable(rows) EXCEPT ![c] = Gone]}
  BY <1>3 DEF Readable, IInv, RowsTyped, Table
<1>6. c \notin owed' \cup contested /\ index # None /\ Readable(rows)'[c] # Gone
        => Readable(index)[c] = Readable(rows)'[c]
  BY <1>3 DEF IInv, IndexLevel, Level, Readable
<1>7. View!GiveUp(c)
  BY <1>3, <1>4, <1>5, <1>6 DEF View!GiveUp, Readable
<1> QED
  BY <1>7 DEF View!Next

\* The publication of a rebuild fills the view in one step.
LEMMA PublishMaps ==
    ASSUME IInv, IInv', Publish
    PROVE  View!Next \/ UNCHANGED View!viewVars
<1>1. CASE generation # client.seen
  BY <1>1, Stutters DEF Publish, database
<1>2. CASE generation = client.seen
  <2>1. /\ index' = client.snapshot /\ contested' \subseteq contested
        /\ UNCHANGED <<rows, owed>> /\ client.pc = "publish"
    BY <1>2 DEF Publish, database, Reader
  <2>2. index = None /\ index' # None /\ index' \in Table
    BY <2>1 DEF IInv, ClientTyped
  <2>3. Readable(index)' \in Table
    BY <2>2, ReadableTable DEF Readable
  <2>4. ASSUME NEW c \in Clips \ (owed \cup contested'), Readable(rows)[c] # Gone
        PROVE  Readable(index)'[c] = Readable(rows)[c]
    BY <2>1, <2>2, <2>4 DEF Readable, IInv, IndexLevel, Level
  <2>5. View!Fill
    BY <2>1, <2>2, <2>3, <2>4 DEF View!Fill, Readable, Table, Doc
  <2> QED
    BY <2>5 DEF View!Next
<1> QED
  BY <1>1, <1>2

\* Every step is one of the view, or changes nothing it speaks of.
LEMMA NextMaps ==
    ASSUME IInv, IInv', [Next]_vars
    PROVE  [View!Next]_(View!viewVars)
<1>0. rows' \in Table
  BY DEF IInv, RowsTyped
<1>1. CASE ReaderStep
  BY <1>1, PublishMaps, Stutters DEF ReaderStep, LoadGeneration, SelectRows, Match, Order,
       Fetch, NotReader, database
<1>2. CASE CaptureStep
  <2>1. CASE CaptureWrite
    <3>1. PICK c \in Clips : c = jobs["capture"].clip
      BY <2>1, JobShape DEF CaptureWrite, IInv, JobsTyped, Writers
    <3>2. /\ \A d \in Clips \ {c} : rows'[d] = rows[d]
          /\ owed' = owed \cup {c} /\ contested \cup ({c} \cap owed) \subseteq contested'
          /\ contested' \subseteq contested \cup {c} /\ index' = index
      BY <2>1, <3>1 DEF CaptureWrite, Owe, IInv, RowsTyped, Table
    <3> QED
      BY <1>0, <3>2, Changes
  <2>2. CASE CaptureFormats
    BY <2>2, Stutters DEF CaptureFormats, database
  <2>3. CASE CaptureRollBack \/ CaptureMessage \/ Invalidate("capture")
    BY <2>3, RollBackMaps, MessageMaps, InvalidateMaps DEF Writers
  <2> QED
    BY <1>2, <2>1, <2>2, <2>3 DEF CaptureStep
<1>3. CASE UserStep
  <2>1. CASE EditWrite
    <3>1. PICK c \in Clips : c = jobs["user"].clip
      BY <2>1, JobShape DEF EditWrite, IInv, JobsTyped, Writers
    <3>2. /\ \A d \in Clips \ {c} : rows'[d] = rows[d]
          /\ owed' = owed \cup {c} /\ contested \cup ({c} \cap owed) \subseteq contested'
          /\ contested' \subseteq contested \cup {c} /\ index' = index
      BY <2>1, <3>1 DEF EditWrite, Owe, IInv, RowsTyped, Table
    <3> QED
      BY <1>0, <3>2, Changes
  <2>2. CASE EditMessage \/ AnnotateMessage \/ DeleteMessage \/ Invalidate("user")
    BY <2>2, MessageMaps, InvalidateMaps DEF Writers
  <2> QED
    BY <1>3, <2>1, <2>2 DEF UserStep
<1>4. ASSUME NEW S \in SUBSET Clips, Sweep(S) \/ CaptureRetention(S) PROVE View!Next
  <2>1. /\ \A d \in Clips \ S : rows'[d] = rows[d]
        /\ owed' = owed \cup S /\ contested \cup (S \cap owed) \subseteq contested'
        /\ contested' \subseteq contested \cup S /\ index' = index
    BY <1>4 DEF Sweep, CaptureRetention, Owe
  <2> QED
    BY <1>0, <2>1, Changes
<1>5. ASSUME NEW c \in Clips, NEW b \in BOOLEAN, Annotate(c, b) \/ Delete(c, b)
      PROVE  View!Next
  <2>1. /\ \A d \in Clips \ {c} : rows'[d] = rows[d]
        /\ owed' = owed \cup {c} /\ contested \cup ({c} \cap owed) \subseteq contested'
        /\ contested' \subseteq contested \cup {c} /\ index' = index
    BY <1>5 DEF Annotate, Delete, Owe, IInv, RowsTyped, Table
  <2> QED
    BY <1>0, <2>1, Changes
<1>6. ASSUME NEW c \in Clips, NEW b \in BOOLEAN,
             CaptureLookUp(c, b) \/ EditCheck(c, b) \/ Use(c) \/ Pin(c)
      PROVE  UNCHANGED View!viewVars
  BY <1>6, Stutters DEF CaptureLookUp, EditCheck, Use, Pin, database
<1>7. CASE (\E mode \in {"list", "search"} : Open(mode)) \/ NextPage
  BY <1>7, Stutters DEF Open, NextPage, NotReader, database
<1>8. CASE UNCHANGED vars
  BY <1>8, Stutters DEF vars
<1> QED
  <2>1. CASE \E S \in SUBSET Clips : Sweep(S) \/ CaptureRetention(S)
    BY <1>4, <2>1
  <2>2. CASE \E c \in Clips :
            \/ \E b \in BOOLEAN :
                  CaptureLookUp(c, b) \/ EditCheck(c, b) \/ Annotate(c, b) \/ Delete(c, b)
            \/ Use(c) \/ Pin(c)
    BY <1>5, <1>6, <2>2
  <2> QED
    BY <1>1, <1>2, <1>3, <1>7, <1>8, <2>1, <2>2 DEF Next

\* The index, rebuilt while writers change the history, is to its readers the view of
\* SearchView, which is filled in one step: every step is one of the view or none
\* (search_index.rs; commands.rs and clipboard.rs where they send it messages).
THEOREM Implements == Spec => ImplementsView
<1>1. Init => View!Init
  BY InitInv DEF Init, View!Init, IInv, RowsTyped, Readable, Table, Doc
<1>2. IInv /\ IInv' /\ [Next]_vars => [View!Next]_(View!viewVars)
  BY NextMaps
<1> QED
  BY <1>1, <1>2, Invariant, PTL DEF Spec, ImplementsView, View!Spec

----------------------------------------------------------------------------
(* What the view promises, and so the index.                               *)

Seen == IF index = None THEN None ELSE Readable(index)

ViewInv == View!ViewTypeOK /\ View!Complete

\* Every step of the view keeps what it promises.
LEMMA ViewStep == ASSUME ViewInv, [View!Next]_(View!viewVars) PROVE ViewInv'
<1> USE DEF Seen, ViewInv, View!ViewTypeOK, View!Complete
<1>1. ASSUME NEW S \in SUBSET Clips, View!Change(S) PROVE ViewInv'
  BY <1>1 DEF View!Change
<1>2. ASSUME NEW S \in SUBSET Clips, View!Drop(S) PROVE ViewInv'
  BY <1>2 DEF View!Drop
<1>3. ASSUME NEW c \in Clips, View!GiveUp(c) PROVE ViewInv'
  BY <1>3 DEF View!GiveUp
<1>4. ASSUME NEW c \in Clips, NEW more \in BOOLEAN, View!Tell(c, more) PROVE ViewInv'
  <2>1. CASE Seen = None
    BY <1>4, <2>1 DEF View!Tell
  <2>2. CASE Seen # None
    <3>1. Seen' \in [Clips -> Docs \cup {Gone}] /\ \A d \in Clips \ {c} : Seen'[d] = Seen[d]
      BY <1>4, <2>2 DEF View!Tell
    <3> QED
      BY <1>4, <2>2, <3>1 DEF View!Tell
  <2> QED
    BY <2>1, <2>2
<1>5. CASE View!Fill
  BY <1>5 DEF View!Fill
<1>6. CASE UNCHANGED View!viewVars
  BY <1>6 DEF View!viewVars
<1> QED
  BY <1>1, <1>2, <1>3, <1>4, <1>5, <1>6 DEF View!Next

\* A view that can be searched has every row nobody is busy with as it is, whatever
\* order changes, messages and fills come in (search_index.rs).
THEOREM AlwaysComplete == View!Spec => []View!Complete
<1>1. View!Init => ViewInv
  BY DEF View!Init, ViewInv, View!ViewTypeOK, View!Complete
<1>2. ViewInv /\ [View!Next]_(View!viewVars) => ViewInv'
  BY ViewStep
<1>3. ViewInv => View!Complete
  BY DEF ViewInv
<1> QED
  BY <1>1, <1>2, <1>3, PTL DEF View!Spec

----------------------------------------------------------------------------
(* The order of the rows.                                                  *)

\* Every row has a place of its own.
OrderTyped ==
    /\ recency \in [Clips -> Nat \ {0}]
    /\ \A c, d \in Clips : recency[c] = recency[d] => c = d

\* The order of the rows is a strict total order.
LEMMA TotalOrder ==
    ASSUME OrderTyped
    PROVE  /\ \A c \in Clips : ~Before(c, c)
           /\ \A c, d \in Clips : c = d \/ Before(c, d) \/ Before(d, c)
           /\ \A c, d, e \in Clips : Before(c, d) /\ Before(d, e) => Before(c, e)
<1>1. \A c \in Clips : ~Before(c, c)
  BY DEF OrderTyped, Before
<1>2. \A c, d \in Clips : c = d \/ Before(c, d) \/ Before(d, c)
  BY DEF OrderTyped, Before
<1>3. \A c, d, e \in Clips : Before(c, d) /\ Before(d, e) => Before(c, e)
  BY DEF OrderTyped, Before
<1> QED
  BY <1>1, <1>2, <1>3

\* The places of rows S, in their order.
LEMMA Places ==
    ASSUME OrderTyped, NEW S \in SUBSET Clips
    PROVE  /\ IsFiniteSet(S) /\ Cardinality(S) \in Nat
           /\ \A c \in S : Place(c, S) \in 1 .. Cardinality(S)
           /\ \A c, d \in S : Before(c, d) => Place(c, S) < Place(d, S)
           /\ \A c, d \in S : Place(c, S) = Place(d, S) => c = d
<1> DEFINE Earlier(c) == { d \in S : Before(d, c) }
<1>1. IsFiniteSet(S)
  BY FS_Subset, IndexAssumption
<1>2. Cardinality(S) \in Nat
  BY <1>1, FS_CardinalityType
<1>3. \A c \in S : IsFiniteSet(Earlier(c))
  <2>1. \A c \in S : Earlier(c) \in SUBSET S
    OBVIOUS
  <2> QED
    BY <1>1, <2>1, FS_Subset
<1>4. \A c \in S : Cardinality(Earlier(c)) \in Nat
  BY <1>3, FS_CardinalityType
<1>5. ASSUME NEW c \in S, NEW T \in SUBSET S, Earlier(c) \subseteq T, c \in T
      PROVE  Cardinality(Earlier(c)) < Cardinality(T)
  <2>1. IsFiniteSet(T) /\ Earlier(c) \in SUBSET T /\ Earlier(c) # T
    <3>1. IsFiniteSet(T)
      BY <1>1, FS_Subset
    <3>2. c \notin Earlier(c)
      BY TotalOrder
    <3> QED
      BY <1>5, <3>1, <3>2
  <2>2. Cardinality(T) \in Nat
    BY <2>1, FS_CardinalityType
  <2>3. Cardinality(Earlier(c)) <= Cardinality(T) /\ Cardinality(Earlier(c)) # Cardinality(T)
    BY <2>1, FS_Subset
  <2> HIDE DEF Earlier
  <2> QED
    BY <1>4, <2>2, <2>3
<1>6. \A c \in S : Cardinality(Earlier(c)) < Cardinality(S)
  BY <1>5
<1>7. \A c, d \in S : Before(c, d) => Cardinality(Earlier(c)) < Cardinality(Earlier(d))
  <2> SUFFICES ASSUME NEW c \in S, NEW d \in S, Before(c, d)
               PROVE  Cardinality(Earlier(c)) < Cardinality(Earlier(d))
    OBVIOUS
  <2>1. Earlier(c) \subseteq Earlier(d) /\ c \in Earlier(d)
    BY TotalOrder
  <2> QED
    BY <1>5, <2>1
<1>8. \A c \in S : Place(c, S) = Cardinality(Earlier(c)) + 1
  BY DEF Place
<1> HIDE DEF Earlier
<1>9. \A c \in S : Place(c, S) \in 1 .. Cardinality(S)
  BY <1>2, <1>4, <1>6, <1>8
<1>10. \A c, d \in S : Before(c, d) => Place(c, S) < Place(d, S)
  BY <1>4, <1>7, <1>8
<1>11. \A c, d \in S : Place(c, S) = Place(d, S) => c = d
  <2>1. \A c, d \in S : c = d \/ Before(c, d) \/ Before(d, c)
    BY TotalOrder
  <2> QED
    BY <1>2, <1>9, <1>10, <2>1
<1> QED
  BY <1>1, <1>2, <1>9, <1>10, <1>11

\* Every place is taken.
LEMMA PlacesTaken ==
    ASSUME OrderTyped, NEW S \in SUBSET Clips
    PROVE  \A i \in 1 .. Cardinality(S) : \E c \in S : Place(c, S) = i
<1> DEFINE n == Cardinality(S)
           f == [c \in S |-> Place(c, S)]
<1>1. n \in Nat
  BY Places
<1>2. f \in Injection(S, 1 .. n)
  BY Places DEF Injection, IsInjective
<1>3. IsFiniteSet(1 .. n) /\ Cardinality(1 .. n) = n
  BY <1>1, FS_Interval
<1>4. f \in Surjection(S, 1 .. n)
  BY <1>2, <1>3, FS_Injection
<1> QED
  BY <1>4 DEF Surjection

\* A sequence of rows, each before the next.
Sorted(s) == \A i, j \in DOMAIN s : i < j => Before(s[i], s[j])

\* Rows S in order are all of S, sorted.
LEMMA InOrderSorts ==
    ASSUME OrderTyped, NEW S \in SUBSET Clips
    PROVE  /\ InOrder(S) \in Seq(Clips)
           /\ Len(InOrder(S)) = Cardinality(S)
           /\ DOMAIN InOrder(S) = 1 .. Cardinality(S)
           /\ \A i \in 1 .. Cardinality(S) :
                 InOrder(S)[i] \in S /\ Place(InOrder(S)[i], S) = i
           /\ \A c \in S : \E i \in 1 .. Cardinality(S) : InOrder(S)[i] = c
           /\ Sorted(InOrder(S))
<1> DEFINE n == Cardinality(S)
           s == InOrder(S)
<1>1. n \in Nat
  BY Places
<1>2. DOMAIN s = 1 .. n
  BY DEF InOrder
<1>3. \A i \in 1 .. n : s[i] \in S /\ Place(s[i], S) = i
  BY PlacesTaken DEF InOrder
<1>4. s \in Seq(Clips) /\ Len(s) = n
  <2>1. s \in [1 .. n -> Clips]
    BY <1>3 DEF InOrder
  <2> HIDE DEF s, n
  <2> QED
    BY <1>1, <1>2, <2>1
<1>5. \A c \in S : \E i \in 1 .. n : s[i] = c
  <2> SUFFICES ASSUME NEW c \in S PROVE s[Place(c, S)] = c /\ Place(c, S) \in 1 .. n
    OBVIOUS
  <2>1. Place(c, S) \in 1 .. n
    BY Places
  <2> QED
    BY <1>3, <2>1, Places
<1>6. Sorted(s)
  <2> SUFFICES ASSUME NEW i \in 1 .. n, NEW j \in 1 .. n, i < j PROVE Before(s[i], s[j])
    BY <1>2 DEF Sorted
  <2>1. s[i] \in S /\ s[j] \in S /\ Place(s[i], S) = i /\ Place(s[j], S) = j
    BY <1>3
  <2>2. s[i] = s[j] \/ Before(s[i], s[j]) \/ Before(s[j], s[i])
    BY <2>1, TotalOrder
  <2>3. ~Before(s[j], s[i])
    <3>1. Before(s[j], s[i]) => Place(s[j], S) < Place(s[i], S)
      BY <2>1, Places
    <3> QED
      BY <2>1, <3>1, <1>1
  <2> QED
    BY <2>1, <2>2, <2>3, <1>1
<1> QED
  BY <1>2, <1>3, <1>4, <1>5, <1>6

\* A sorted sequence of rows S is those rows in order.
LEMMA SortedIsInOrder ==
    ASSUME OrderTyped, NEW S \in SUBSET Clips, NEW s \in Seq(S), Sorted(s),
           \A c \in S : \E i \in DOMAIN s : s[i] = c
    PROVE  s = InOrder(S)
<1> DEFINE n == Cardinality(S)
           m == Len(s)
<1>1. m \in Nat /\ DOMAIN s = 1 .. m /\ \A i \in 1 .. m : s[i] \in S /\ s[i] \in Clips
  OBVIOUS
<1>2. \A i, j \in 1 .. m : s[i] = s[j] => i = j
  <2> SUFFICES ASSUME NEW i \in 1 .. m, NEW j \in 1 .. m, s[i] = s[j], i < j PROVE FALSE
    BY <1>1
  <2>1. Before(s[i], s[j])
    BY <1>1 DEF Sorted
  <2> QED
    BY <1>1, <2>1, TotalOrder
<1>3. \A i \in 1 .. m : Place(s[i], S) = i
  <2> SUFFICES ASSUME NEW i \in 1 .. m PROVE Place(s[i], S) = i
    OBVIOUS
  <2> DEFINE A == { d \in S : Before(d, s[i]) }
             g == [k \in 1 .. i - 1 |-> s[k]]
  <2>1. \A k \in 1 .. m : Before(s[k], s[i]) <=> k < i
    <3> SUFFICES ASSUME NEW k \in 1 .. m PROVE Before(s[k], s[i]) <=> k < i
      OBVIOUS
    <3>1. k < i => Before(s[k], s[i])
      BY <1>1 DEF Sorted
    <3>2. i < k => Before(s[i], s[k])
      BY <1>1 DEF Sorted
    <3>3. /\ ~Before(s[i], s[i])
          /\ ~(Before(s[i], s[k]) /\ Before(s[k], s[i]))
      BY <1>1, TotalOrder
    <3>4. k < i \/ k = i \/ i < k
      BY <1>1
    <3> QED
      BY <3>1, <3>2, <3>3, <3>4
  <2>2. g \in [1 .. i - 1 -> A]
    BY <1>1, <2>1
  <2>3. \A d \in A : \E k \in 1 .. i - 1 : g[k] = d
    BY <1>1, <2>1
  <2>4. g \in Surjection(1 .. i - 1, A)
    BY <2>2, <2>3 DEF Surjection
  <2>5. g \in Injection(1 .. i - 1, A)
    BY <1>1, <1>2, <2>2 DEF Injection, IsInjective
  <2>6. i - 1 \in Nat
    BY <1>1
  <2>7. ExistsBijection(1 .. i - 1, A)
    BY <2>4, <2>5 DEF ExistsBijection, Bijection
  <2>8. Cardinality(A) = i - 1
    BY <2>6, <2>7, FS_CountingElements
  <2>9. Place(s[i], S) = Cardinality(A) + 1
    BY DEF Place
  <2> HIDE DEF A
  <2> QED
    BY <1>1, <2>8, <2>9
<1>4. n = m
  <2>1. s \in Surjection(1 .. m, S) /\ s \in Injection(1 .. m, S)
    BY <1>1, <1>2 DEF Surjection, Injection, IsInjective
  <2>2. ExistsBijection(1 .. m, S)
    BY <2>1 DEF ExistsBijection, Bijection
  <2> QED
    BY <1>1, <2>2, FS_CountingElements
<1>5. \A i \in 1 .. m : InOrder(S)[i] = s[i]
  <2> SUFFICES ASSUME NEW i \in 1 .. m PROVE InOrder(S)[i] = s[i]
    OBVIOUS
  <2>1. InOrder(S)[i] \in S /\ Place(InOrder(S)[i], S) = i
    BY <1>4, InOrderSorts
  <2> QED
    BY <1>1, <1>3, <2>1, Places
<1>6. InOrder(S) \in Seq(Clips) /\ Len(InOrder(S)) = m
  BY <1>4, InOrderSorts
<1> HIDE DEF n, m
<1>7. DOMAIN InOrder(S) = 1 .. m
  BY <1>4, InOrderSorts DEF n
<1>8. s = [i \in 1 .. m |-> s[i]] /\ InOrder(S) = [i \in 1 .. m |-> InOrder(S)[i]]
  BY <1>1, <1>7, <1>4 DEF InOrder, n
<1> QED
  BY <1>5, <1>8

----------------------------------------------------------------------------
(* The invariant of a scan.                                                *)

\* The rows of a scan so far: those shown, and those of the page being filled.
Scanned == client.shown \o client.page

\* The rows it takes batches from.
Source == IF client.mode = "search" THEN client.ids ELSE InOrder(Visible)

ScanTyped ==
    /\ client.mode \in {"list", "search"}
    /\ client.pc \in {"idle", "generation", "select", "publish", "match", "order", "fetch"}
    /\ client.mode = "list" => client.pc \in {"idle", "order", "fetch"}
    /\ client.candidates \subseteq Clips
    /\ client.ids \in Seq(Clips) /\ client.start \in Nat
    /\ client.page \in Seq(Clips) /\ client.shown \in Seq(Clips)
    /\ client.pc # "fetch" => client.page = <<>>
    /\ client.pc = "fetch" => Len(client.page) < Limit
    /\ client.ended => client.pc = "idle"

\* No writer has changed anything since an undisturbed scan began, and a search that
\* has shown or found something did so with an index that is still there.
Quiet == client.calm =>
    /\ \A w \in Writers : jobs[w] = Idle \/ jobs[w].pc = "write"
    /\ jobs["user"].op = "edit" => rows[jobs["user"].clip] # Gone
    /\ client.mode = "search" =>
          /\ client.shown # <<>> \/ client.pc \in {"match", "order", "fetch"} => index # None
          /\ client.shown = <<>> => ~client.moved

\* Rows that are there are in order, and none comes twice.
Tidy(s) ==
    /\ \A i, j \in DOMAIN s : s[i] = s[j] => i = j
    /\ \A i, j \in DOMAIN s : i < j /\ s[i] \in Visible /\ s[j] \in Visible => Before(s[i], s[j])

\* What is left of source S behind place k comes after all rows of s.
Behind(s, S, k) ==
    \A i \in DOMAIN S : k < i /\ S[i] \in Visible =>
        \A j \in DOMAIN s : s[j] # S[i] /\ (s[j] \in Visible => Before(s[j], S[i]))

\* A search whose rows keep their order, or a list of which nothing changes, goes on
\* where it stopped.
Ahead == (IF client.mode = "search" THEN ~client.moved ELSE client.calm) =>
    /\ ToSet(Scanned) \cap unused = {} /\ ToSet(client.ids) \cap unused = {}
    /\ Tidy(Scanned)
    /\ client.pc = "fetch" => Tidy(Source) /\ Behind(Scanned, Source, client.start)

\* Of what is wanted an undisturbed scan has the first rows, and at its end all.
Whole == client.calm /\ (client.mode = "search" => contested = {}) =>
    /\ client.mode = "search" => ~client.moved
    /\ ToSet(Scanned) \subseteq Wanted
    /\ \A c \in ToSet(Scanned), d \in Wanted : Before(d, c) => d \in ToSet(Scanned)
    /\ client.ended => Wanted \subseteq ToSet(Scanned)
    /\ client.mode = "search" /\ client.pc = "order"
          => (Visible \cap client.candidates) \ Unreadable = Wanted
    /\ client.pc = "fetch" =>
          /\ ToSet(Source) \subseteq Visible
          /\ ToSet(Source) \ Unreadable = Wanted
          /\ \A c \in Wanted : c \in ToSet(Scanned) <=>
                \E i \in DOMAIN Source : i <= client.start /\ Source[i] = c

ScanInv == OrderTyped /\ ScanTyped /\ Quiet /\ Ahead /\ Whole

\* The fields of the reader that a scan is about.
LEMMA ScanFields ==
    ASSUME IInv
    PROVE  {"mode", "pc", "seen", "snapshot", "candidates", "ids", "start", "page",
            "shown", "calm", "moved", "ended"} = DOMAIN client
BY ReaderFields DEF IInv

\* The first state.
LEMMA InitScan == Init => ScanInv
<1> SUFFICES ASSUME Init PROVE ScanInv
  OBVIOUS
<1>1. OrderTyped
  BY IndexAssumption DEF Init, IsInjective, OrderTyped
<1>2. client = NoPage /\ \A w \in Writers : jobs[w] = Idle
  BY DEF Init
<1>3. ScanTyped
  BY <1>2 DEF ScanTyped, NoPage
<1>4. Quiet
  BY <1>2 DEF Quiet, NoPage, Writers, Idle
<1>5. Scanned = <<>> /\ client.pc = "idle" /\ client.mode = "search" /\ ~client.ended
        /\ client.ids = <<>> /\ ~client.moved
  BY <1>2 DEF NoPage, Scanned
<1>6. ToSet(Scanned) = {} /\ ToSet(client.ids) = {}
  BY <1>5 DEF ToSet
<1>7. Ahead
  BY <1>5, <1>6 DEF Ahead, Tidy
<1>8. Whole
  BY <1>5, <1>6 DEF Whole
<1> QED
  BY <1>1, <1>3, <1>4, <1>7, <1>8 DEF ScanInv

----------------------------------------------------------------------------
(* The writers.                                                            *)

\* The order is a matter of the rows and their places.
LEMMA SameOrder ==
    ASSUME UNCHANGED <<rows, recency, pinned>>
    PROVE  /\ \A c, d : Before(c, d)' = Before(c, d)
           /\ Visible' = Visible
           /\ \A S : InOrder(S)' = InOrder(S)
<1>1. \A c, d : Before(c, d)' = Before(c, d)
  BY DEF Before
<1>2. \A c, S : Place(c, S)' = Place(c, S)
  BY <1>1 DEF Place
<1>3. Visible' = Visible
  BY DEF Visible
<1>4. \A S : InOrder(S)' = InOrder(S)
  BY <1>2 DEF InOrder
<1> QED
  BY <1>1, <1>3, <1>4

\* A step that leaves the rows and the reader alone, and an undisturbed scan its index.
LEMMA Elsewhere ==
    ASSUME IInv, ScanInv,
           UNCHANGED <<rows, recency, pinned, client>>,
           unused' \subseteq unused,
           client.calm => UNCHANGED <<index, contested>>,
           client.calm => /\ \A w \in Writers : jobs'[w] = Idle \/ jobs'[w].pc = "write"
                          /\ jobs'["user"].op = "edit" => rows[jobs'["user"].clip] # Gone
    PROVE  ScanInv'
<1> USE SameOrder
<1>1. OrderTyped' /\ ScanTyped'
  BY DEF ScanInv, OrderTyped, ScanTyped
<1>2. Quiet'
  BY DEF ScanInv, Quiet
<1>3. Scanned' = Scanned /\ Source' = Source
  BY DEF Scanned, Source
<1>4. Wanted' = Wanted
  BY DEF Wanted
<1>5. Ahead'
  <2>1. \A s : Tidy(s)' = Tidy(s)
    BY DEF Tidy
  <2>2. \A s, S, k : Behind(s, S, k)' = Behind(s, S, k)
    BY DEF Behind
  <2> QED
    BY <1>3, <2>1, <2>2 DEF ScanInv, Ahead
<1>6. Whole'
  BY <1>3, <1>4 DEF ScanInv, Whole
<1> QED
  BY <1>1, <1>2, <1>5, <1>6 DEF ScanInv

\* What a change may do to the rows under a search that goes on where it stopped: new ones
\* come, others go, and those that stay keep their order.
OrderKept ==
    \A c, d \in Clips \ unused : c \in Visible' /\ d \in Visible' =>
        c \in Visible /\ d \in Visible /\ (Before(c, d) <=> Before(c, d)')

\* A change to the rows.
LEMMA Disturbance ==
    ASSUME IInv, ScanInv, NEW order \in BOOLEAN, Disturb(order),
           OrderTyped', unused' \subseteq unused, ~order => OrderKept
    PROVE  ScanInv'
<1> USE ScanFields
<1>1. /\ ~client'.calm /\ (client'.moved <=> client.moved \/ order)
      /\ \A f \in (DOMAIN client) \ {"calm", "moved"} : client'[f] = client[f]
  BY DEF Disturb
<1>2. /\ client'.mode = client.mode /\ client'.pc = client.pc
      /\ client'.candidates = client.candidates /\ client'.ids = client.ids
      /\ client'.start = client.start /\ client'.page = client.page
      /\ client'.shown = client.shown /\ client'.ended = client.ended
  BY <1>1
<1>3. ScanTyped' /\ Quiet' /\ Whole'
  BY <1>1, <1>2 DEF ScanInv, ScanTyped, Quiet, Whole
<1>4. Ahead'
  <2> SUFFICES ASSUME client.mode = "search", ~client.moved, OrderKept PROVE Ahead'
    BY <1>1, <1>2 DEF Ahead
  <2> DEFINE Old(s) == s \in Seq(Clips) /\ ToSet(s) \cap unused = {}
  <2>1. Scanned' = Scanned /\ Source' = Source /\ Source = client.ids /\ Source' = client.ids
    BY <1>2 DEF Scanned, Source
  <2>2. Old(Scanned) /\ Old(Source) /\ Tidy(Scanned)
        /\ (client.pc = "fetch" => Tidy(Source) /\ Behind(Scanned, Source, client.start))
    <3>1. Scanned \in Seq(Clips) /\ client.ids \in Seq(Clips)
      BY DEF ScanInv, ScanTyped, Scanned
    <3> QED
      BY <2>1, <3>1 DEF ScanInv, Ahead
  <2>3. \A s : Old(s) => \A i \in DOMAIN s : s[i] \in Clips \ unused
    BY DEF ToSet
  <2> HIDE DEF Old
  <2>4. \A s : Old(s) /\ Tidy(s) => Tidy(s)'
    BY <2>3 DEF Tidy, OrderKept
  <2>5. \A s, S, k : Old(s) /\ Old(S) /\ Behind(s, S, k) => Behind(s, S, k)'
    BY <2>3 DEF Behind, OrderKept
  <2>6. Tidy(Scanned)' /\ (client.pc = "fetch" => Tidy(Source)')
    BY <2>1, <2>2, <2>4
  <2>7. client.pc = "fetch" => Behind(Scanned, Source, client.start)'
    BY <1>2, <2>1, <2>2, <2>5
  <2>8. ToSet(Scanned)' \cap unused' = {} /\ ToSet(client'.ids) \cap unused' = {}
    BY <1>2, <2>1, <2>2 DEF Old
  <2> QED
    BY <1>2, <2>6, <2>7, <2>8 DEF Ahead
<1> QED
  BY <1>3, <1>4 DEF ScanInv

\* A change that brings no rows and moves none.
LEMMA RowsStay ==
    ASSUME IInv, ScanInv, UNCHANGED <<recency, unused>>, Disturb(FALSE),
           \A c \in Clips : rows'[c] # Gone => rows[c] # Gone /\ (c \in pinned' <=> c \in pinned)
    PROVE  ScanInv'
<1>1. OrderTyped'
  BY DEF ScanInv, OrderTyped
<1>2. OrderKept
  BY DEF OrderKept, Visible, Before
<1> QED
  BY <1>1, <1>2, Disturbance

\* A clip that becomes the newest leaves the others in their order.
LEMMA FrontKeepsOrder ==
    ASSUME OrderTyped, NEW c \in Clips, recency' = ToFront(c)
    PROVE  /\ OrderTyped'
           /\ \A d, e \in Clips \ {c} : recency'[d] < recency'[e] <=> recency[d] < recency[e]
<1>1. \A d \in Clips : recency[d] \in Nat \ {0}
  BY DEF OrderTyped
<1>2. /\ recency'[c] = 1
      /\ \A d \in Clips \ {c} : recency'[d] = IF recency[d] < recency[c] THEN recency[d] + 1
                                             ELSE recency[d]
  BY DEF ToFront
<1>3. \A d \in Clips \ {c} : recency[d] # recency[c]
  BY DEF OrderTyped
<1>4. \A d \in Clips : recency'[d] \in Nat \ {0}
  BY <1>1, <1>2
<1>5. recency' = [d \in Clips |-> recency'[d]]
  BY DEF ToFront
<1>6. \A d, e \in Clips \ {c} : recency'[d] < recency'[e] <=> recency[d] < recency[e]
  BY <1>1, <1>2, <1>3
<1>7. \A d \in Clips \ {c} : recency'[d] # recency'[c]
  BY <1>1, <1>2, <1>3
<1>8. \A d, e \in Clips \ {c} : recency'[d] = recency'[e] => recency[d] = recency[e]
  BY <1>1, <1>2, <1>3
<1>9. \A d, e \in Clips : recency'[d] = recency'[e] => d = e
  BY <1>7, <1>8 DEF OrderTyped
<1> QED
  BY <1>4, <1>5, <1>6, <1>9 DEF OrderTyped

\* A writer that has written disturbs: an undisturbed scan has only seen others look.
LEMMA Wrote ==
    ASSUME ScanInv, NEW w \in Writers, jobs[w] # Idle, jobs[w].pc # "write"
    PROVE  ~client.calm
BY DEF ScanInv, Quiet

\* The looks a writer takes before it writes.
LEMMA LookScan ==
    ASSUME IInv, ScanInv, NEW c \in Clips, NEW b \in BOOLEAN,
           CaptureLookUp(c, b) \/ EditCheck(c, b)
    PROVE  ScanInv'
<1>1. UNCHANGED <<rows, unused, recency, pinned, client, index, contested>>
  BY DEF CaptureLookUp, EditCheck, database
<1>2. jobs \in [Writers -> Job \cup {Idle}] /\ "capture" \in Writers /\ "user" \in Writers
        /\ Writers = {"capture", "user"}
  BY DEF IInv, JobsTyped, Writers
<1>3. CASE CaptureLookUp(c, b)
  <2>1. jobs'["capture"].pc = "write" /\ jobs'["user"] = jobs["user"]
    BY <1>2, <1>3 DEF CaptureLookUp
  <2> QED
    BY <1>1, <1>2, <2>1, Elsewhere DEF ScanInv, Quiet
<1>4. CASE EditCheck(c, b)
  <2>1. jobs'["user"].pc = "write" /\ jobs'["capture"] = jobs["capture"]
        /\ jobs'["user"].clip = c /\ rows[c] # Gone
    BY <1>2, <1>4 DEF EditCheck
  <2> QED
    BY <1>1, <1>2, <2>1, Elsewhere DEF ScanInv, Quiet
<1> QED
  BY <1>3, <1>4

\* The row of a capture.
LEMMA CaptureScan == ASSUME IInv, ScanInv, CaptureWrite PROVE ScanInv'
<1> DEFINE c == jobs["capture"].clip
           fresh == jobs["capture"].new
           row == IF fresh THEN [body |-> jobs["capture"].body, notes |-> FALSE]
                  ELSE IF rows[c] # Gone THEN rows[c] ELSE hidden[c]
<1>1. /\ jobs["capture"].op = "capture" /\ jobs["capture"].pc = "write"
      /\ rows' = [rows EXCEPT ![c] = row]
      /\ unused' = unused \ {c}
      /\ recency' = IF row = Gone THEN recency ELSE ToFront(c)
      /\ Disturb(~fresh) /\ pinned' = pinned
  BY DEF CaptureWrite
<1>2. c \in Clips /\ fresh \in BOOLEAN /\ (fresh <=> c \in unused)
  <2>1. jobs["capture"] \in Job \cup {Idle}
    BY DEF IInv, JobsTyped, Writers
  <2>2. c \in Clips /\ fresh \in BOOLEAN
    BY <1>1, <2>1, JobShape
  <2> QED
    BY <1>1, <2>2 DEF IInv, FreshOnce
<1>3. OrderTyped'
  <2>1. CASE row = Gone
    BY <1>1, <2>1 DEF ScanInv, OrderTyped
  <2>2. CASE row # Gone
    BY <1>1, <1>2, <2>2, FrontKeepsOrder DEF ScanInv
  <2> QED
    BY <2>1, <2>2
<1>4. fresh => OrderKept
  <2> SUFFICES ASSUME fresh PROVE OrderKept
    OBVIOUS
  <2>1. rows \in Table
    BY DEF IInv, RowsTyped
  <2>2. \A d \in Clips \ {c} : rows'[d] = rows[d]
    BY <1>1, <2>1 DEF Table
  <2>3. \A d, e \in Clips \ {c} : recency'[d] < recency'[e] <=> recency[d] < recency[e]
    BY <1>1, <1>2, FrontKeepsOrder DEF ScanInv
  <2>4. \A d \in Clips \ unused : d \in Clips \ {c}
    BY <1>2
  <2> QED
    BY <1>1, <2>2, <2>3, <2>4 DEF OrderKept, Visible, Before
<1> HIDE DEF c, fresh, row
<1> QED
  BY <1>1, <1>2, <1>3, <1>4, Disturbance

\* Rows S go.
LEMMA GoneScan ==
    ASSUME IInv, ScanInv, NEW S,
           rows' = [c \in Clips |-> IF c \in S THEN Gone ELSE rows[c]],
           pinned' \in {pinned, pinned \ S},
           UNCHANGED <<recency, unused>>, Disturb(FALSE)
    PROVE  ScanInv'
BY RowsStay

\* The changes of the writers to the rows.
LEMMA ChangeScan ==
    ASSUME IInv, ScanInv,
           \/ CaptureRollBack \/ EditWrite
           \/ \E S \in SUBSET Clips : Sweep(S) \/ CaptureRetention(S)
           \/ \E c \in Clips, b \in BOOLEAN : Annotate(c, b) \/ Delete(c, b)
    PROVE  ScanInv'
<1>1. rows \in Table /\ Writers = {"capture", "user"}
  BY DEF IInv, RowsTyped, Writers
<1>2. CASE CaptureRollBack
  <2>1. UNCHANGED <<unused, recency, pinned, index, contested>>
    BY <1>2 DEF CaptureRollBack
  <2>2. CASE jobs["capture"].new
    <3>1. Disturb(FALSE) /\ \A c \in Clips : rows'[c] # Gone => rows[c] # Gone
      BY <1>1, <1>2, <2>2 DEF CaptureRollBack, Table
    <3> QED
      BY <2>1, <3>1, RowsStay
  <2>3. CASE ~jobs["capture"].new
    <3>1. jobs["capture"] # Idle /\ jobs["capture"].pc # "write"
      BY <1>2 DEF CaptureRollBack, Idle
    <3> QED
      BY <1>1, <1>2, <2>1, <2>3, <3>1, Wrote, Elsewhere DEF CaptureRollBack
  <2> QED
    BY <2>2, <2>3
<1>3. CASE EditWrite
  <2>1. UNCHANGED <<unused, recency, pinned, index>>
    BY <1>3 DEF EditWrite
  <2>2. CASE rows[jobs["user"].clip] # Gone
    <3>1. Disturb(FALSE) /\ \A c \in Clips : rows'[c] # Gone => rows[c] # Gone
      BY <1>1, <1>3, <2>2 DEF EditWrite, Table
    <3> QED
      BY <2>1, <3>1, RowsStay
  <2>3. CASE rows[jobs["user"].clip] = Gone
    <3>1. ~client.calm /\ UNCHANGED <<rows, client>>
      BY <1>3, <2>3 DEF EditWrite, ScanInv, Quiet
    <3> QED
      BY <2>1, <3>1, Elsewhere
  <2> QED
    BY <2>2, <2>3
<1>4. ASSUME NEW S \in SUBSET Clips, Sweep(S) PROVE ScanInv'
  <2>1. /\ rows' = [c \in Clips |-> IF c \in S THEN Gone ELSE rows[c]]
        /\ pinned' = pinned \ S /\ Disturb(FALSE) /\ UNCHANGED <<unused, recency>>
    BY <1>4 DEF Sweep
  <2> QED
    BY <2>1, GoneScan
<1>5. ASSUME NEW S \in SUBSET Clips, CaptureRetention(S) PROVE ScanInv'
  <2>1. /\ rows' = [c \in Clips |-> IF c \in S THEN Gone ELSE rows[c]]
        /\ pinned' = pinned /\ Disturb(FALSE) /\ UNCHANGED <<unused, recency>>
    BY <1>5 DEF CaptureRetention
  <2> QED
    BY <2>1, GoneScan
<1>6. ASSUME NEW c \in Clips, NEW b \in BOOLEAN, Annotate(c, b) PROVE ScanInv'
  <2>1. /\ rows[c] # Gone /\ rows' = [rows EXCEPT ![c].notes = b]
        /\ Disturb(FALSE) /\ UNCHANGED <<unused, recency, pinned>>
    BY <1>6 DEF Annotate
  <2>2. \A d \in Clips : rows'[d] # Gone => rows[d] # Gone
    BY <1>1, <2>1 DEF Table
  <2> QED
    BY <2>1, <2>2, RowsStay
<1>7. ASSUME NEW c \in Clips, NEW b \in BOOLEAN, Delete(c, b) PROVE ScanInv'
  <2>1. /\ rows' = [rows EXCEPT ![c] = Gone] /\ pinned' = pinned \ {c}
        /\ Disturb(FALSE) /\ UNCHANGED <<unused, recency>>
    BY <1>7 DEF Delete
  <2>2. \A d \in Clips : rows'[d] # Gone => rows[d] # Gone /\ d # c
    BY <1>1, <2>1 DEF Table
  <2> QED
    BY <2>1, <2>2, RowsStay
<1> QED
  BY <1>2, <1>3, <1>4, <1>5, <1>6, <1>7

\* Rows that change places, and messages.
LEMMA OtherScan ==
    ASSUME IInv, ScanInv,
           \/ \E c \in Clips : Use(c) \/ Pin(c)
           \/ CaptureFormats \/ CaptureMessage \/ EditMessage \/ AnnotateMessage \/ DeleteMessage
           \/ \E w \in Writers : Invalidate(w)
    PROVE  ScanInv'
<1>1. ASSUME NEW c \in Clips, Use(c) PROVE ScanInv'
  <2>1. OrderTyped' /\ unused' = unused /\ Disturb(TRUE)
    BY <1>1, FrontKeepsOrder DEF Use, ScanInv
  <2> QED
    BY <2>1, Disturbance
<1>2. ASSUME NEW c \in Clips, Pin(c) PROVE ScanInv'
  <2>1. OrderTyped' /\ unused' = unused /\ Disturb(TRUE)
    BY <1>2 DEF Pin, ScanInv, OrderTyped
  <2> QED
    BY <2>1, Disturbance
<1>3. CASE CaptureFormats
  <2>1. jobs["capture"] # Idle /\ jobs["capture"].pc # "write" /\ "capture" \in Writers
    BY <1>3 DEF CaptureFormats, Idle, Writers
  <2> QED
    BY <1>3, <2>1, Wrote, Elsewhere DEF CaptureFormats, database
<1>4. ASSUME NEW w \in Writers, NEW new, Message(w, new) PROVE ScanInv'
  <2>1. jobs[w] # Idle /\ jobs[w].pc # "write"
    BY <1>4 DEF Message
  <2> QED
    BY <1>4, <2>1, Wrote, Elsewhere DEF Message, database
<1>5. "capture" \in Writers /\ "user" \in Writers
  BY DEF Writers
<1> QED
  BY <1>1, <1>2, <1>3, <1>4, <1>5
     DEF CaptureMessage, EditMessage, AnnotateMessage, DeleteMessage, Invalidate

----------------------------------------------------------------------------
(* The reader, until it knows where a page starts.                         *)

\* A scan of which nothing has been shown.
LEMMA Fresh ==
    ASSUME client.shown = <<>>, client.page = <<>>
    PROVE  Scanned = <<>> /\ ToSet(Scanned) = {}
BY DEF Scanned, ToSet

\* The reader asks, builds and publishes: what it has shown is not touched.
LEMMA GoesOn ==
    ASSUME IInv, ScanInv,
           UNCHANGED <<rows, unused, recency, pinned, jobs>>,
           \A f \in (DOMAIN client) \ {"pc", "seen", "snapshot"} : client'[f] = client[f],
           ~client.ended, client.pc # "fetch",
           client'.pc \in {"generation", "select", "publish", "match", "order"},
           client.mode = "list" <=> client'.pc = "order",
           client'.pc = "match" => index' # None,
           index' = index \/ (index = None /\ index' # None),
           contested' = contested \/ (client.mode = "search" /\ index = None)
    PROVE  ScanInv'
<1> USE ScanFields, SameOrder
<1>1. /\ client'.mode = client.mode /\ client'.candidates = client.candidates
      /\ client'.ids = client.ids /\ client'.start = client.start
      /\ client'.page = client.page /\ client'.shown = client.shown
      /\ client'.calm = client.calm /\ client'.moved = client.moved
      /\ client'.ended = client.ended
  OBVIOUS
<1>2. OrderTyped' /\ ScanTyped'
  BY <1>1 DEF ScanInv, OrderTyped, ScanTyped
<1>3. Quiet'
  BY <1>1 DEF ScanInv, Quiet
<1>4. Scanned' = Scanned /\ Wanted' = Wanted
  BY <1>1 DEF Scanned, Wanted
<1>5. Ahead'
  <2>1. \A s : Tidy(s)' = Tidy(s)
    BY DEF Tidy
  <2> QED
    BY <1>1, <1>4, <2>1 DEF ScanInv, Ahead
<1>6. Whole'
  <2>1. CASE contested' = contested
    BY <1>1, <1>4, <2>1 DEF ScanInv, Whole
  <2>2. CASE client.mode = "search" /\ index = None
    <3>1. client.calm => client.shown = <<>> /\ ~client.moved /\ client.page = <<>>
      BY <2>2 DEF ScanInv, Quiet, ScanTyped
    <3>2. client.calm => ToSet(Scanned) = {}
      BY <3>1, Fresh
    <3> QED
      BY <1>1, <1>4, <2>2, <3>1, <3>2 DEF Whole
  <2> QED
    BY <2>1, <2>2
<1> QED
  BY <1>2, <1>3, <1>5, <1>6 DEF ScanInv

\* The next page, and the rebuild of the index.
LEMMA BuildScan ==
    ASSUME IInv, ScanInv, LoadGeneration \/ SelectRows \/ Publish \/ NextPage
    PROVE  ScanInv'
<1> USE ScanFields DEF Reader, NotReader, database
<1>0. client.mode \in {"list", "search"}
      /\ (client.pc \in {"generation", "select", "publish"}
            => client.mode = "search" /\ ~client.ended)
  BY DEF ScanInv, ScanTyped
<1>1. CASE LoadGeneration
  BY <1>0, <1>1, GoesOn DEF LoadGeneration
<1>2. CASE SelectRows
  BY <1>0, <1>2, GoesOn DEF SelectRows
<1>3. CASE Publish
  <2>1. index = None /\ client.snapshot # None
    BY <1>3 DEF IInv, ClientTyped, Publish
  <2> QED
    BY <1>0, <1>3, <2>1, GoesOn DEF Publish
<1>4. CASE NextPage
  BY <1>0, <1>4, GoesOn DEF NextPage
<1> QED
  BY <1>1, <1>2, <1>3, <1>4

\* A new scan.
LEMMA OpenScan ==
    ASSUME IInv, ScanInv, NEW mode \in {"list", "search"}, Open(mode)
    PROVE  ScanInv'
<1> USE ScanFields DEF database
<1>1. /\ client'.mode = mode /\ client'.pc = IF mode = "search" THEN "generation" ELSE "order"
      /\ client'.candidates = {} /\ client'.ids = <<>> /\ client'.start = 0
      /\ client'.page = <<>> /\ client'.shown = <<>> /\ ~client'.ended /\ ~client'.moved
      /\ client'.calm = (\A w \in Writers : jobs[w] = Idle)
      /\ UNCHANGED <<rows, unused, recency, pinned, index, jobs, contested>>
  BY DEF Open, NoPage
<1>2. OrderTyped' /\ ScanTyped'
  BY <1>1 DEF ScanInv, OrderTyped, ScanTyped
<1>3. Quiet'
  <2>1. client'.calm => \A w \in Writers : jobs'[w] = Idle
    BY <1>1
  <2>2. client'.calm => jobs'["user"].op # "edit"
    BY <2>1 DEF Idle, Writers
  <2>3. client'.pc \notin {"match", "order", "fetch"} \/ client'.mode # "search"
    BY <1>1
  <2> QED
    BY <1>1, <2>1, <2>2, <2>3 DEF Quiet
<1>4. Scanned' = <<>> /\ ToSet(Scanned)' = {} /\ ToSet(client'.ids) = {}
  BY <1>1 DEF Scanned, ToSet
<1>5. Ahead' /\ Whole'
  BY <1>1, <1>4 DEF Ahead, Whole, Tidy
<1> QED
  BY <1>2, <1>3, <1>5 DEF ScanInv

\* What a page that is handed over leaves of the reader.
LEMMA AnswerFields ==
    ASSUME IInv, NEW p, client' = Answer(p)
    PROVE  /\ client'.mode = client.mode /\ client'.pc = "idle" /\ client'.candidates = {}
           /\ client'.ids = <<>> /\ client'.start = 0 /\ client'.page = <<>>
           /\ client'.shown = client.shown \o p
           /\ client'.calm = client.calm /\ client'.moved = client.moved
           /\ client'.ended = (Len(p) < Limit)
BY ScanFields DEF Answer

\* A page is handed over whose rows, behind those shown, are as they should be.
LEMMA Answered ==
    ASSUME IInv, ScanInv, NEW p \in Seq(Clips), client' = Answer(p),
           UNCHANGED <<rows, unused, recency, pinned, jobs, index, contested>>,
           client.pc \in {"match", "order", "fetch"},
           (IF client.mode = "search" THEN ~client.moved ELSE client.calm)
              => ToSet(client.shown \o p) \cap unused = {} /\ Tidy(client.shown \o p),
           client.calm /\ (client.mode = "search" => contested = {}) =>
              /\ ToSet(client.shown \o p) \subseteq Wanted
              /\ \A c \in ToSet(client.shown \o p), d \in Wanted :
                    Before(d, c) => d \in ToSet(client.shown \o p)
              /\ Len(p) < Limit => Wanted \subseteq ToSet(client.shown \o p)
    PROVE  ScanInv'
<1> USE SameOrder
<1>0. /\ client'.mode = client.mode /\ client'.pc = "idle" /\ client'.candidates = {}
      /\ client'.ids = <<>> /\ client'.start = 0 /\ client'.page = <<>>
      /\ client'.shown = client.shown \o p
      /\ client'.calm = client.calm /\ client'.moved = client.moved
      /\ client'.ended = (Len(p) < Limit)
  BY AnswerFields
<1>1. Scanned' = client.shown \o p /\ client.shown \o p \in Seq(Clips)
  <2>1. client.shown \in Seq(Clips)
    BY DEF ScanInv, ScanTyped
  <2>2. (client.shown \o p) \o <<>> = client.shown \o p
    BY <2>1
  <2> QED
    BY <1>0, <2>1, <2>2 DEF Scanned
<1>2. OrderTyped' /\ ScanTyped'
  BY <1>0, <1>1 DEF ScanInv, OrderTyped, ScanTyped
<1>3. Quiet'
  <2>1. client.shown \o p = <<>> => client.shown = <<>>
    BY DEF ScanInv, ScanTyped
  <2> QED
    BY <1>0, <2>1 DEF ScanInv, Quiet
<1>4. Wanted' = Wanted
  BY <1>0 DEF Wanted
<1>5. Ahead'
  <2>1. \A s : Tidy(s)' = Tidy(s)
    BY DEF Tidy
  <2>2. ToSet(client'.ids) = {}
    BY <1>0 DEF ToSet
  <2> QED
    BY <1>0, <1>1, <2>1, <2>2 DEF Ahead
<1>6. Whole'
  BY <1>0, <1>1, <1>4 DEF ScanInv, Whole
<1> QED
  BY <1>2, <1>3, <1>5, <1>6 DEF ScanInv

\* To an undisturbed search the index says what the rows say.
LEMMA IndexIsRows ==
    ASSUME IInv, ScanInv, client.calm, contested = {}, index # None
    PROVE  \A c \in Visible \ Unreadable : index[c] = rows[c]
<1>1. \A w \in Writers : Owing(w) = {}
  BY DEF ScanInv, Quiet, Owing
<1>2. owed = {}
  BY <1>1 DEF IInv, OwedByWriters, Writers
<1> QED
  BY <1>2 DEF IInv, IndexLevel, Level, Visible

\* Before a page is fetched, what is scanned is what is shown.
LEMMA NoPageYet ==
    ASSUME ScanInv, client.pc # "fetch"
    PROVE  /\ client.page = <<>> /\ client.shown \in Seq(Clips)
           /\ Scanned = client.shown /\ client.shown \o <<>> = client.shown
<1>1. client.page = <<>> /\ client.shown \in Seq(Clips)
  BY DEF ScanInv, ScanTyped
<1>2. client.shown \o <<>> = client.shown
  BY <1>1
<1> QED
  BY <1>1, <1>2 DEF Scanned

\* A page with nothing on it.
LEMMA NothingMore ==
    ASSUME IInv, ScanInv, client' = Answer(<<>>),
           UNCHANGED <<rows, unused, recency, pinned, jobs, index, contested>>,
           client.pc \in {"match", "order"},
           client.calm /\ (client.mode = "search" => contested = {}) => Wanted = {}
    PROVE  ScanInv'
<1>1. Scanned = client.shown /\ client.shown \o <<>> = client.shown /\ <<>> \in Seq(Clips)
  BY NoPageYet
<1>2. (IF client.mode = "search" THEN ~client.moved ELSE client.calm)
         => ToSet(client.shown \o <<>>) \cap unused = {} /\ Tidy(client.shown \o <<>>)
  BY <1>1 DEF ScanInv, Ahead
<1>3. client.calm /\ (client.mode = "search" => contested = {}) =>
         /\ ToSet(client.shown \o <<>>) \subseteq Wanted
         /\ \A c \in ToSet(client.shown \o <<>>), d \in Wanted :
               Before(d, c) => d \in ToSet(client.shown \o <<>>)
         /\ Wanted \subseteq ToSet(client.shown \o <<>>)
  BY <1>1 DEF ScanInv, Whole
<1> QED
  BY <1>1, <1>2, <1>3, Answered

\* The index is asked.
LEMMA MatchScan == ASSUME IInv, ScanInv, Match PROVE ScanInv'
<1> USE ScanFields, SameOrder DEF NotReader, database
<1> DEFINE found == IF index = None THEN {} ELSE { c \in Clips : Matching(index[c]) }
<1>1. client.pc = "match" /\ client.mode = "search"
  BY DEF Match, Reader, ScanInv, ScanTyped
<1>2. UNCHANGED <<rows, unused, recency, pinned, jobs, index, contested>>
  BY DEF Match
<1>3. client.calm /\ contested = {} => (Visible \cap found) \ Unreadable = Wanted
  <2> SUFFICES ASSUME client.calm, contested = {} PROVE (Visible \cap found) \ Unreadable = Wanted
    OBVIOUS
  <2>1. index # None
    BY <1>1 DEF ScanInv, Quiet
  <2>2. \A c \in Visible \ Unreadable : index[c] = rows[c]
    BY <2>1, IndexIsRows
  <2> QED
    BY <1>1, <2>1, <2>2 DEF Wanted, Visible
<1>4. CASE found = {}
  <2>1. client' = Answer(<<>>)
    BY <1>4 DEF Match
  <2> QED
    BY <1>1, <1>2, <1>3, <1>4, <2>1, NothingMore
<1>5. CASE found # {}
  <2>1. /\ client'.pc = "order" /\ client'.candidates = found
        /\ \A f \in (DOMAIN client) \ {"pc", "candidates"} : client'[f] = client[f]
    BY <1>5 DEF Match
  <2>2. found \subseteq Clips /\ index # None
    BY <1>5
  <2> HIDE DEF found
  <2>3. /\ client'.mode = client.mode /\ client'.ids = client.ids /\ client'.start = client.start
        /\ client'.page = client.page /\ client'.shown = client.shown
        /\ client'.calm = client.calm /\ client'.moved = client.moved
        /\ client'.ended = client.ended
    BY <2>1
  <2>4. OrderTyped' /\ ScanTyped' /\ Quiet'
    BY <1>1, <1>2, <2>1, <2>2, <2>3 DEF ScanInv, OrderTyped, ScanTyped, Quiet
  <2>5. Scanned' = Scanned /\ Wanted' = Wanted /\ Visible' = Visible
    BY <1>2, <2>3 DEF Scanned, Wanted
  <2>6. Ahead'
    <3>1. \A s : Tidy(s)' = Tidy(s)
      BY <1>2 DEF Tidy
    <3> QED
      BY <1>2, <2>1, <2>3, <2>5, <3>1 DEF ScanInv, Ahead
  <2>7. Whole'
    BY <1>1, <1>2, <1>3, <2>1, <2>3, <2>5 DEF ScanInv, Whole
  <2> QED
    BY <2>4, <2>6, <2>7 DEF ScanInv
<1> QED
  BY <1>4, <1>5

\* Rows V in order, from the last row of s on, and the rows s itself.
LEMMA Continues ==
    ASSUME OrderTyped, NEW V \in SUBSET Visible, NEW s \in Seq(Clips), Tidy(s), s # <<>>,
           NEW k \in DOMAIN InOrder(V), InOrder(V)[k] = s[Len(s)]
    PROVE  /\ Behind(s, InOrder(V), k)
           /\ \A c \in V \cap ToSet(s) : \E i \in DOMAIN InOrder(V) : i <= k /\ InOrder(V)[i] = c
           /\ \A i \in DOMAIN InOrder(V) : i <= k =>
                 InOrder(V)[i] = s[Len(s)] \/ Before(InOrder(V)[i], s[Len(s)])
<1> DEFINE n == Cardinality(V)
           t == InOrder(V)
           l == s[Len(s)]
<1>1. V \in SUBSET Clips
  BY DEF Visible
<1>2. /\ n \in Nat /\ DOMAIN t = 1 .. n /\ \A i \in 1 .. n : t[i] \in V
      /\ \A c \in V : \E i \in 1 .. n : t[i] = c
      /\ \A i, j \in 1 .. n : i < j => Before(t[i], t[j])
  BY <1>1, Places, InOrderSorts DEF Sorted
<1>3. /\ Len(s) \in Nat \ {0} /\ DOMAIN s = 1 .. Len(s) /\ Len(s) \in DOMAIN s
      /\ \A i \in DOMAIN s : s[i] \in Clips
  OBVIOUS
<1>4. k \in 1 .. n /\ t[k] = l /\ l \in V /\ l \in Clips
  BY <1>1, <1>2
<1> HIDE DEF t, n
<1>5. \A j \in DOMAIN s : s[j] \in Visible => s[j] = l \/ Before(s[j], l)
  BY <1>3, <1>4 DEF Tidy
<1> HIDE DEF l
<1>6. \A i \in 1 .. n : t[i] \in Clips
  BY <1>1, <1>2
<1>7. \A i \in 1 .. n : k < i => Before(l, t[i])
  BY <1>2, <1>4
<1>8. \A c, d, e \in Clips : /\ ~Before(c, c)
                             /\ Before(c, d) /\ Before(d, e) => Before(c, e)
  BY TotalOrder
<1>9. ASSUME NEW i \in 1 .. n, k < i, NEW j \in DOMAIN s, s[j] \in Visible
      PROVE  Before(s[j], t[i])
  BY <1>3, <1>4, <1>5, <1>6, <1>7, <1>8, <1>9
<1>10. Behind(s, t, k)
  <2>1. ASSUME NEW i \in 1 .. n, k < i, NEW j \in DOMAIN s, s[j] = t[i] PROVE FALSE
    <3>1. s[j] \in Visible
      BY <1>2, <2>1
    <3> QED
      BY <1>6, <1>8, <1>9, <2>1, <3>1
  <2> QED
    BY <1>2, <1>9, <2>1 DEF Behind
<1>11. \A c \in V \cap ToSet(s) : \E i \in 1 .. n : i <= k /\ t[i] = c
  <2> SUFFICES ASSUME NEW j \in DOMAIN s, s[j] \in V
               PROVE  \E i \in 1 .. n : i <= k /\ t[i] = s[j]
    BY DEF ToSet
  <2>1. PICK i \in 1 .. n : t[i] = s[j]
    BY <1>2
  <2>2. ~(k < i)
    BY <1>6, <1>8, <1>9, <2>1
  <2> QED
    BY <1>2, <1>4, <2>1, <2>2
<1>12. \A i \in 1 .. n : i <= k => t[i] = l \/ Before(t[i], l)
  BY <1>2, <1>4
<1> QED
  BY <1>2, <1>10, <1>11, <1>12 DEF t, l

\* Where a page starts, when the last row shown is found or nothing was shown.
LEMMA Starts ==
    ASSUME ScanInv, client.pc = "order", NEW V \in SUBSET Visible,
           Tidy(client.shown), client.shown = <<>> \/ LastShown(InOrder(V)) # {}
    PROVE  /\ SourceStart(InOrder(V)) \in Nat
           /\ Behind(client.shown, InOrder(V), SourceStart(InOrder(V)))
           /\ \A c \in V \cap ToSet(client.shown) :
                 \E i \in DOMAIN InOrder(V) : i <= SourceStart(InOrder(V)) /\ InOrder(V)[i] = c
           /\ \A i \in DOMAIN InOrder(V) : i <= SourceStart(InOrder(V)) =>
                 /\ client.shown # <<>>
                 /\ \/ InOrder(V)[i] = Last(client.shown)
                    \/ Before(InOrder(V)[i], Last(client.shown))
<1> DEFINE t == InOrder(V)
           s == client.shown
<1>0. V \in SUBSET Clips /\ OrderTyped /\ s \in Seq(Clips)
  BY DEF Visible, ScanInv, ScanTyped
<1>1. Cardinality(V) \in Nat /\ DOMAIN t = 1 .. Cardinality(V)
  BY <1>0, Places, InOrderSorts
<1>2. CASE s = <<>>
  <2>1. SourceStart(t) = 0
    BY <1>2 DEF SourceStart, LastShown
  <2>2. DOMAIN s = {} /\ ToSet(s) = {}
    BY <1>2 DEF ToSet
  <2> HIDE DEF t
  <2> QED
    BY <1>1, <2>1, <2>2 DEF Behind, t
<1>3. CASE s # <<>>
  <2>1. LastShown(t) # {}
    BY <1>3
  <2> DEFINE k == SourceStart(t)
  <2>2. k \in LastShown(t)
    BY <2>1 DEF SourceStart
  <2>3. k \in DOMAIN t /\ t[k] = Last(s) /\ Last(s) = s[Len(s)]
    BY <2>2 DEF LastShown, Last
  <2>4. k \in Nat
    BY <1>1, <2>3
  <2> HIDE DEF k
  <2> QED
    BY <1>0, <1>3, <2>3, <2>4, Continues DEF k
<1> QED
  BY <1>2, <1>3

\* The candidates are put in order, and the last row shown is looked for.
LEMMA OrderScan == ASSUME IInv, ScanInv, Order PROVE ScanInv'
<1> USE ScanFields DEF NotReader, database
<1> DEFINE search == client.mode = "search"
           V == IF search THEN Visible \cap client.candidates ELSE Visible
           ids == InOrder(V)
           undisturbed == client.calm /\ (search => contested = {})
<1>1. client.pc = "order" /\ UNCHANGED <<rows, unused, recency, pinned, jobs, index, contested>>
  BY DEF Order, Reader
<1>2. V \in SUBSET Visible /\ V \in SUBSET Clips /\ OrderTyped
  BY DEF Visible, ScanInv
<1>3. /\ Cardinality(V) \in Nat /\ ids \in Seq(Clips) /\ DOMAIN ids = 1 .. Cardinality(V)
      /\ Len(ids) = Cardinality(V) /\ ToSet(ids) = V /\ Sorted(ids)
      /\ \A i \in DOMAIN ids : ids[i] \in V
      /\ \A c \in V : \E i \in DOMAIN ids : ids[i] = c
  <2> HIDE DEF V
  <2>1. /\ Cardinality(V) \in Nat /\ ids \in Seq(Clips) /\ DOMAIN ids = 1 .. Cardinality(V)
        /\ Len(ids) = Cardinality(V) /\ Sorted(ids)
        /\ \A i \in DOMAIN ids : ids[i] \in V
        /\ \A c \in V : \E i \in DOMAIN ids : ids[i] = c
    BY <1>2, Places, InOrderSorts
  <2> HIDE DEF ids
  <2>2. ToSet(ids) = V
    BY <2>1 DEF ToSet
  <2> QED
    BY <2>1, <2>2
<1>4. undisturbed => V \ Unreadable = Wanted
  BY <1>1 DEF ScanInv, Whole, Wanted
<1> HIDE DEF V, ids
<1>5. CASE search /\ ids = <<>>
  <2>1. client' = Answer(<<>>)
    BY <1>5 DEF Order, V, ids
  <2>2. V = {}
    BY <1>3, <1>5 DEF ToSet
  <2> QED
    BY <1>1, <1>4, <2>1, <2>2, NothingMore
<1>6. CASE ~(search /\ ids = <<>>)
  <2>1. /\ client'.pc = "fetch" /\ client'.start = SourceStart(ids)
        /\ client'.ids = (IF search THEN ids ELSE <<>>)
        /\ client'.moved = (client.moved \/ (client.shown # <<>> /\ LastShown(ids) = {}))
        /\ \A f \in (DOMAIN client) \ {"pc", "start", "ids", "moved"} : client'[f] = client[f]
    BY <1>6 DEF Order, V, ids
  <2>2. /\ client'.mode = client.mode /\ client'.candidates = client.candidates
        /\ client'.page = client.page /\ client'.shown = client.shown
        /\ client'.calm = client.calm /\ client'.ended = client.ended
    BY <2>1
  <2>3. client.page = <<>> /\ client.shown \in Seq(Clips) /\ Scanned = client.shown
    BY <1>1, NoPageYet
  <2>4. /\ \A c, d : Before(c, d)' = Before(c, d)
        /\ Visible' = Visible /\ \A S : InOrder(S)' = InOrder(S)
    BY <1>1, SameOrder
  <2>5. Scanned' = Scanned /\ Source' = ids /\ Wanted' = Wanted
    BY <1>1, <2>1, <2>2, <2>4 DEF Scanned, Source, Wanted, V, ids
  <2> DEFINE found == client.shown = <<>> \/ LastShown(ids) # {}
  <2>6. undisturbed => found
    <3> SUFFICES ASSUME undisturbed, client.shown # <<>> PROVE LastShown(ids) # {}
      OBVIOUS
    <3>1. Len(client.shown) \in DOMAIN client.shown
      BY <2>3
    <3>2. Last(client.shown) \in ToSet(Scanned)
      BY <2>3, <3>1 DEF Last, ToSet
    <3>3. Last(client.shown) \in V
      BY <1>4, <3>2 DEF ScanInv, Whole
    <3> QED
      BY <1>3, <3>3 DEF LastShown
  <2>7. SourceStart(ids) \in Nat
    <3>1. CASE LastShown(ids) = {}
      BY <2>3, <3>1 DEF SourceStart
    <3>2. CASE LastShown(ids) # {}
      <4>1. SourceStart(ids) \in LastShown(ids)
        BY <3>2 DEF SourceStart
      <4> QED
        BY <1>3, <4>1 DEF LastShown
    <3> QED
      BY <3>1, <3>2
  <2>8. OrderTyped' /\ ScanTyped'
    <3>1. client'.ids \in Seq(Clips)
      BY <1>3, <2>1
    <3>2. Len(client'.page) < Limit
      BY <2>2, <2>3, IndexAssumption
    <3> QED
      BY <1>1, <2>1, <2>2, <2>7, <3>1, <3>2 DEF ScanInv, OrderTyped, ScanTyped
  <2>9. Quiet'
    BY <1>1, <2>1, <2>2 DEF ScanInv, Quiet
  <2>10. Tidy(ids)
    <3>1. \A c \in Clips : ~Before(c, c)
      BY <1>2, TotalOrder
    <3> QED
      BY <1>2, <1>3, <3>1 DEF Tidy, Sorted
  <2>11. /\ \A s : Tidy(s)' = Tidy(s)
         /\ \A s, t, k : Behind(s, t, k)' = Behind(s, t, k)
    BY <2>4 DEF Tidy, Behind
  <2>12. Ahead'
    <3> SUFFICES ASSUME IF search THEN ~client'.moved ELSE client.calm PROVE Ahead'
      BY <2>2 DEF Ahead
    <3>1. found
      BY <2>1, <2>6
    <3>2. ToSet(Scanned) \cap unused = {} /\ Tidy(client.shown)
      BY <2>1, <2>3 DEF ScanInv, Ahead
    <3>3. ToSet(client'.ids) \cap unused = {}
      <4>1. V \cap unused = {}
        BY <1>2 DEF IInv, FreshOnce, Visible
      <4>2. ToSet(<<>>) = {}
        BY DEF ToSet
      <4> QED
        BY <1>3, <2>1, <4>1, <4>2
    <3>4. Behind(client.shown, ids, SourceStart(ids))
      BY <1>1, <1>2, <3>1, <3>2, Starts DEF ids
    <3> QED
      BY <1>1, <2>1, <2>3, <2>5, <2>10, <2>11, <3>2, <3>3, <3>4 DEF Ahead
  <2>13. Whole'
    <3> SUFFICES ASSUME undisturbed PROVE Whole'
      BY <1>1, <2>2 DEF Whole
    <3>1. found /\ (search => ~client'.moved) /\ Tidy(client.shown)
      BY <2>1, <2>3, <2>6 DEF ScanInv, Whole, Ahead
    <3>2. ToSet(Scanned) \subseteq Wanted
          /\ \A c \in ToSet(Scanned), d \in Wanted : Before(d, c) => d \in ToSet(Scanned)
      BY DEF ScanInv, Whole
    <3>3. ASSUME NEW c \in Wanted
          PROVE  c \in ToSet(Scanned) <=>
                    \E i \in DOMAIN ids : i <= SourceStart(ids) /\ ids[i] = c
      <4>1. c \in V
        BY <1>4
      <4>2. ASSUME c \in ToSet(Scanned)
            PROVE  \E i \in DOMAIN ids : i <= SourceStart(ids) /\ ids[i] = c
        BY <1>1, <1>2, <2>3, <3>1, <4>1, <4>2, Starts DEF ids
      <4>3. ASSUME NEW i \in DOMAIN ids, i <= SourceStart(ids), ids[i] = c
            PROVE  c \in ToSet(Scanned)
        <5>1. client.shown # <<>> /\ (c = Last(client.shown) \/ Before(c, Last(client.shown)))
          BY <1>1, <1>2, <3>1, <4>3, Starts DEF ids
        <5>2. Len(client.shown) \in DOMAIN client.shown
          BY <2>3, <5>1
        <5>3. Last(client.shown) \in ToSet(Scanned)
          BY <2>3, <5>2 DEF Last, ToSet
        <5> QED
          BY <3>2, <5>1, <5>3
      <4> QED
        BY <4>2, <4>3
    <3>4. ToSet(ids) \subseteq Visible /\ ToSet(ids) \ Unreadable = Wanted
      BY <1>2, <1>3, <1>4
    <3>5. ~client.ended
      BY <1>1 DEF ScanInv, ScanTyped
    <3> QED
      BY <2>1, <2>2, <2>4, <2>5, <3>1, <3>2, <3>3, <3>4, <3>5 DEF Whole
  <2> QED
    BY <2>8, <2>9, <2>12, <2>13 DEF ScanInv
<1> QED
  BY <1>5, <1>6

----------------------------------------------------------------------------
(* The batches of a page.                                                  *)

\* What a sequence has that another continues.
LEMMA Joined ==
    ASSUME NEW s \in Seq(Clips), NEW b \in Seq(Clips)
    PROVE  /\ s \o b \in Seq(Clips) /\ DOMAIN (s \o b) = 1 .. Len(s) + Len(b)
           /\ DOMAIN s = 1 .. Len(s) /\ DOMAIN b = 1 .. Len(b)
           /\ Len(s) \in Nat /\ Len(b) \in Nat
           /\ \A i \in 1 .. Len(s) : (s \o b)[i] = s[i]
           /\ \A i \in 1 .. Len(b) : (s \o b)[Len(s) + i] = b[i]
           /\ \A i \in 1 .. Len(s) + Len(b) : i > Len(s) =>
                 i - Len(s) \in 1 .. Len(b) /\ (s \o b)[i] = b[i - Len(s)]
           /\ ToSet(s \o b) = ToSet(s) \cup ToSet(b)
<1>1. /\ s \o b \in Seq(Clips) /\ DOMAIN (s \o b) = 1 .. Len(s) + Len(b)
      /\ DOMAIN s = 1 .. Len(s) /\ DOMAIN b = 1 .. Len(b)
      /\ Len(s) \in Nat /\ Len(b) \in Nat
      /\ \A i \in 1 .. Len(s) : (s \o b)[i] = s[i]
      /\ \A i \in 1 .. Len(s) + Len(b) : i > Len(s) =>
            i - Len(s) \in 1 .. Len(b) /\ (s \o b)[i] = b[i - Len(s)]
  OBVIOUS
<1>2. \A i \in 1 .. Len(b) : (s \o b)[Len(s) + i] = b[i]
  OBVIOUS
<1>3. ToSet(s \o b) \subseteq ToSet(s) \cup ToSet(b)
  BY <1>1 DEF ToSet
<1>4. ToSet(s) \subseteq ToSet(s \o b)
  BY <1>1 DEF ToSet
<1>5. ToSet(b) \subseteq ToSet(s \o b)
  <2> SUFFICES ASSUME NEW i \in 1 .. Len(b) PROVE b[i] \in ToSet(s \o b)
    BY <1>1 DEF ToSet
  <2>1. Len(s) + i \in DOMAIN (s \o b) /\ (s \o b)[Len(s) + i] = b[i]
    BY <1>1, <1>2
  <2> QED
    BY <2>1 DEF ToSet
<1> QED
  BY <1>1, <1>2, <1>3, <1>4, <1>5

\* Three sequences are continued in either way.
LEMMA JoinedTwice ==
    \A s, t, u \in Seq(Clips) : (s \o t) \o u = s \o (t \o u)
BY ConcatAssociative

\* Rows B, from the places k to n of the source t, behind the rows s.
LEMMA Appends ==
    ASSUME OrderTyped, NEW s \in Seq(Clips), NEW t \in Seq(Clips), NEW k \in Nat, NEW n \in Nat,
           k <= n, Tidy(s), Tidy(t), Behind(s, t, k), NEW B \in SUBSET Visible,
           \A c \in B : \E i \in DOMAIN t : k < i /\ i <= n /\ t[i] = c
    PROVE  Tidy(s \o InOrder(B)) /\ Behind(s \o InOrder(B), t, n)
<1> DEFINE b == InOrder(B)
           r == s \o b
<1>1. B \in SUBSET Clips
  BY DEF Visible
<1>2. /\ b \in Seq(Clips) /\ \A i \in DOMAIN b : b[i] \in B
      /\ \A i, j \in DOMAIN b : i < j => Before(b[i], b[j])
  BY <1>1, InOrderSorts DEF Sorted
<1> HIDE DEF b
<1>3. /\ DOMAIN r = 1 .. Len(s) + Len(b) /\ DOMAIN s = 1 .. Len(s) /\ DOMAIN b = 1 .. Len(b)
      /\ Len(s) \in Nat /\ Len(b) \in Nat
      /\ \A i \in 1 .. Len(s) : r[i] = s[i]
      /\ \A i \in 1 .. Len(s) + Len(b) : i > Len(s) =>
            i - Len(s) \in 1 .. Len(b) /\ r[i] = b[i - Len(s)]
  BY <1>2, Joined
<1> HIDE DEF r
<1>4. \A c \in Clips : ~Before(c, c)
  BY TotalOrder
<1>5. \A i, j \in DOMAIN b : b[i] = b[j] => i = j
  BY <1>1, <1>2, <1>3, <1>4
<1>6. \A i \in DOMAIN s, c \in B : s[i] # c /\ (s[i] \in Visible => Before(s[i], c))
  BY DEF Behind
<1>7. \A i \in DOMAIN t : DOMAIN t = 1 .. Len(t) /\ Len(t) \in Nat /\ t[i] \in Clips
  OBVIOUS
<1>8. \A i \in DOMAIN t, c \in B : n < i /\ t[i] \in Visible => c # t[i] /\ Before(c, t[i])
  <2> SUFFICES ASSUME NEW i \in DOMAIN t, NEW c \in B, n < i, t[i] \in Visible
               PROVE  c # t[i] /\ Before(c, t[i])
    OBVIOUS
  <2>1. PICK j \in DOMAIN t : j <= n /\ t[j] = c
    OBVIOUS
  <2>2. j < i
    BY <1>7, <2>1
  <2>3. Before(c, t[i])
    BY <2>1, <2>2 DEF Tidy
  <2> QED
    BY <1>4, <1>7, <2>3
<1>9. \A i, j \in DOMAIN r : r[i] = r[j] => i = j
  <2>1. ASSUME NEW i \in 1 .. Len(s), NEW j \in DOMAIN r, r[i] = r[j] PROVE i = j
    <3>1. CASE j <= Len(s)
      BY <1>3, <2>1, <3>1 DEF Tidy
    <3>2. CASE j > Len(s)
      BY <1>2, <1>3, <1>6, <2>1, <3>2
    <3> QED
      BY <1>3, <3>1, <3>2
  <2>2. ASSUME NEW i \in DOMAIN r, NEW j \in DOMAIN r, i > Len(s), j > Len(s), r[i] = r[j]
        PROVE  i = j
    <3>1. i - Len(s) \in DOMAIN b /\ j - Len(s) \in DOMAIN b /\ r[i] = b[i - Len(s)]
            /\ r[j] = b[j - Len(s)]
      BY <1>3, <2>2
    <3>2. i - Len(s) = j - Len(s)
      BY <1>5, <2>2, <3>1
    <3> QED
      BY <1>3, <3>2
  <2> QED
    BY <1>3, <2>1, <2>2
<1>10. \A i, j \in DOMAIN r : i < j /\ r[i] \in Visible /\ r[j] \in Visible => Before(r[i], r[j])
  <2> SUFFICES ASSUME NEW i \in DOMAIN r, NEW j \in DOMAIN r, i < j, r[i] \in Visible,
                      r[j] \in Visible
               PROVE  Before(r[i], r[j])
    OBVIOUS
  <2>1. CASE j <= Len(s)
    BY <1>3, <2>1 DEF Tidy
  <2>2. CASE i <= Len(s) /\ j > Len(s)
    BY <1>2, <1>3, <1>6, <2>2
  <2>3. CASE i > Len(s)
    <3>1. i - Len(s) \in DOMAIN b /\ j - Len(s) \in DOMAIN b /\ r[i] = b[i - Len(s)]
            /\ r[j] = b[j - Len(s)] /\ i - Len(s) < j - Len(s)
      BY <1>3, <2>3
    <3> QED
      BY <1>2, <3>1
  <2> QED
    BY <1>3, <2>1, <2>2, <2>3
<1>11. Tidy(r)
  BY <1>9, <1>10 DEF Tidy
<1>12. Behind(r, t, n)
  <2> SUFFICES ASSUME NEW i \in DOMAIN t, n < i, t[i] \in Visible, NEW j \in DOMAIN r
               PROVE  r[j] # t[i] /\ (r[j] \in Visible => Before(r[j], t[i]))
    BY DEF Behind
  <2>1. CASE j <= Len(s)
    BY <1>3, <1>7, <2>1 DEF Behind
  <2>2. CASE j > Len(s)
    BY <1>2, <1>3, <1>8, <2>2
  <2> QED
    BY <1>3, <2>1, <2>2
<1> QED
  BY <1>11, <1>12 DEF r, b

\* The first rows of what is tidy.
LEMMA FirstRows ==
    ASSUME OrderTyped, NEW r \in Seq(Clips), NEW q \in Seq(Clips), Tidy(r), Len(q) <= Len(r),
           \A i \in 1 .. Len(q) : q[i] = r[i]
    PROVE  /\ Tidy(q) /\ ToSet(q) \subseteq ToSet(r)
           /\ \A c \in ToSet(q), d \in ToSet(r) :
                 c \in Visible /\ d \in Visible /\ Before(d, c) => d \in ToSet(q)
<1>1. /\ DOMAIN q = 1 .. Len(q) /\ DOMAIN r = 1 .. Len(r) /\ DOMAIN q \subseteq DOMAIN r
      /\ \A i \in DOMAIN q : q[i] = r[i]
      /\ Len(q) \in Nat /\ Len(r) \in Nat
  OBVIOUS
<1>2. Tidy(q)
  BY <1>1 DEF Tidy
<1>3. ToSet(q) \subseteq ToSet(r)
  BY <1>1 DEF ToSet
<1>4. ASSUME NEW i \in DOMAIN q, NEW j \in DOMAIN r, q[i] \in Visible, r[j] \in Visible,
             Before(r[j], q[i])
      PROVE  r[j] \in ToSet(q)
  <2>1. \A c, d \in Clips : ~(Before(c, d) /\ Before(d, c)) /\ ~Before(c, c)
    BY TotalOrder
  <2>2. r[j] \in Clips /\ q[i] \in Clips
    BY <1>1
  <2>3. ~(i < j)
    BY <1>1, <1>4, <2>1, <2>2 DEF Tidy
  <2>4. j \in DOMAIN q
    BY <1>1, <2>3
  <2> QED
    BY <1>1, <2>4 DEF ToSet
<1>5. \A c \in ToSet(q), d \in ToSet(r) :
         c \in Visible /\ d \in Visible /\ Before(d, c) => d \in ToSet(q)
  BY <1>4 DEF ToSet
<1> QED
  BY <1>2, <1>3, <1>5

\* A batch that is not full is the last.
LEMMA ShortBatch ==
    ASSUME OrderTyped, NEW k \in Nat, Cardinality(Visible) > k + Limit, NEW B,
           B = { c \in Visible : \E i \in DOMAIN InOrder(Visible) :
                    k < i /\ i <= k + Limit /\ InOrder(Visible)[i] = c }
    PROVE  Cardinality(B) = Limit
<1> DEFINE n == Cardinality(Visible)
           t == InOrder(Visible)
           f == [i \in 1 .. Limit |-> t[k + i]]
<1>1. Visible \in SUBSET Clips
  BY DEF Visible
<1>2. n \in Nat /\ Limit \in Nat
  BY <1>1, Places, IndexAssumption
<1>3. /\ DOMAIN t = 1 .. n /\ \A i \in 1 .. n : t[i] \in Visible
      /\ \A i, j \in 1 .. n : i < j => Before(t[i], t[j])
  BY <1>1, InOrderSorts DEF Sorted
<1>4. \A c : c \in B <=> /\ c \in Visible
                           /\ \E i \in DOMAIN t : k < i /\ i <= k + Limit /\ t[i] = c
  OBVIOUS
<1> HIDE DEF t, n
<1>5. \A c \in Visible : ~Before(c, c)
  BY <1>1, TotalOrder
<1>6. \A i, j \in 1 .. n : t[i] = t[j] => i = j
  BY <1>3, <1>5
<1>7. n > k + Limit
  BY DEF n
<1>8. f \in [1 .. Limit -> B]
  <2> SUFFICES ASSUME NEW i \in 1 .. Limit PROVE t[k + i] \in B
    OBVIOUS
  <2>1. k + i \in 1 .. n /\ k < k + i /\ k + i <= k + Limit
    BY <1>2, <1>7
  <2> QED
    BY <1>3, <1>4, <2>1
<1>9. f \in Injection(1 .. Limit, B)
  BY <1>2, <1>6, <1>7, <1>8 DEF Injection, IsInjective
<1>10. \A c \in B : \E i \in 1 .. Limit : f[i] = c
  <2> SUFFICES ASSUME NEW i \in 1 .. n, k < i, i <= k + Limit
               PROVE  \E j \in 1 .. Limit : f[j] = t[i]
    BY <1>3, <1>4
  <2>1. i - k \in 1 .. Limit /\ k + (i - k) = i
    BY <1>2
  <2> QED
    BY <2>1
<1>11. ExistsBijection(1 .. Limit, B)
  <2>1. f \in Surjection(1 .. Limit, B)
    BY <1>8, <1>10 DEF Surjection
  <2> QED
    BY <1>9, <2>1 DEF ExistsBijection, Bijection
<1>12. Cardinality(B) = Limit
  BY <1>2, <1>11, FS_CountingElements
<1> QED
  BY <1>12

\* A batch is fetched.
LEMMA FetchScan == ASSUME IInv, ScanInv, Fetch PROVE ScanInv'
<1> USE ScanFields DEF NotReader, database
<1> DEFINE search == client.mode = "search"
           t == Source
           k == client.start
           n == k + Limit
           B == Batch(t)
           R == B \ Unreadable
           b == InOrder(R)
           page == client.page \o b
           r == Scanned \o b
           full == Len(page) >= Limit
           exhausted == IF search THEN k + Limit >= Len(t) ELSE Cardinality(B) < Limit
           tidy == IF search THEN ~client.moved ELSE client.calm
           undisturbed == client.calm /\ (search => contested = {})
<1>1. /\ client.pc = "fetch"
      /\ UNCHANGED <<rows, unused, recency, pinned, jobs, index, contested>>
      /\ client' = IF full THEN Answer(SubSeq(page, 1, Limit))
                   ELSE IF exhausted THEN Answer(page)
                   ELSE [client EXCEPT !.page = page, !.start = @ + Limit]
  BY DEF Fetch, Reader, Source
<1>2. /\ OrderTyped /\ client.page \in Seq(Clips) /\ client.shown \in Seq(Clips)
      /\ Len(client.page) < Limit /\ k \in Nat /\ Limit \in Nat \ {0} /\ n \in Nat /\ k <= n
  BY <1>1, IndexAssumption DEF ScanInv, ScanTyped
<1>3. /\ R \in SUBSET Visible /\ R \in SUBSET Clips
      /\ \A c \in R : \E i \in DOMAIN t : k < i /\ i <= n /\ t[i] = c
      /\ \A c \in Visible \ Unreadable :
            (\E i \in DOMAIN t : k < i /\ i <= n /\ t[i] = c) => c \in R
  BY DEF Batch, Visible
<1>4. b \in Seq(Clips) /\ ToSet(b) = R
  <2> HIDE DEF R
  <2>1. /\ b \in Seq(Clips) /\ \A i \in DOMAIN b : b[i] \in R
        /\ \A c \in R : \E i \in DOMAIN b : b[i] = c
    BY <1>2, <1>3, InOrderSorts
  <2> HIDE DEF b
  <2> QED
    BY <2>1 DEF ToSet
<1>5. /\ t \in Seq(Clips)
      /\ ~search => t = InOrder(Visible) /\ Len(t) = Cardinality(Visible)
                      /\ Cardinality(Visible) \in Nat
  <2>1. Visible \in SUBSET Clips
    BY DEF Visible
  <2>2. InOrder(Visible) \in Seq(Clips) /\ Len(InOrder(Visible)) = Cardinality(Visible)
          /\ Cardinality(Visible) \in Nat
    BY <1>2, <2>1, Places, InOrderSorts
  <2> QED
    BY <2>2 DEF Source, ScanInv, ScanTyped
<1>6. ~search => (Cardinality(B) < Limit => Len(t) <= n)
  <2> SUFFICES ASSUME ~search, Len(t) > n PROVE Cardinality(B) = Limit
    BY <1>2, <1>5
  <2>1. B = { c \in Visible : \E i \in DOMAIN InOrder(Visible) :
                 k < i /\ i <= k + Limit /\ InOrder(Visible)[i] = c }
    BY <1>5 DEF Batch
  <2> HIDE DEF B
  <2> QED
    BY <1>2, <1>5, <2>1, ShortBatch
<1>7. exhausted => Len(t) <= n
  BY <1>2, <1>5, <1>6
<1>8. Scanned = client.shown \o client.page /\ Scanned \in Seq(Clips)
  BY <1>2 DEF Scanned
<1> HIDE DEF t, k, n, B, R, b
<1>9. /\ r \in Seq(Clips) /\ page \in Seq(Clips) /\ r = client.shown \o page
      /\ ToSet(r) = ToSet(Scanned) \cup R
      /\ Len(r) = Len(client.shown) + Len(page)
  <2>1. r \in Seq(Clips) /\ page \in Seq(Clips) /\ ToSet(r) = ToSet(Scanned) \cup ToSet(b)
    BY <1>2, <1>4, <1>8, Joined
  <2>2. (client.shown \o client.page) \o b = client.shown \o (client.page \o b)
    BY <1>2, <1>4, JoinedTwice
  <2>3. Len(client.shown \o page) = Len(client.shown) + Len(page)
    BY <1>2, <2>1
  <2> QED
    BY <1>4, <1>8, <2>1, <2>2, <2>3
<1>10. tidy => Tidy(r) /\ Behind(r, t, n) /\ Tidy(t) /\ ToSet(r) \cap unused = {}
  <2> SUFFICES ASSUME tidy
               PROVE  Tidy(r) /\ Behind(r, t, n) /\ Tidy(t) /\ ToSet(r) \cap unused = {}
    OBVIOUS
  <2>1. Tidy(Scanned) /\ Tidy(t) /\ Behind(Scanned, t, k) /\ ToSet(Scanned) \cap unused = {}
    BY <1>1 DEF ScanInv, Ahead, t, k
  <2>2. Tidy(r) /\ Behind(r, t, n)
    <3>1. OrderTyped /\ Scanned \in Seq(Clips) /\ t \in Seq(Clips) /\ k \in Nat /\ n \in Nat
            /\ k <= n /\ R \in SUBSET Visible
            /\ \A c \in R : \E i \in DOMAIN t : k < i /\ i <= n /\ t[i] = c
      BY <1>2, <1>3, <1>5, <1>8
    <3>2. Tidy(Scanned \o InOrder(R)) /\ Behind(Scanned \o InOrder(R), t, n)
      BY <2>1, <3>1, Appends
    <3> QED
      BY <3>2 DEF b
  <2>3. R \cap unused = {}
    BY <1>3 DEF IInv, FreshOnce, Visible
  <2> QED
    BY <1>9, <2>1, <2>2, <2>3
<1>11. undisturbed =>
         /\ tidy
         /\ ToSet(t) \subseteq Visible /\ ToSet(t) \ Unreadable = Wanted
         /\ \A c \in Wanted : c \in ToSet(r) <=> \E i \in DOMAIN t : i <= n /\ t[i] = c
         /\ ToSet(r) \subseteq Wanted
         /\ \A c \in ToSet(r), d \in Wanted : Before(d, c) => d \in ToSet(r)
         /\ Len(t) <= n => Wanted \subseteq ToSet(r)
  <2> SUFFICES ASSUME undisturbed
               PROVE  /\ tidy
                      /\ ToSet(t) \subseteq Visible /\ ToSet(t) \ Unreadable = Wanted
                      /\ \A c \in Wanted : c \in ToSet(r) <=> \E i \in DOMAIN t : i <= n /\ t[i] = c
                      /\ ToSet(r) \subseteq Wanted
                      /\ \A c \in ToSet(r), d \in Wanted : Before(d, c) => d \in ToSet(r)
                      /\ Len(t) <= n => Wanted \subseteq ToSet(r)
    OBVIOUS
  <2>1. /\ tidy
        /\ ToSet(Scanned) \subseteq Wanted
        /\ ToSet(t) \subseteq Visible /\ ToSet(t) \ Unreadable = Wanted
        /\ \A c \in Wanted : c \in ToSet(Scanned) <=> \E i \in DOMAIN t : i <= k /\ t[i] = c
    BY <1>1 DEF ScanInv, Whole, t, k
  <2>2. Wanted \subseteq Visible \ Unreadable /\ Wanted \subseteq Clips
    BY DEF Wanted, Visible
  <2>3. /\ DOMAIN t = 1 .. Len(t) /\ Len(t) \in Nat
        /\ \A c : c \in ToSet(t) <=> \E i \in DOMAIN t : t[i] = c
    BY <1>5 DEF ToSet
  <2>4. R \subseteq Wanted
    BY <1>3, <2>1, <2>3 DEF R
  <2>5. \A c \in Wanted : c \in ToSet(r) <=> \E i \in DOMAIN t : i <= n /\ t[i] = c
    <3> SUFFICES ASSUME NEW c \in Wanted
                 PROVE  c \in ToSet(r) <=> \E i \in DOMAIN t : i <= n /\ t[i] = c
      OBVIOUS
    <3>1. c \in ToSet(r) => \E i \in DOMAIN t : i <= n /\ t[i] = c
      BY <1>2, <1>3, <1>9, <2>1, <2>3
    <3>2. ASSUME NEW i \in DOMAIN t, i <= n, t[i] = c PROVE c \in ToSet(r)
      BY <1>2, <1>3, <1>9, <2>1, <2>2, <2>3, <3>2
    <3> QED
      BY <3>1, <3>2
  <2>6. ToSet(r) \subseteq Wanted
    BY <1>9, <2>1, <2>4
  <2>7. ASSUME NEW c \in ToSet(r), NEW d \in Wanted, Before(d, c) PROVE d \in ToSet(r)
    <3>1. PICK i \in DOMAIN t : i <= n /\ t[i] = c
      BY <2>5, <2>6
    <3>2. PICK j \in DOMAIN t : t[j] = d
      BY <2>1, <2>3
    <3>3. ~Before(c, d) /\ c # d
      BY <1>2, <2>2, <2>6, <2>7, TotalOrder
    <3>4. ~(i < j)
      BY <1>10, <2>1, <2>2, <2>6, <3>1, <3>2, <3>3 DEF Tidy
    <3>5. j <= n
      BY <1>2, <2>3, <3>1, <3>4
    <3> QED
      BY <2>5, <3>2, <3>5
  <2>8. Len(t) <= n => Wanted \subseteq ToSet(r)
    BY <1>2, <2>1, <2>3, <2>5
  <2> QED
    BY <2>1, <2>5, <2>6, <2>7, <2>8
<1>12. CASE full
  <2> DEFINE p == SubSeq(page, 1, Limit)
             q == client.shown \o p
  <2>1. Len(page) \in Nat /\ Limit \in 1 .. Len(page)
    BY <1>2, <1>9, <1>12
  <2>2. p \in Seq(Clips) /\ Len(p) = Limit /\ \A i \in 1 .. Limit : p[i] = page[i]
    BY <1>2, <1>9, <2>1
  <2> HIDE DEF p, page
  <2>3. /\ DOMAIN r = 1 .. Len(client.shown) + Len(page) /\ Len(client.shown) \in Nat
        /\ \A i \in 1 .. Len(client.shown) : r[i] = client.shown[i]
        /\ \A i \in 1 .. Len(client.shown) + Len(page) : i > Len(client.shown) =>
              r[i] = page[i - Len(client.shown)]
    <3>1. r = client.shown \o page /\ page \in Seq(Clips)
      BY <1>9
    <3> HIDE DEF r
    <3> QED
      BY <1>2, <3>1, Joined
  <2>4. /\ q \in Seq(Clips) /\ DOMAIN q = 1 .. Len(client.shown) + Limit
        /\ \A i \in 1 .. Len(client.shown) : q[i] = client.shown[i]
        /\ \A i \in 1 .. Len(client.shown) + Limit : i > Len(client.shown) =>
              i - Len(client.shown) \in 1 .. Limit /\ q[i] = p[i - Len(client.shown)]
    BY <1>2, <2>2, Joined
  <2> HIDE DEF q, r
  <2>5. Len(q) = Len(client.shown) + Limit
    BY <1>2, <2>3, <2>4
  <2>6. Len(q) <= Len(r) /\ \A i \in 1 .. Len(q) : q[i] = r[i]
    <3>1. Len(q) <= Len(r)
      BY <1>9, <2>1, <2>3, <2>5
    <3>2. ASSUME NEW i \in 1 .. Len(q) PROVE q[i] = r[i]
      <4>1. CASE i <= Len(client.shown)
        BY <2>3, <2>4, <3>2, <4>1
      <4>2. CASE i > Len(client.shown)
        <5>1. i \in 1 .. Len(client.shown) + Limit /\ i \in 1 .. Len(client.shown) + Len(page)
          BY <1>2, <2>1, <2>3, <2>5, <3>2
        <5> QED
          BY <2>2, <2>3, <2>4, <4>2, <5>1
      <4> QED
        BY <2>3, <4>1, <4>2
    <3> QED
      BY <3>1, <3>2
  <2>7. tidy => /\ Tidy(q) /\ ToSet(q) \subseteq ToSet(r)
                /\ \A c \in ToSet(q), d \in ToSet(r) :
                      c \in Visible /\ d \in Visible /\ Before(d, c) => d \in ToSet(q)
    <3> SUFFICES ASSUME Tidy(r)
                 PROVE  /\ Tidy(q) /\ ToSet(q) \subseteq ToSet(r)
                        /\ \A c \in ToSet(q), d \in ToSet(r) :
                              c \in Visible /\ d \in Visible /\ Before(d, c) => d \in ToSet(q)
      BY <1>10
    <3> QED
      BY <1>2, <1>9, <2>4, <2>6, FirstRows
  <2>8. tidy => ToSet(q) \cap unused = {} /\ Tidy(q)
    BY <1>10, <2>7
  <2>9. undisturbed =>
           /\ ToSet(q) \subseteq Wanted
           /\ \A c \in ToSet(q), d \in Wanted : Before(d, c) => d \in ToSet(q)
    <3>1. Wanted \subseteq Visible
      BY DEF Wanted
    <3> QED
      BY <1>11, <2>7, <3>1
  <2>10. ~(Len(p) < Limit)
    BY <1>2, <2>2
  <2>11. client' = Answer(p)
    BY <1>1, <1>12 DEF p, page
  <2> QED
    BY <1>1, <2>2, <2>8, <2>9, <2>10, <2>11, Answered DEF q
<1>13. CASE ~full /\ exhausted
  <2>1. client' = Answer(page)
    BY <1>1, <1>13
  <2>2. undisturbed => Wanted \subseteq ToSet(r)
    BY <1>7, <1>11, <1>13
  <2>3. /\ page \in Seq(Clips)
        /\ tidy => ToSet(client.shown \o page) \cap unused = {} /\ Tidy(client.shown \o page)
        /\ undisturbed =>
             /\ ToSet(client.shown \o page) \subseteq Wanted
             /\ \A c \in ToSet(client.shown \o page), d \in Wanted :
                   Before(d, c) => d \in ToSet(client.shown \o page)
             /\ Wanted \subseteq ToSet(client.shown \o page)
    BY <1>9, <1>10, <1>11, <2>2
  <2> HIDE DEF page
  <2> QED
    BY <1>1, <2>1, <2>3, Answered
<1>14. CASE ~full /\ ~exhausted
  <2>1. /\ client'.page = page /\ client'.start = n
        /\ \A f \in (DOMAIN client) \ {"page", "start"} : client'[f] = client[f]
    BY <1>1, <1>14 DEF n, k
  <2>2. /\ client'.mode = client.mode /\ client'.candidates = client.candidates
        /\ client'.ids = client.ids /\ client'.shown = client.shown /\ client'.pc = client.pc
        /\ client'.calm = client.calm /\ client'.moved = client.moved
        /\ client'.ended = client.ended
    BY <2>1
  <2>3. Len(page) < Limit
    BY <1>2, <1>9, <1>14
  <2> HIDE DEF page
  <2>4. OrderTyped' /\ ScanTyped' /\ Quiet'
    BY <1>1, <1>2, <1>9, <2>1, <2>2, <2>3 DEF ScanInv, OrderTyped, ScanTyped, Quiet
  <2>5. /\ \A c, d : Before(c, d)' = Before(c, d)
        /\ Visible' = Visible /\ \A S : InOrder(S)' = InOrder(S)
    BY <1>1, SameOrder
  <2>6. Scanned' = r /\ Source' = t /\ Wanted' = Wanted
    BY <1>1, <1>9, <2>1, <2>2, <2>5 DEF Scanned, Source, Wanted, t
  <2>7. /\ \A s : Tidy(s)' = Tidy(s)
        /\ \A s, u, i : Behind(s, u, i)' = Behind(s, u, i)
    BY <2>5 DEF Tidy, Behind
  <2> HIDE DEF r
  <2>8. Ahead'
    <3>1. tidy => ToSet(client.ids) \cap unused = {}
      BY DEF ScanInv, Ahead
    <3> QED
      BY <1>1, <1>10, <2>1, <2>2, <2>6, <2>7, <3>1 DEF Ahead
  <2>9. Whole'
    <3>1. ~client.ended /\ (undisturbed => (search => ~client.moved))
      BY <1>1 DEF ScanInv, ScanTyped, Whole
    <3> QED
      BY <1>1, <1>11, <2>1, <2>2, <2>5, <2>6, <3>1 DEF Whole
  <2> QED
    BY <2>4, <2>8, <2>9 DEF ScanInv
<1> QED
  BY <1>12, <1>13, <1>14

\* Every step of the writers, the user and the reader keeps the invariant of the scan.
LEMMA NextScan == ASSUME IInv, ScanInv, [Next]_vars PROVE ScanInv'
<1>1. CASE ReaderStep
  BY <1>1, BuildScan, MatchScan, OrderScan, FetchScan DEF ReaderStep
<1>2. CASE CaptureStep
  BY <1>2, CaptureScan, OtherScan, ChangeScan DEF CaptureStep, Writers
<1>3. CASE UserStep
  BY <1>3, OtherScan, ChangeScan DEF UserStep, Writers
<1>4. CASE \E S \in SUBSET Clips : Sweep(S) \/ CaptureRetention(S)
  BY <1>4, ChangeScan
<1>5. ASSUME NEW c \in Clips,
             \/ \E b \in BOOLEAN :
                   CaptureLookUp(c, b) \/ EditCheck(c, b) \/ Annotate(c, b) \/ Delete(c, b)
             \/ Use(c) \/ Pin(c)
      PROVE  ScanInv'
  BY <1>5, LookScan, ChangeScan, OtherScan
<1>6. CASE (\E mode \in {"list", "search"} : Open(mode)) \/ NextPage
  BY <1>6, OpenScan, BuildScan
<1>7. CASE UNCHANGED vars
  BY <1>7, Elsewhere DEF vars, ScanInv, Quiet
<1> QED
  BY <1>1, <1>2, <1>3, <1>4, <1>5, <1>6, <1>7 DEF Next

\* An undisturbed scan that has come to its end has shown what it should.
LEMMA WholeIsExact == ASSUME IInv, ScanInv PROVE ScansAreExact
<1>1. WholeScan
  <2> SUFFICES ASSUME client.pc = "idle", client.ended, client.calm, contested = {}
               PROVE  client.shown = InOrder(Wanted)
    BY DEF WholeScan, Reader
  <2>1. Scanned = client.shown /\ client.shown \in Seq(Clips)
    BY NoPageYet
  <2>2. ToSet(client.shown) = Wanted
    BY <2>1 DEF ScanInv, Whole
  <2>3. Tidy(client.shown)
    BY <2>1 DEF ScanInv, Whole, Ahead
  <2>4. Wanted \subseteq Visible /\ Wanted \in SUBSET Clips
    BY DEF Wanted, Visible
  <2>5. /\ DOMAIN client.shown = 1 .. Len(client.shown)
        /\ \A i \in DOMAIN client.shown : client.shown[i] \in Wanted
        /\ \A c \in Wanted : \E i \in DOMAIN client.shown : client.shown[i] = c
    BY <2>1, <2>2 DEF ToSet
  <2>6. client.shown \in Seq(Wanted)
    BY <2>1, <2>5
  <2>7. Sorted(client.shown)
    BY <2>3, <2>4, <2>5 DEF Tidy, Sorted
  <2> QED
    BY <2>4, <2>5, <2>6, <2>7, SortedIsInOrder DEF ScanInv
<1>2. NoRowTwice
  <2> SUFFICES ASSUME client.mode = "search", ~client.moved,
                      NEW i \in DOMAIN client.shown, NEW j \in DOMAIN client.shown,
                      client.shown[i] = client.shown[j]
               PROVE  i = j
    BY DEF NoRowTwice
  <2>1. Tidy(Scanned)
    BY DEF ScanInv, Ahead
  <2>2. client.shown \in Seq(Clips) /\ client.page \in Seq(Clips)
    BY DEF ScanInv, ScanTyped
  <2> DEFINE m == Len(client.shown)
             n == Len(client.page)
  <2>3. /\ DOMAIN Scanned = 1 .. m + n /\ DOMAIN client.shown = 1 .. m
        /\ m \in Nat /\ n \in Nat
        /\ \A k \in 1 .. m : Scanned[k] = client.shown[k]
    BY <2>2, Joined DEF Scanned
  <2> HIDE DEF m, n
  <2>4. 1 .. m \subseteq 1 .. m + n
    BY <2>3
  <2> QED
    BY <2>1, <2>3, <2>4 DEF Tidy
<1> QED
  BY <1>1, <1>2 DEF ScansAreExact

\* What is scrolled through is exact: undisturbed, a list or search that has come to its end
\* has shown every readable row that belongs there, once and in order; and a search under
\* which rows come, go and change never shows one twice (commands.rs, get_clips and
\* search_clips: source_start_for_ids, collect_readable_clips).
THEOREM Scans == Spec => []ScansAreExact
<1>1. Init => ScanInv
  BY InitScan
<1>2. IInv /\ ScanInv /\ [Next]_vars => ScanInv'
  BY NextScan
<1>3. IInv /\ ScanInv => ScansAreExact
  BY WholeIsExact
<1> QED
  BY <1>1, <1>2, <1>3, Invariant, PTL DEF Spec
=============================================================================
