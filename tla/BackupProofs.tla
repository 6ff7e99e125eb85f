---------------------------- MODULE BackupProofs ----------------------------
(***************************************************************************)
(* Exports and imports beside a session that goes on, for any contents,    *)
(* formats, history and bundle to begin with, and for any number of        *)
(* commands, failures, crashes and picks.                                  *)
(***************************************************************************)
EXTENDS Backup, FiniteSetTheorems, TLAPS

\* The rows: a uuid that was not given out is in no use; an expired image has no original,
\* and any other image has one to have; no clip has more parts than there are.
RowsFit ==
    /\ \A u \in Uuids : Has(u) =>
          /\ u <= used
          /\ rows[u].n <= Parts(rows[u].content) /\ rows[u].parts <= Parts(rows[u].content)
          /\ rows[u].expired => rows[u].content \in Images /\ rows[u].parts = 0
          /\ rows[u].content \in Images /\ ~rows[u].expired => rows[u].n = 1
    /\ files \cup unseen \cup excused \subseteq 1 .. used

\* Where an import is: between clips it holds none; a uuid it holds was given out.
Place(i) ==
    /\ i.todo \subseteq i.all /\ i.u <= used
    /\ i.pc = "check" => i.clip = NoClip /\ i.u = 0 /\ i.done = 0
    /\ i.pc # "check" => i.clip \in BundleClip /\ i.done <= i.clip.n
    /\ i.pc = "insert" => i.done = 0 /\ (i.from = "ditto" => i.u = 0)
    /\ i.pc \in {"commit", "parts", "rollback"} => i.u # 0

\* The row an import is storing parts of, and the file.
PartsFit(i) ==
    /\ i.u \in files => i.clip.content \in Images
    /\ Has(i.u) =>
          /\ rows[i.u].content \in Images <=> i.clip.content \in Images
          /\ rows[i.u].parts <= i.done
          /\ rows[i.u].expired => i.done = i.clip.n
    /\ Has(i.u) /\ i.u \notin excused =>
          /\ rows[i.u].content = i.clip.content /\ rows[i.u].n = i.clip.n
          /\ IF rows[i.u].expired THEN i.u \notin files /\ i.done = i.clip.n
             ELSE /\ rows[i.u].parts = i.done
                  /\ i.u \in files <=> rows[i.u].content \in Images
    /\ ~Has(i.u) /\ i.u \in files => i.done < i.clip.n \/ i.u \in excused

Importing ==
    importer # Idle =>
        /\ Place(importer)
        /\ importer.pc \in {"insert", "commit"} /\ importer.u # 0 =>
              /\ ~Has(importer.u) /\ importer.u \notin excused
              /\ importer.u \in files <=> OwnsFile
        /\ importer.pc = "parts" => PartsFit(importer)

\* Every clip an import is done with is in the history, or was taken from it.
Restored ==
    importer # Idle /\ ~importer.errors =>
        \A c \in importer.all \ importer.todo :
            \/ importer.pc \in {"insert", "commit"} /\ importer.clip = c
            \/ Stored(c) \/ [content |-> c.content, n |-> c.n] \in removed

\* What the index has not seen is noted by the import it came with.
UnseenNoted ==
    \A u \in unseen \ excused : Has(u) =>
        importer # Idle /\ (u \in importer.imported \/ importer.u = u)

\* What an export has read and nobody has overtaken is still there.
SeenStands ==
    exporter.pc \in {"clip", "install", "recover"} =>
        /\ exporter.todo \subseteq exporter.seen
        /\ \A v \in exporter.seen :
              /\ v.expired => v.n = 0
              /\ v.n <= Parts(v.content)
              /\ v.u \notin overtaken =>
                    /\ Has(v.u) /\ rows[v.u].content = v.content
                    /\ rows[v.u].expired = v.expired /\ rows[v.u].parts >= v.n

\* What it is done with is in the bundle, unless it has failed.
Exported ==
    exporter.pc \in {"clip", "install", "recover"} =>
        /\ exporter.pc # "clip" => ~exporter.failed /\ exporter.todo = {}
        /\ ~exporter.failed =>
              \A v \in exporter.seen \ exporter.todo : \E c \in exporter.clips :
                  /\ c.content = v.content /\ c.folder = v.folder
                  /\ c.n >= v.n \/ v.u \in overtaken

\* The bundle is there but between a replace that failed and its recovery, and a temp
\* nobody has left only while an export installs it.
BundleStays ==
    /\ exporter.pc # "recover" => lost \/ bundle # None
    /\ exporter.pc \notin {"install", "recover"} => (temp => leftover)

\* A grant is a pick that nothing has used.
Granted == \A p \in Purposes : grants[p] # "none" => p \in unspent

\* The inductive invariant: of the history with what is imported, and of an export.
HistoryInv == RowsFit /\ Importing /\ NothingHalfImported /\ Restored /\ UnseenNoted
ExportInv == SeenStands /\ Exported /\ BundleStays
BackupInv == TypeOK /\ HistoryInv /\ ExportInv /\ Granted
----------------------------------------------------------------------------
(* What the types say, and how an import and an export go on.              *)

\* What the assumptions say of the bounds and of the clips of a bundle.
LEMMA BackupBounds ==
    /\ MaxRows \in Nat /\ MaxCommands \in Nat /\ MaxFailures \in Nat /\ MaxCrashes \in Nat
    /\ MaxPicks \in Nat /\ MaxClock \in Nat
    /\ FormatCount \in Nat /\ FormatCount > 0
    /\ None \notin Contents /\ Texts \cap Images = {}
    /\ \A content : Parts(content) \in 0 .. FormatCount
    /\ \A content \in Images : Parts(content) = 1
    /\ \A content \in Texts : Parts(content) = FormatCount
    /\ \A c \in BundleClip : /\ c.content \in Contents /\ c.n \in 0 .. FormatCount
                             /\ c.folder \in BOOLEAN /\ c.n <= Parts(c.content)
BY BackupAssumption DEF Contents, Parts, BundleClip

\* Idle is no record of somebody at work, and a row that has gone is no row.
LEMMA NoneIdle ==
    /\ Idle.pc = "idle" /\ Idle \notin ImportType /\ Idle \notin ExportType
    /\ Idle # [pc |-> "rows"] /\ [pc |-> "rows"] \notin ExportType
    /\ Gone \notin Row /\ NoClip \notin BundleClip
<1>1. Idle.pc = "idle" /\ [pc |-> "rows"].pc = "rows"
  BY DEF Idle
<1>2. (\A i \in ImportType : i.pc # "idle")
      /\ (\A e \in ExportType : e.pc # "idle" /\ e.pc # "rows")
  BY DEF ImportType, ExportType
<1>3. Gone \notin Row
  <2>1. DOMAIN Gone = {"gone"} /\ \A r \in Row : "content" \in DOMAIN r
    BY DEF Gone, Row
  <2> QED
    BY <2>1
<1>4. NoClip \notin BundleClip
  BY BackupBounds DEF NoClip
<1> QED
  BY <1>1, <1>2, <1>3, <1>4

\* A bundle is something.
LEMMA NoSuchBundle == \A clips \in SUBSET BundleClip : clips # None
BY InputAssumption

\* What the type invariant says of rows and records.
LEMMA Fields ==
    ASSUME TypeOK
    PROVE  /\ rows \in [Uuids -> Row \cup {Gone}]
           /\ \A u \in Uuids : Has(u) =>
                 /\ rows[u] \in Row /\ rows[u].content \in Contents
                 /\ rows[u].n \in 0 .. FormatCount /\ rows[u].parts \in 0 .. FormatCount
                 /\ rows[u].expired \in BOOLEAN /\ rows[u].folder \in BOOLEAN
           /\ used \in 0 .. MaxRows /\ files \subseteq Uuids /\ unseen \subseteq Uuids
           /\ overtaken \subseteq Uuids /\ excused \subseteq Uuids
           /\ importer # Idle =>
                 /\ importer \in ImportType
                 /\ importer.pc \in {"check", "insert", "parts", "rollback", "commit"}
                 /\ importer.from \in {"open", "ditto"}
                 /\ importer.all \subseteq BundleClip /\ importer.todo \subseteq BundleClip
                 /\ importer.clip \in BundleClip \cup {NoClip}
                 /\ importer.u \in 0 .. MaxRows /\ importer.done \in 0 .. FormatCount
                 /\ importer.imported \subseteq Uuids /\ importer.errors \in BOOLEAN
           /\ exporter.pc \in {"clip", "install", "recover"} =>
                 /\ exporter # Idle /\ exporter \in ExportType
                 /\ exporter.seen \subseteq Seen /\ exporter.todo \subseteq Seen
                 /\ exporter.clips \subseteq BundleClip /\ exporter.failed \in BOOLEAN
           /\ exporter # Idle => exporter.pc \in {"rows", "clip", "install", "recover"}
           /\ exporter.pc = "rows" => exporter # Idle
           /\ importer.pc # "idle" => importer # Idle
<1>1. rows \in [Uuids -> Row \cup {Gone}]
  BY DEF TypeOK
<1>2. ASSUME NEW u \in Uuids, Has(u)
      PROVE  /\ rows[u] \in Row /\ rows[u].content \in Contents
             /\ rows[u].n \in 0 .. FormatCount /\ rows[u].parts \in 0 .. FormatCount
             /\ rows[u].expired \in BOOLEAN /\ rows[u].folder \in BOOLEAN
  <2>1. rows[u] \in Row
    BY <1>1, <1>2 DEF Has
  <2> QED
    BY <2>1 DEF Row
<1>3. /\ used \in 0 .. MaxRows /\ files \subseteq Uuids /\ unseen \subseteq Uuids
      /\ overtaken \subseteq Uuids /\ excused \subseteq Uuids
  BY DEF TypeOK
<1>4. importer # Idle =>
          /\ importer \in ImportType
          /\ importer.pc \in {"check", "insert", "parts", "rollback", "commit"}
          /\ importer.from \in {"open", "ditto"}
          /\ importer.all \subseteq BundleClip /\ importer.todo \subseteq BundleClip
          /\ importer.clip \in BundleClip \cup {NoClip}
          /\ importer.u \in 0 .. MaxRows /\ importer.done \in 0 .. FormatCount
          /\ importer.imported \subseteq Uuids /\ importer.errors \in BOOLEAN
  BY DEF TypeOK, ImportType
<1>5. ASSUME exporter.pc \in {"clip", "install", "recover"}
      PROVE  /\ exporter # Idle /\ exporter \in ExportType
             /\ exporter.seen \subseteq Seen /\ exporter.todo \subseteq Seen
             /\ exporter.clips \subseteq BundleClip /\ exporter.failed \in BOOLEAN
  <2>1. exporter \in ExportType
    BY <1>5, NoneIdle DEF TypeOK
  <2> QED
    BY <2>1, NoneIdle DEF ExportType
<1>6. exporter # Idle => exporter.pc \in {"rows", "clip", "install", "recover"}
  BY DEF TypeOK, ExportType
<1>7. (exporter.pc = "rows" => exporter # Idle) /\ (importer.pc # "idle" => importer # Idle)
  BY NoneIdle
<1> QED
  BY <1>1, <1>2, <1>3, <1>4, <1>5, <1>6, <1>7

\* What a step may make of an import.
Now(pc, todo, clip, u, done, imported, errors) ==
    /\ importer' # Idle /\ importer' \in ImportType
    /\ importer'.from = importer.from /\ importer'.all = importer.all
    /\ importer'.pc = pc /\ importer'.todo = todo /\ importer'.clip = clip
    /\ importer'.u = u /\ importer'.done = done /\ importer'.imported = imported
    /\ importer'.errors = errors

\* The ways an import goes on.
LEMMA ImportMoves ==
    ASSUME TypeOK, importer # Idle
    PROVE  /\ \A imported \in SUBSET Uuids, error \in BOOLEAN :
                 NextClip(imported, error) =>
                     Now("check", importer.todo, NoClip, 0, 0, importer.imported \cup imported,
                         importer.errors \/ error)
           /\ \A c \in importer.todo :
                 importer' = [importer EXCEPT !.todo = @ \ {c},
                                !.pc = IF Stored(c) THEN @ ELSE "insert",
                                !.clip = IF Stored(c) THEN NoClip ELSE c] =>
                     IF Stored(c)
                     THEN Now(importer.pc, importer.todo \ {c}, NoClip, importer.u,
                              importer.done, importer.imported, importer.errors)
                     ELSE Now("insert", importer.todo \ {c}, c, importer.u,
                              importer.done, importer.imported, importer.errors)
           /\ \A c \in importer.todo :
                 importer' = [importer EXCEPT !.todo = @ \ {c}, !.errors = TRUE] =>
                     Now(importer.pc, importer.todo \ {c}, importer.clip, importer.u,
                         importer.done, importer.imported, TRUE)
           /\ \A u \in 0 .. MaxRows : importer' = [importer EXCEPT !.u = u] =>
                 Now(importer.pc, importer.todo, importer.clip, u, importer.done,
                     importer.imported, importer.errors)
           /\ \A u \in 0 .. MaxRows :
                 /\ importer.clip \in BundleClip
                 /\ importer' = [importer EXCEPT !.u = u, !.clip.folder = FALSE, !.errors = TRUE]
                 => \E clip \in BundleClip :
                       /\ clip.content = importer.clip.content /\ clip.n = importer.clip.n
                       /\ Now(importer.pc, importer.todo, clip, u, importer.done,
                              importer.imported, TRUE)
           /\ \A pc \in {"parts", "rollback"} : importer' = [importer EXCEPT !.pc = pc] =>
                 Now(pc, importer.todo, importer.clip, importer.u, importer.done,
                     importer.imported, importer.errors)
           /\ \A u \in 0 .. MaxRows :
                 importer' = [importer EXCEPT !.pc = "commit", !.u = u] =>
                     Now("commit", importer.todo, importer.clip, u, importer.done,
                         importer.imported, importer.errors)
           /\ importer.done < FormatCount /\ importer' = [importer EXCEPT !.done = @ + 1] =>
                 Now(importer.pc, importer.todo, importer.clip, importer.u, importer.done + 1,
                     importer.imported, importer.errors)
<1> DEFINE P == SUBSET BundleClip  C == BundleClip \cup {NoClip}  U == SUBSET Uuids
           N == 0 .. MaxRows  D == 0 .. FormatCount
<1>0. /\ ImportType = [pc : {"check", "insert", "parts", "rollback", "commit"},
                       from : {"open", "ditto"}, all : P, todo : P, clip : C, u : N, done : D,
                       imported : U, errors : BOOLEAN]
      /\ NoClip \in C /\ \A c \in BundleClip : c \in C
      /\ \A s \in P : (\A c : s \ {c} \in P) /\ \A c \in s : c \in BundleClip
      /\ 0 \in N /\ 0 \in D
      /\ \A s \in U, t \in U : s \cup t \in U
      /\ \A n \in D : n < FormatCount => n + 1 \in D
      /\ importer \in ImportType
  <2>1. 0 \in N /\ 0 \in D /\ \A n \in D : n < FormatCount => n + 1 \in D
    BY BackupBounds
  <2> QED
    BY <2>1, Fields DEF ImportType
<1> HIDE DEF P, C, U, N, D
<1>1. ASSUME NEW imported \in U, NEW error \in BOOLEAN, NextClip(imported, error)
      PROVE  Now("check", importer.todo, NoClip, 0, 0, importer.imported \cup imported,
                 importer.errors \/ error)
  BY <1>0, <1>1, NoneIdle DEF Now, NextClip
<1>2. ASSUME NEW c \in importer.todo,
             importer' = [importer EXCEPT !.todo = @ \ {c},
                            !.pc = IF Stored(c) THEN @ ELSE "insert",
                            !.clip = IF Stored(c) THEN NoClip ELSE c]
      PROVE  IF Stored(c)
             THEN Now(importer.pc, importer.todo \ {c}, NoClip, importer.u,
                      importer.done, importer.imported, importer.errors)
             ELSE Now("insert", importer.todo \ {c}, c, importer.u,
                      importer.done, importer.imported, importer.errors)
  <2>1. importer.todo \in P /\ importer.todo \ {c} \in P /\ c \in C
    BY <1>0
  <2> QED
    BY <1>0, <1>2, <2>1, NoneIdle DEF Now
<1>3. ASSUME NEW c \in importer.todo,
             importer' = [importer EXCEPT !.todo = @ \ {c}, !.errors = TRUE]
      PROVE  Now(importer.pc, importer.todo \ {c}, importer.clip, importer.u,
                 importer.done, importer.imported, TRUE)
  BY <1>0, <1>3, NoneIdle DEF Now
<1>4. ASSUME NEW u \in N, importer' = [importer EXCEPT !.u = u]
      PROVE  Now(importer.pc, importer.todo, importer.clip, u, importer.done,
                 importer.imported, importer.errors)
  BY <1>0, <1>4, NoneIdle DEF Now
<1>5. ASSUME NEW u \in N, importer.clip \in BundleClip,
             importer' = [importer EXCEPT !.u = u, !.clip.folder = FALSE, !.errors = TRUE]
      PROVE  \E clip \in BundleClip :
                 /\ clip.content = importer.clip.content /\ clip.n = importer.clip.n
                 /\ Now(importer.pc, importer.todo, clip, u, importer.done,
                        importer.imported, TRUE)
  <2> DEFINE clip == [importer.clip EXCEPT !.folder = FALSE]
  <2>1. /\ clip \in BundleClip /\ clip.content = importer.clip.content
        /\ clip.n = importer.clip.n
    BY <1>5 DEF BundleClip
  <2>2. importer' = [importer EXCEPT !.u = u, !.clip = clip, !.errors = TRUE]
    BY <1>0, <1>5
  <2> HIDE DEF clip
  <2>3. Now(importer.pc, importer.todo, clip, u, importer.done, importer.imported, TRUE)
    BY <1>0, <2>1, <2>2, NoneIdle DEF Now
  <2> QED
    BY <2>1, <2>3
<1>6. ASSUME NEW pc \in {"parts", "rollback"}, importer' = [importer EXCEPT !.pc = pc]
      PROVE  Now(pc, importer.todo, importer.clip, importer.u, importer.done,
                 importer.imported, importer.errors)
  BY <1>0, <1>6, NoneIdle DEF Now
<1>7. ASSUME NEW u \in N, importer' = [importer EXCEPT !.pc = "commit", !.u = u]
      PROVE  Now("commit", importer.todo, importer.clip, u, importer.done,
                 importer.imported, importer.errors)
  BY <1>0, <1>7, NoneIdle DEF Now
<1>8. ASSUME importer.done < FormatCount, importer' = [importer EXCEPT !.done = @ + 1]
      PROVE  Now(importer.pc, importer.todo, importer.clip, importer.u, importer.done + 1,
                 importer.imported, importer.errors)
  <2>1. importer.done \in D /\ importer.done + 1 \in D
    BY <1>0, <1>8
  <2> QED
    BY <1>0, <1>8, <2>1, NoneIdle DEF Now
<1> QED
  BY <1>1, <1>2, <1>3, <1>4, <1>5, <1>6, <1>7, <1>8 DEF U, N

\* An export is done with what it has read of a row: it has a clip, or has failed.
Took(v, clip) ==
    exporter' = [exporter EXCEPT !.todo = @ \ {v}, !.failed = @ \/ FALSE, !.clips = @ \cup {clip}]
Missed(v) == exporter' = [exporter EXCEPT !.todo = @ \ {v}, !.failed = @ \/ TRUE, !.clips = @]

\* What a step may make of an export.
Then(pc, todo, clips) ==
    /\ exporter' \in ExportType /\ exporter'.pc = pc /\ exporter'.seen = exporter.seen
    /\ exporter'.todo = todo /\ exporter'.clips = clips

\* The ways an export goes on.
LEMMA ExportMoves ==
    ASSUME TypeOK, exporter \in ExportType
    PROVE  /\ \A v : \A clip \in BundleClip :
                 Took(v, clip) =>
                     /\ Then(exporter.pc, exporter.todo \ {v}, exporter.clips \cup {clip})
                     /\ exporter'.failed = exporter.failed
           /\ \A v : Missed(v) =>
                     /\ Then(exporter.pc, exporter.todo \ {v}, exporter.clips)
                     /\ exporter'.failed
           /\ \A pc \in {"install", "recover"} :
                 exporter' = [exporter EXCEPT !.pc = pc] =>
                     /\ Then(pc, exporter.todo, exporter.clips)
                     /\ exporter'.failed = exporter.failed
<1> DEFINE P == SUBSET BundleClip  S == SUBSET Seen
<1>0. /\ ExportType = [pc : {"clip", "install", "recover"}, seen : S, todo : S, clips : P,
                       failed : BOOLEAN]
      /\ \A s \in S : \A v : s \ {v} \in S
      /\ \A s \in P, c \in BundleClip : s \cup {c} \in P
  BY DEF ExportType
<1> HIDE DEF P, S
<1>1. ASSUME NEW v, NEW clip \in BundleClip, Took(v, clip)
      PROVE  /\ Then(exporter.pc, exporter.todo \ {v}, exporter.clips \cup {clip})
             /\ exporter'.failed = exporter.failed
  BY <1>0, <1>1 DEF Took, Then
<1>2. ASSUME NEW v, Missed(v)
      PROVE  Then(exporter.pc, exporter.todo \ {v}, exporter.clips) /\ exporter'.failed
  BY <1>0, <1>2 DEF Missed, Then
<1>3. ASSUME NEW pc \in {"install", "recover"}, exporter' = [exporter EXCEPT !.pc = pc]
      PROVE  /\ Then(pc, exporter.todo, exporter.clips)
             /\ exporter'.failed = exporter.failed
  BY <1>0, <1>3 DEF Then
<1> QED
  BY <1>1, <1>2, <1>3

\* A step that counts stays within its bound.
LEMMA Counted ==
    ASSUME TypeOK
    PROVE  /\ Works \/ Fails => count' \in CountType
           /\ \/ Counts("picks", MaxPicks) \/ Counts("clock", MaxClock)
              \/ Counts("commands", MaxCommands)
              => count' \in CountType
           /\ Counts("crashes", MaxCrashes) => count' \in CountType
BY BackupBounds DEF TypeOK, CountType, Works, Fails, Counts

\* An export that is not at work goes on as long as the rows it has read are not
\* overtaken unnoticed.
LEMMA ExportGoesOn ==
    ASSUME TypeOK, TypeOK', ExportInv, UNCHANGED <<exporter, disk, lost, leftover>>,
           exporter # Idle => overtaken \subseteq overtaken',
           exporter # Idle =>
               \A u \in Uuids : Has(u) =>
                   \/ u \in overtaken'
                   \/ /\ Has(u)' /\ rows'[u].content = rows[u].content
                      /\ rows'[u].expired = rows[u].expired
                      /\ rows'[u].parts >= rows[u].parts
    PROVE  ExportInv'
<1>1. BundleStays'
  BY DEF ExportInv, BundleStays, disk
<1>2. ASSUME exporter.pc \in {"clip", "install", "recover"} PROVE SeenStands' /\ Exported'
  <2>1. exporter # Idle /\ exporter.seen \subseteq Seen
    BY <1>2, Fields
  <2>2. ASSUME NEW v \in exporter.seen, v.u \notin overtaken'
        PROVE  /\ Has(v.u)' /\ rows'[v.u].content = v.content
               /\ rows'[v.u].expired = v.expired /\ rows'[v.u].parts >= v.n
    <3>1. v.u \in Uuids /\ v.n \in 0 .. FormatCount /\ v.u \notin overtaken
      BY <2>1, <2>2 DEF Seen
    <3>2. /\ Has(v.u) /\ rows[v.u].content = v.content
          /\ rows[v.u].expired = v.expired /\ rows[v.u].parts >= v.n
      BY <1>2, <3>1 DEF ExportInv, SeenStands
    <3>3. /\ Has(v.u)' /\ rows'[v.u].content = rows[v.u].content
          /\ rows'[v.u].expired = rows[v.u].expired
          /\ rows'[v.u].parts >= rows[v.u].parts
      BY <2>1, <2>2, <3>1, <3>2
    <3>4. rows'[v.u].parts \in 0 .. FormatCount /\ rows[v.u].parts \in 0 .. FormatCount
      <4>1. rows'[v.u] \in Row
        BY <3>1, <3>3 DEF TypeOK, Has
      <4> QED
        BY <3>1, <3>2, <4>1, Fields DEF Row
    <3> QED
      BY <3>1, <3>2, <3>3, <3>4, BackupBounds
  <2>3. SeenStands'
    BY <1>2, <2>2 DEF ExportInv, SeenStands
  <2>4. Exported'
    BY <1>2, <2>1 DEF ExportInv, Exported
  <2> QED
    BY <2>3, <2>4
<1>3. exporter.pc \notin {"clip", "install", "recover"} => SeenStands' /\ Exported'
  BY DEF SeenStands, Exported
<1> QED
  BY <1>1, <1>2, <1>3 DEF ExportInv

\* A step that leaves the history and the import alone.
LEMMA HistoryStays ==
    ASSUME HistoryInv, UNCHANGED <<rows, files, used, unseen, importer, removed, excused>>
    PROVE  HistoryInv'
BY DEF HistoryInv, RowsFit, Importing, Place, PartsFit, NothingHalfImported, Restored,
       UnseenNoted, InFlight, Has, Stored, OwnsFile

----------------------------------------------------------------------------
(* Grants, and the steps of an export.                                     *)

\* Picks, the clock and refusals change nothing but grants.
LEMMA GrantStep ==
    ASSUME BackupInv,
           \/ \E p \in Purposes : Pick(p) \/ Clock(p) \/ RefusedRequest(p)
           \/ CloseSettings
    PROVE  BackupInv'
<1>1. /\ UNCHANGED <<database, unseen, disk, exporter, importer, overtaken, removed, excused, lost,
                   leftover>>
      /\ grants' \in [Purposes -> {"none", "fresh", "old"}] /\ unspent' \subseteq Purposes
      /\ Granted'
  <2>1. ASSUME NEW p \in Purposes, Pick(p) \/ Clock(p) \/ RefusedRequest(p)
        PROVE  /\ UNCHANGED <<database, unseen, disk, exporter, importer, overtaken, removed,
                              excused, lost, leftover>>
               /\ grants' \in [Purposes -> {"none", "fresh", "old"}] /\ unspent' \subseteq Purposes
               /\ Granted'
    BY <2>1
    DEF BackupInv, TypeOK, Granted, Pick, Clock, RefusedRequest, Refused, history
  <2>2. ASSUME CloseSettings
        PROVE  /\ UNCHANGED <<database, unseen, disk, exporter, importer, overtaken, removed,
                              excused, lost, leftover>>
               /\ grants' \in [Purposes -> {"none", "fresh", "old"}] /\ unspent' \subseteq Purposes
               /\ Granted'
    BY <2>2 DEF CloseSettings, Granted
  <2> QED
    BY <2>1, <2>2
<1>2. count' \in CountType
  BY Counted DEF BackupInv, TypeOK, Pick, Clock, RefusedRequest, CloseSettings
<1>3. TypeOK'
  BY <1>1, <1>2 DEF BackupInv, TypeOK, database, disk
<1>4. HistoryInv'
  BY <1>1, HistoryStays DEF BackupInv, database
<1>5. ExportInv'
  <2>1. \A u \in Uuids : Has(u) => rows[u].parts >= rows[u].parts
    BY Fields, BackupBounds DEF BackupInv
  <2> QED
    BY <1>1, <1>2, <1>3, <2>1, ExportGoesOn DEF BackupInv, database, Has
<1> QED
  BY <1>1, <1>3, <1>4, <1>5 DEF BackupInv

\* Nothing but an export under way needs anything of it.
LEMMA NoExport ==
    ASSUME exporter'.pc \in {"idle", "rows"}, lost' \/ bundle' # None,
           temp' => leftover'
    PROVE  ExportInv'
BY DEF ExportInv, SeenStands, Exported, BundleStays

\* An export begins, or a refused passphrase spends the grant (export_backup).
LEMMA StartExportStep ==
    ASSUME BackupInv, StartExport
    PROVE  BackupInv'
<1>1. /\ exporter = Idle /\ exporter' \in {Idle, [pc |-> "rows"]}
      /\ overtaken' \subseteq Uuids
      /\ UNCHANGED <<database, unseen, disk, importer, removed, excused, lost, leftover, count>>
  BY DEF BackupInv, TypeOK, StartExport
<1>2. /\ grants' \in [Purposes -> {"none", "fresh", "old"}] /\ unspent' \subseteq Purposes
      /\ Granted'
  BY DEF BackupInv, TypeOK, Granted, StartExport, Authorized, Purposes
<1>3. TypeOK'
  BY <1>1, <1>2 DEF BackupInv, TypeOK, database, disk
<1>4. HistoryInv'
  BY <1>1, HistoryStays DEF BackupInv, database
<1>5. ExportInv'
  BY <1>1, NoneIdle, NoExport DEF BackupInv, ExportInv, BundleStays, disk
<1> QED
  BY <1>2, <1>3, <1>4, <1>5 DEF BackupInv

\* The rows are read in one statement.
LEMMA ReadRowsStep ==
    ASSUME BackupInv, ReadRows
    PROVE  BackupInv'
<1> DEFINE seen == { Version(u) : u \in { v \in Uuids : Has(v) } }
<1>1. /\ exporter.pc = "rows"
      /\ UNCHANGED <<database, unseen, disk, grants, importer, history>>
      /\ count' \in CountType
  BY Counted DEF BackupInv, ReadRows
<1>2. seen \subseteq Seen
  BY Fields DEF BackupInv, Version, Seen
<1>3. /\ \A v \in seen : /\ v.expired => v.n = 0
                         /\ v.n <= Parts(v.content)
                         /\ Has(v.u) /\ rows[v.u].content = v.content
                         /\ rows[v.u].expired = v.expired /\ rows[v.u].parts >= v.n
  BY Fields, BackupBounds DEF BackupInv, HistoryInv, RowsFit, Version
<1> HIDE DEF seen
<1>4. CASE exporter' = [pc |-> "clip", seen |-> seen, todo |-> seen, clips |-> {},
                        failed |-> FALSE]
  <2>1. /\ exporter' \in ExportType /\ exporter'.pc = "clip" /\ exporter'.seen = seen
        /\ exporter'.todo = seen /\ exporter'.clips = {} /\ exporter'.failed = FALSE
    BY <1>2, <1>4 DEF ExportType
  <2>2. TypeOK'
    BY <1>1, <2>1 DEF BackupInv, TypeOK, database, disk, history
  <2>3. SeenStands' /\ Exported'
    BY <1>1, <1>3, <2>1 DEF SeenStands, Exported, Has, database
  <2>4. BundleStays'
    BY <1>1, <2>1 DEF BackupInv, ExportInv, BundleStays, disk, history
  <2>5. HistoryInv' /\ Granted'
    BY <1>1, HistoryStays DEF BackupInv, Granted, database, history
  <2> QED
    BY <2>2, <2>3, <2>4, <2>5 DEF BackupInv, ExportInv
<1>5. CASE exporter' = Idle
  <2>1. TypeOK'
    BY <1>1, <1>5 DEF BackupInv, TypeOK, database, disk, history
  <2>2. ExportInv'
    BY <1>1, <1>5, NoneIdle, NoExport DEF BackupInv, ExportInv, BundleStays, disk, history
  <2>3. HistoryInv' /\ Granted'
    BY <1>1, HistoryStays DEF BackupInv, Granted, database, history
  <2> QED
    BY <2>1, <2>2, <2>3 DEF BackupInv
<1> QED
  BY <1>4, <1>5 DEF ReadRows, seen

\* What is attached to a clip is what its row still has, or the row was overtaken, or
\* the export fails (attach_export_full_image, attach_export_formats).
LEMMA Attached ==
    ASSUME TypeOK, HistoryInv, SeenStands, exporter.pc = "clip",
           NEW v \in exporter.todo, NEW readable \in BOOLEAN
    PROVE  LET attached == Attach(v, readable)
           IN /\ attached.failed \in BOOLEAN
              /\ [content |-> v.content, n |-> attached.n, folder |-> v.folder] \in BundleClip
              /\ ~attached.failed => attached.n >= v.n \/ v.u \in overtaken
<1>1. /\ v \in exporter.seen /\ v.u \in Uuids /\ v.content \in Contents /\ v.folder \in BOOLEAN
      /\ v.n \in 0 .. FormatCount /\ v.expired \in BOOLEAN
  BY Fields DEF SeenStands, Seen
<1>2. /\ v.expired => v.n = 0
      /\ v.n <= Parts(v.content)
      /\ v.u \notin overtaken => /\ Has(v.u) /\ rows[v.u].content = v.content
                                 /\ rows[v.u].expired = v.expired /\ rows[v.u].parts >= v.n
  BY <1>1 DEF SeenStands
<1>3. Has(v.u) => rows[v.u].parts \in 0 .. FormatCount /\ rows[v.u].expired \in BOOLEAN
  BY <1>1, Fields
<1>4. CASE v.content \in Images
  <2>1. Parts(v.content) = 1 /\ FormatCount >= 1
    BY <1>4, BackupBounds
  <2>2. \A n \in {0, 1} : [content |-> v.content, n |-> n, folder |-> v.folder] \in BundleClip
    BY <1>1, <2>1, BackupBounds DEF BundleClip
  <2>3. Attach(v, readable) =
            IF v.expired THEN [failed |-> FALSE, n |-> 0]
            ELSE IF readable /\ v.u \in files THEN [failed |-> FALSE, n |-> 1]
            ELSE [failed |-> ~(Has(v.u) /\ rows[v.u].expired), n |-> 0]
    BY <1>4 DEF Attach
  <2>4. CASE v.expired
    BY <1>1, <1>2, <2>2, <2>3, <2>4
  <2>5. CASE ~v.expired /\ readable /\ v.u \in files
    BY <1>1, <1>2, <2>1, <2>2, <2>3, <2>5
  <2>6. CASE ~v.expired /\ ~(readable /\ v.u \in files)
    <3>1. Attach(v, readable) = [failed |-> ~(Has(v.u) /\ rows[v.u].expired), n |-> 0]
      BY <2>3, <2>6
    <3>2. CASE Has(v.u) /\ rows[v.u].expired
      <4>1. v.u \in overtaken
        BY <1>2, <2>6, <3>2
      <4> QED
        BY <2>2, <3>1, <4>1
    <3>3. CASE ~(Has(v.u) /\ rows[v.u].expired)
      <4>1. Attach(v, readable) = [failed |-> TRUE, n |-> 0]
        BY <3>1, <3>3
      <4> QED
        BY <2>2, <4>1
    <3> QED
      BY <3>2, <3>3
  <2> QED
    BY <2>4, <2>5, <2>6
<1>5. CASE v.content \notin Images
  <2>1. Parts(v.content) = FormatCount
    BY <1>5 DEF Parts
  <2>2. \A n \in 0 .. FormatCount :
            [content |-> v.content, n |-> n, folder |-> v.folder] \in BundleClip
    BY <1>1, <2>1, BackupBounds DEF BundleClip
  <2>3. 0 \in 0 .. FormatCount
    BY BackupBounds
  <2> QED
    BY <1>1, <1>2, <1>3, <1>5, <2>2, <2>3 DEF Attach
<1> QED
  BY <1>4, <1>5

\* A clip is put into the bundle, or the export fails.
LEMMA ExportClipStep ==
    ASSUME BackupInv, ExportClip
    PROVE  BackupInv'
<1>1. /\ exporter.pc = "clip" /\ exporter \in ExportType
      /\ UNCHANGED <<database, unseen, disk, grants, importer, history>>
      /\ count' \in CountType
  BY Counted, Fields DEF BackupInv, ExportClip
<1>2. HistoryInv' /\ Granted'
  BY <1>1, HistoryStays DEF BackupInv, Granted, database, history
<1>3. PICK v \in exporter.todo, readable \in BOOLEAN :
          LET attached == Attach(v, readable)
              clip == [content |-> v.content, n |-> attached.n, folder |-> v.folder]
          IN exporter' = [exporter EXCEPT
                    !.todo = @ \ {v},
                    !.failed = @ \/ attached.failed,
                    !.clips = IF attached.failed THEN @ ELSE @ \cup {clip}]
  BY DEF ExportClip
<1> DEFINE attached == Attach(v, readable)
           clip == [content |-> v.content, n |-> attached.n, folder |-> v.folder]
<1>4. /\ attached.failed \in BOOLEAN /\ clip \in BundleClip
      /\ ~attached.failed => attached.n >= v.n \/ v.u \in overtaken
      /\ clip.content = v.content /\ clip.folder = v.folder /\ clip.n = attached.n
  BY <1>1, Attached DEF BackupInv, ExportInv
<1>5. ASSUME Then(exporter.pc, exporter.todo \ {v}, exporter'.clips)
      PROVE  TypeOK' /\ SeenStands' /\ BundleStays'
  <2>1. TypeOK'
    BY <1>1, <1>5 DEF BackupInv, TypeOK, Then, database, disk, history
  <2>2. SeenStands'
    BY <1>1, <1>5 DEF BackupInv, ExportInv, SeenStands, Has, Then, database, history
  <2>3. BundleStays'
    BY <1>1, <1>5 DEF BackupInv, ExportInv, BundleStays, Then, disk, history
  <2> QED
    BY <2>1, <2>2, <2>3
<1>6. CASE attached.failed = TRUE
  <2>1. Missed(v)
    BY <1>3, <1>6 DEF Missed
  <2>2. Then(exporter.pc, exporter.todo \ {v}, exporter.clips) /\ exporter'.failed
    BY <1>1, <2>1, ExportMoves DEF BackupInv
  <2>3. Exported'
    BY <1>1, <2>2 DEF Exported, Then
  <2> QED
    BY <1>2, <1>5, <2>2, <2>3 DEF BackupInv, ExportInv, Then
<1>7. CASE attached.failed = FALSE
  <2>1. Took(v, clip)
    BY <1>3, <1>7 DEF Took
  <2> HIDE DEF clip
  <2>2. /\ Then(exporter.pc, exporter.todo \ {v}, exporter.clips \cup {clip})
        /\ exporter'.failed = exporter.failed
    BY <1>1, <1>4, <2>1, ExportMoves DEF BackupInv
  <2>3. Exported'
    BY <1>1, <1>4, <1>7, <2>2 DEF BackupInv, ExportInv, Exported, Then, history
  <2> QED
    BY <1>2, <1>5, <2>2, <2>3 DEF BackupInv, ExportInv, Then
<1> QED
  BY <1>4, <1>6, <1>7

\* A temp that is to be removed is gone, or it is one that somebody has left.
LEMMA TempRemoved ==
    ASSUME TypeOK, RemoveTemp
    PROVE  /\ temp' \in BOOLEAN /\ leftover' \in BOOLEAN
           /\ leftover => leftover'
           /\ temp' => leftover'
<1>1. CASE temp' = leftover /\ leftover' = leftover
  BY <1>1, Zenon DEF TypeOK
<1>2. CASE temp' = TRUE /\ leftover' = TRUE
  BY <1>2
<1> QED
  BY <1>1, <1>2 DEF RemoveTemp

\* The temp is written, unless a clip has failed (persist_backup_file_with).
LEMMA WriteBundleStep ==
    ASSUME BackupInv, WriteBundle
    PROVE  BackupInv'
<1>1. /\ exporter.pc = "clip" /\ exporter.todo = {} /\ exporter \in ExportType
      /\ UNCHANGED <<database, unseen, bundle, grants, importer, overtaken, removed, excused,
                     lost, unspent>>
      /\ count' \in CountType
  BY Counted, Fields DEF BackupInv, WriteBundle
<1>2. HistoryInv' /\ Granted'
  BY <1>1, HistoryStays DEF BackupInv, Granted, database
<1>3. CASE /\ ~exporter.failed /\ exporter' = [exporter EXCEPT !.pc = "install"]
           /\ temp' = TRUE /\ UNCHANGED leftover
  <2>1. Then("install", exporter.todo, exporter.clips) /\ exporter'.failed = exporter.failed
    BY <1>1, <1>3, ExportMoves DEF BackupInv
  <2>2. TypeOK'
    BY <1>1, <1>3, <2>1 DEF BackupInv, TypeOK, Then, database
  <2>3. SeenStands' /\ Exported' /\ BundleStays'
    BY <1>1, <1>3, <2>1
    DEF BackupInv, ExportInv, SeenStands, Exported, BundleStays, Has, Then, database
  <2> QED
    BY <1>2, <2>2, <2>3 DEF BackupInv, ExportInv
<1>4. CASE /\ exporter' = Idle /\ temp' \in BOOLEAN /\ leftover' \in BOOLEAN
           /\ leftover => leftover'
           /\ UNCHANGED temp \/ (temp' => leftover')
  <2>1. TypeOK'
    BY <1>1, <1>4 DEF BackupInv, TypeOK, database
  <2>2. ExportInv'
    BY <1>1, <1>4, NoneIdle, NoExport DEF BackupInv, ExportInv, BundleStays
  <2> QED
    BY <1>2, <2>1, <2>2 DEF BackupInv
<1>5. RemoveTemp => /\ temp' \in BOOLEAN /\ leftover' \in BOOLEAN
                    /\ leftover => leftover'
                    /\ temp' => leftover'
  BY TempRemoved DEF BackupInv
<1>6. temp \in BOOLEAN /\ leftover \in BOOLEAN
  BY DEF BackupInv, TypeOK
<1> QED
  BY <1>3, <1>4, <1>5, <1>6 DEF WriteBundle

\* It takes the place of the bundle, or the replace fails.
LEMMA InstallBundleStep ==
    ASSUME BackupInv, InstallBundle
    PROVE  BackupInv'
<1>1. /\ exporter.pc = "install" /\ exporter \in ExportType
      /\ exporter.clips \subseteq BundleClip
      /\ UNCHANGED <<database, unseen, grants, importer, overtaken, removed, excused, unspent>>
      /\ count' \in CountType
  BY Counted, Fields DEF BackupInv, InstallBundle, Installed
<1>2. HistoryInv' /\ Granted'
  BY <1>1, HistoryStays DEF BackupInv, Granted, database
<1>3. CASE Installed
  <2>1. bundle' # None
    BY <1>1, <1>3, NoSuchBundle DEF Installed
  <2>2. TypeOK'
    BY <1>1, <1>3 DEF BackupInv, TypeOK, database, Installed
  <2>3. ExportInv'
    BY <1>3, <2>1, NoneIdle, NoExport DEF Installed
  <2> QED
    BY <1>2, <2>2, <2>3 DEF BackupInv
<1>4. CASE /\ bundle' \in {bundle, None} /\ UNCHANGED <<temp, lost, leftover>>
           /\ exporter' = [exporter EXCEPT !.pc = "recover"]
  <2>1. Then("recover", exporter.todo, exporter.clips) /\ exporter'.failed = exporter.failed
    BY <1>1, <1>4, ExportMoves DEF BackupInv
  <2>2. TypeOK'
    BY <1>1, <1>4, <2>1 DEF BackupInv, TypeOK, Then, database
  <2>3. SeenStands' /\ Exported' /\ BundleStays'
    BY <1>1, <1>4, <2>1
    DEF BackupInv, ExportInv, SeenStands, Exported, BundleStays, Has, Then, database
  <2> QED
    BY <1>2, <2>2, <2>3 DEF BackupInv, ExportInv
<1> QED
  BY <1>3, <1>4 DEF InstallBundle

\* A replace that failed puts the temp where the bundle was, or gives up
\* (recover_dest_gone_replace).
LEMMA RecoverBundleStep ==
    ASSUME BackupInv, RecoverBundle
    PROVE  BackupInv'
<1>1. /\ exporter.pc = "recover" /\ exporter \in ExportType
      /\ exporter.clips \subseteq BundleClip
      /\ UNCHANGED <<database, unseen, grants, importer, overtaken, removed, excused, unspent>>
      /\ count' \in CountType
      /\ exporter' = Idle
      /\ \/ bundle' = exporter.clips /\ lost' = FALSE
         \/ UNCHANGED bundle /\ lost' = (lost \/ bundle = None)
      /\ RemoveTemp
  BY Counted, Fields DEF BackupInv, RecoverBundle, RemoveTemp, Installed
<1>0. temp' \in BOOLEAN /\ leftover' \in BOOLEAN /\ (temp' => leftover')
  BY <1>1, TempRemoved DEF BackupInv
<1>2. TypeOK'
  BY <1>0, <1>1 DEF BackupInv, TypeOK, database
<1>3. ExportInv'
  BY <1>0, <1>1, NoSuchBundle, NoneIdle, NoExport DEF BackupInv, TypeOK
<1>4. HistoryInv' /\ Granted'
  BY <1>1, HistoryStays DEF BackupInv, Granted, database
<1> QED
  BY <1>2, <1>3, <1>4 DEF BackupInv

----------------------------------------------------------------------------
(* The steps of an import.                                                 *)

\* An import begins (import_backup, import_from_ditto).
LEMMA ImportBegins ==
    ASSUME BackupInv, NEW p \in {"open", "ditto"}, NEW all \in SUBSET BundleClip, Import(p, all)
    PROVE  BackupInv'
<1>1. /\ importer = Idle
      /\ UNCHANGED <<database, unseen, disk, exporter, overtaken, excused, lost, leftover, count>>
      /\ removed' = {}
      /\ importer' # Idle /\ importer' \in ImportType /\ importer'.pc = "check"
      /\ importer'.from = p /\ importer'.all = all /\ importer'.todo = all
      /\ importer'.clip = NoClip /\ importer'.u = 0 /\ importer'.done = 0
  <2>1. /\ importer = Idle /\ removed' = {}
        /\ UNCHANGED <<database, unseen, disk, exporter, overtaken, excused, lost, leftover, count>>
        /\ importer' = [pc |-> "check", from |-> p, all |-> all, todo |-> all,
                        clip |-> NoClip, u |-> 0, done |-> 0, imported |-> {}, errors |-> FALSE]
    BY DEF Import
  <2>2. 0 \in 0 .. MaxRows /\ 0 \in 0 .. FormatCount
    BY BackupBounds
  <2>3. importer' \in ImportType
    BY <2>1, <2>2 DEF ImportType
  <2> QED
    BY <2>1, <2>3, NoneIdle
<1>2. /\ grants' \in [Purposes -> {"none", "fresh", "old"}] /\ unspent' \subseteq Purposes
      /\ Granted'
  BY DEF BackupInv, TypeOK, Granted, Import, Authorized, Purposes
<1>3. TypeOK'
  BY <1>1, <1>2 DEF BackupInv, TypeOK, database, disk
<1>4. ExportInv'
  <2>1. \A u \in Uuids : Has(u) => rows[u].parts >= rows[u].parts
    BY Fields, BackupBounds DEF BackupInv
  <2> QED
    BY <1>1, <1>3, <2>1, ExportGoesOn DEF BackupInv, database, Has
<1>5. RowsFit' /\ NothingHalfImported'
  BY <1>1 DEF BackupInv, HistoryInv, RowsFit, NothingHalfImported, InFlight, Has, database
<1>6. Importing'
  BY <1>1, Fields, BackupBounds DEF BackupInv, Importing, Place, database
<1>7. Restored' /\ UnseenNoted'
  BY <1>1 DEF BackupInv, HistoryInv, Restored, UnseenNoted, Has, database
<1> QED
  BY <1>2, <1>3, <1>4, <1>5, <1>6, <1>7 DEF BackupInv, HistoryInv

\* An import of a bundle, or of the other database, begins.
LEMMA StartImportStep ==
    ASSUME BackupInv, StartImport \/ StartDitto
    PROVE  BackupInv'
<1>1. CASE StartImport
  <2>1. bundle \in SUBSET BundleClip
    BY <1>1 DEF BackupInv, TypeOK, StartImport
  <2> QED
    BY <1>1, <2>1, ImportBegins DEF StartImport
<1>2. CASE StartDitto
  BY <1>2, InputAssumption, ImportBegins DEF StartDitto
<1> QED
  BY <1>1, <1>2

\* A step that leaves the rows, the export and the grants alone.
LEMMA Aside ==
    ASSUME BackupInv, TypeOK',
           UNCHANGED <<rows, exporter, disk, lost, leftover, overtaken, grants, unspent>>
    PROVE  ExportInv' /\ Granted'
<1>1. \A u \in Uuids : Has(u) => rows[u].parts >= rows[u].parts
  BY Fields, BackupBounds DEF BackupInv
<1>2. ExportInv'
  BY <1>1, ExportGoesOn DEF BackupInv, Has
<1> QED
  BY <1>2 DEF BackupInv, Granted

\* The same of a step that stores a row where none was.
LEMMA NewRowAside ==
    ASSUME BackupInv, TypeOK',
           UNCHANGED <<exporter, disk, lost, leftover, overtaken, grants, unspent>>,
           NEW w \in Uuids, ~Has(w), \A u \in Uuids : u # w => rows'[u] = rows[u]
    PROVE  ExportInv' /\ Granted'
<1>1. \A u \in Uuids : Has(u) => u # w /\ rows'[u] = rows[u] /\ rows[u].parts >= rows[u].parts
  BY Fields, BackupBounds DEF BackupInv
<1>2. ExportInv'
  BY <1>1, ExportGoesOn DEF BackupInv, Has
<1> QED
  BY <1>2 DEF BackupInv, Granted

\* A file that was to be unlinked and is still there is excused, and no other file goes.
LEMMA Unlinked ==
    ASSUME BackupInv, NEW us \in SUBSET Uuids, Unlink(us)
    PROVE  /\ files' \subseteq files /\ excused \subseteq excused'
           /\ files' \subseteq Uuids /\ excused' \subseteq Uuids
           /\ files' \cup excused' \subseteq 1 .. used
           /\ \A u \in us : u \in files' => u \in excused'
           /\ \A u : u \notin us => /\ u \in files' <=> u \in files
                                    /\ u \in excused' <=> u \in excused
<1>1. PICK stay \in SUBSET (us \cap files) :
          files' = files \ (us \ stay) /\ excused' = excused \cup stay
  BY DEF Unlink
<1>2. files \cup excused \subseteq 1 .. used
  BY DEF BackupInv, HistoryInv, RowsFit
<1> QED
  BY <1>1, <1>2, Fields DEF BackupInv

\* The same of one file.
LEMMA OneUnlinked ==
    ASSUME BackupInv, NEW w \in Uuids, Unlink({w})
    PROVE  /\ files' \subseteq files /\ excused \subseteq excused'
           /\ files' \subseteq Uuids /\ excused' \subseteq Uuids
           /\ files' \cup excused' \subseteq 1 .. used
           /\ w \in files' => w \in excused'
           /\ \A u : u # w => /\ u \in files' <=> u \in files
                              /\ u \in excused' <=> u \in excused
<1>1. PICK stay \in SUBSET ({w} \cap files) :
          files' = files \ ({w} \ stay) /\ excused' = excused \cup stay
  BY DEF Unlink
<1>2. files \cup excused \subseteq 1 .. used
  BY DEF BackupInv, HistoryInv, RowsFit
<1> QED
  BY <1>1, <1>2, Fields DEF BackupInv

\* Where there is no file there is nothing to unlink.
LEMMA NoneUnlinked ==
    ASSUME NEW u, u \notin files, UNCHANGED <<files, excused>>
    PROVE  Unlink({u})
<1>1. {} \in SUBSET ({u} \cap files) /\ files \ ({u} \ {}) = files /\ excused \cup {} = excused
  OBVIOUS
<1> QED
  BY <1>1 DEF Unlink

\* An import that has no row yet gives a clip up, with its file.
LEMMA GivenUp ==
    ASSUME BackupInv, importer # Idle, importer.u \in Uuids => ~Has(importer.u),
           importer.u <= used \/ used' = importer.u, used' \in 0 .. MaxRows, used <= used',
           Unlink({importer.u}), NextClip({}, TRUE), folder' \in BOOLEAN,
           count' \in CountType,
           UNCHANGED <<rows, unseen, disk, grants, exporter, overtaken, removed, lost, leftover,
                       unspent>>
    PROVE  BackupInv'
<1>0. /\ files' \subseteq files /\ excused \subseteq excused'
      /\ files' \subseteq Uuids /\ excused' \subseteq Uuids
      /\ files' \cup excused' \subseteq 1 .. used
      /\ importer.u \in files' => importer.u \in excused'
      /\ \A u : u # importer.u => /\ u \in files' <=> u \in files
                                  /\ u \in excused' <=> u \in excused
  <2>1. CASE importer.u \in Uuids
    BY <2>1, OneUnlinked
  <2>2. CASE importer.u \notin Uuids
    <3>1. files' = files /\ excused' = excused
      BY <2>2, Fields DEF BackupInv, Unlink
    <3> QED
      BY <2>2, <3>1, Fields DEF BackupInv, HistoryInv, RowsFit
  <2> QED
    BY <2>1, <2>2
<1>1. Now("check", importer.todo, NoClip, 0, 0, importer.imported, TRUE)
  <2>1. {} \in SUBSET Uuids /\ TRUE \in BOOLEAN
    OBVIOUS
  <2>2. Now("check", importer.todo, NoClip, 0, 0, importer.imported \cup {},
            importer.errors \/ TRUE)
    BY <2>1, ImportMoves DEF BackupInv
  <2> QED
    BY <2>2 DEF Now
<1>2. TypeOK'
  BY <1>0, <1>1 DEF BackupInv, TypeOK, Now, disk
<1>3. RowsFit'
  <2>1. \A u \in Uuids : Has(u) => u <= used'
    BY Fields, BackupBounds DEF BackupInv, HistoryInv, RowsFit, Uuids
  <2>2. files' \cup unseen' \cup excused' \subseteq 1 .. used'
    <3>1. 1 .. used \subseteq 1 .. used'
      BY Fields, BackupBounds DEF BackupInv
    <3> QED
      BY <1>0, <3>1 DEF BackupInv, HistoryInv, RowsFit
  <2> QED
    BY <2>1, <2>2 DEF BackupInv, HistoryInv, RowsFit, Has
<1>4. NothingHalfImported'
  BY <1>0, <1>1, Fields DEF BackupInv, HistoryInv, NothingHalfImported, InFlight, Has, Now
<1>5. UnseenNoted'
  BY <1>0, <1>1, Fields DEF BackupInv, HistoryInv, UnseenNoted, Has, Now
<1>6. Importing'
  BY <1>1, Fields, BackupBounds DEF BackupInv, HistoryInv, Importing, Place, Now
<1>7. Restored'
  BY <1>1 DEF Restored, Now
<1>8. ExportInv' /\ Granted'
  BY <1>2, Aside
<1> QED
  BY <1>2, <1>3, <1>4, <1>5, <1>6, <1>7, <1>8 DEF BackupInv, HistoryInv

\* A clip is a duplicate, is to be inserted, or cannot be checked.
LEMMA CheckClipStep ==
    ASSUME BackupInv, CheckClip
    PROVE  BackupInv'
<1>1. /\ importer # Idle /\ importer.pc = "check"
      /\ UNCHANGED <<database, unseen, disk, grants, exporter, overtaken, removed, lost,
                     leftover, unspent>>
      /\ count' \in CountType
  BY Counted, Fields DEF BackupInv, CheckClip
<1>2. importer.clip = NoClip /\ importer.u = 0 /\ importer.done \in 0 .. FormatCount
  BY <1>1, Fields DEF BackupInv, HistoryInv, Importing, Place
<1>3. ASSUME TypeOK' PROVE ExportInv' /\ Granted'
  BY <1>1, <1>3, Aside DEF database
<1>4. ASSUME NEW c \in importer.todo, UNCHANGED excused,
             \/ /\ Stored(c)
                /\ Now(importer.pc, importer.todo \ {c}, NoClip, importer.u,
                       importer.done, importer.imported, importer.errors)
             \/ /\ ~Stored(c)
                /\ Now("insert", importer.todo \ {c}, c, importer.u,
                       importer.done, importer.imported, importer.errors)
             \/ Now(importer.pc, importer.todo \ {c}, importer.clip, importer.u,
                    importer.done, importer.imported, TRUE)
      PROVE  BackupInv'
  <2>1. TypeOK'
    BY <1>1, <1>4 DEF BackupInv, TypeOK, Now, database, disk
  <2>2. RowsFit' /\ NothingHalfImported'
    BY <1>1, <1>2, <1>4
    DEF BackupInv, HistoryInv, RowsFit, NothingHalfImported, InFlight, Has, Now, database
  <2>3. Importing'
    BY <1>1, <1>2, <1>4, Fields, BackupBounds
    DEF BackupInv, HistoryInv, Importing, Place, Now, database
  <2>4. Restored'
    BY <1>1, <1>4 DEF BackupInv, HistoryInv, Restored, Stored, Has, Now, database
  <2>5. UnseenNoted'
    BY <1>1, <1>4 DEF BackupInv, HistoryInv, UnseenNoted, Has, Now, database
  <2> QED
    BY <1>3, <2>1, <2>2, <2>3, <2>4, <2>5 DEF BackupInv, HistoryInv
<1>5. CASE importer' = Idle /\ excused' = excused \cup unseen
  <2>1. TypeOK'
    BY <1>1, <1>5 DEF BackupInv, TypeOK, database, disk
  <2>2. RowsFit' /\ NothingHalfImported' /\ UnseenNoted'
    BY <1>1, <1>2, <1>5, Fields
    DEF BackupInv, HistoryInv, RowsFit, NothingHalfImported, UnseenNoted, InFlight, Has,
        database, Uuids
  <2>3. Importing' /\ Restored'
    BY <1>5 DEF Importing, Restored
  <2> QED
    BY <1>3, <2>1, <2>2, <2>3 DEF BackupInv, HistoryInv
<1>6. PICK c \in importer.todo :
          \/ /\ importer' = [importer EXCEPT !.todo = @ \ {c},
                               !.pc = IF Stored(c) THEN @ ELSE "insert",
                               !.clip = IF Stored(c) THEN NoClip ELSE c]
             /\ UNCHANGED excused
          \/ /\ importer' = [importer EXCEPT !.todo = @ \ {c}, !.errors = TRUE]
             /\ UNCHANGED excused
          \/ importer' = Idle /\ excused' = excused \cup unseen
  BY DEF CheckClip
<1> QED
  BY <1>1, <1>4, <1>5, <1>6, ImportMoves DEF BackupInv

\* A clip has a uuid, a folder and the file of its original, or cannot be had.
LEMMA PrepareClipStep ==
    ASSUME BackupInv, PrepareClip
    PROVE  BackupInv'
<1>1. /\ importer # Idle /\ importer.pc = "insert" /\ importer.u = 0 /\ importer.from = "open"
      /\ used < MaxRows /\ used' = used + 1 /\ used + 1 \in Uuids /\ used + 1 \in 0 .. MaxRows
      /\ 1 .. used \subseteq 1 .. used + 1 /\ \A n \in 0 .. MaxRows : n <= used => n <= used + 1
      /\ UNCHANGED <<rows, unseen, disk, grants, exporter, history>>
      /\ count' \in CountType
      /\ importer.clip \in BundleClip /\ importer.done = 0
  <2>1. /\ importer # Idle /\ importer.pc = "insert" /\ importer.u = 0
        /\ importer.from = "open" /\ used < MaxRows /\ used' = used + 1
        /\ UNCHANGED <<rows, unseen, disk, grants, exporter, history>>
    BY Fields DEF BackupInv, PrepareClip
  <2>2. count' \in CountType
    BY Counted DEF BackupInv, PrepareClip
  <2>3. importer.clip \in BundleClip /\ importer.done = 0
    BY <2>1 DEF BackupInv, HistoryInv, Importing, Place
  <2>4. /\ used + 1 \in Uuids /\ used + 1 \in 0 .. MaxRows
        /\ 1 .. used \subseteq 1 .. used + 1 /\ \A n \in 0 .. MaxRows : n <= used => n <= used + 1
    BY <2>1, Fields, BackupBounds DEF BackupInv, Uuids
  <2> QED
    BY <2>1, <2>2, <2>3, <2>4
<1>2. folder' \in BOOLEAN
  BY DEF BackupInv, TypeOK, PrepareClip
<1>3. ~Has(used + 1) /\ used + 1 \notin files /\ used + 1 \notin excused /\ used + 1 \notin unseen
  BY <1>1, Fields, BackupBounds DEF BackupInv, HistoryInv, RowsFit
<1>4. ASSUME NEW clip \in BundleClip,
             clip.content = importer.clip.content, clip.n = importer.clip.n,
             files' = IF OwnsFile THEN files \cup {used + 1} ELSE files,
             \/ clip = importer.clip /\ Now("insert", importer.todo, clip, used + 1, 0,
                                            importer.imported, importer.errors)
             \/ Now("insert", importer.todo, clip, used + 1, 0, importer.imported, TRUE)
      PROVE  BackupInv'
  <2>1. TypeOK'
    BY <1>1, <1>2, <1>4 DEF BackupInv, TypeOK, Now, disk, history
  <2>2. RowsFit'
    <3>1. \A u \in Uuids : Has(u) => u <= used + 1
      BY <1>1, BackupBounds DEF BackupInv, HistoryInv, RowsFit, Uuids
    <3>2. files' \cup unseen' \cup excused' \subseteq 1 .. used + 1
      BY <1>1, <1>4, Fields DEF BackupInv, HistoryInv, RowsFit, history
    <3> QED
      BY <1>1, <3>1, <3>2 DEF BackupInv, HistoryInv, RowsFit, Has
  <2>3. NothingHalfImported'
    BY <1>1, <1>4
    DEF BackupInv, HistoryInv, NothingHalfImported, InFlight, Has, Now, history, Uuids
  <2>4. Importing'
    <3>1. Place(importer)'
      BY <1>1, <1>4, Fields, BackupBounds DEF BackupInv, HistoryInv, Importing, Place, Now
    <3>2. /\ ~Has(importer.u)' /\ importer'.u \notin excused'
          /\ importer'.u \in files' <=> OwnsFile'
      BY <1>1, <1>3, <1>4 DEF OwnsFile, Has, Now, history
    <3>3. importer'.pc = "insert"
      BY <1>4 DEF Now
    <3> QED
      BY <3>1, <3>2, <3>3 DEF Importing
  <2>5. Restored'
    BY <1>1, <1>4 DEF BackupInv, HistoryInv, Restored, Stored, Has, Now, history
  <2>6. UnseenNoted'
    BY <1>1, <1>4, Fields DEF BackupInv, HistoryInv, UnseenNoted, Has, Now, history, Uuids
  <2> QED
    BY <1>1, <2>1, <2>2, <2>3, <2>4, <2>5, <2>6, Aside DEF BackupInv, HistoryInv, history
<1>5. CASE NextClip({}, TRUE) /\ UNCHANGED files
  <2>1. Unlink({importer.u}) /\ importer.u \notin Uuids
    BY <1>1, <1>5, Fields, NoneUnlinked DEF BackupInv, Uuids, history
  <2> QED
    BY <1>1, <1>2, <1>5, <2>1, Fields, BackupBounds, GivenUp DEF BackupInv, history
<1> QED
  <2>1. \/ /\ importer' = [importer EXCEPT !.u = used + 1]
           /\ files' = IF OwnsFile THEN files \cup {used + 1} ELSE files
        \/ /\ importer' = [importer EXCEPT !.u = used + 1, !.clip.folder = FALSE,
                                           !.errors = TRUE]
           /\ files' = IF OwnsFile THEN files \cup {used + 1} ELSE files
        \/ NextClip({}, TRUE) /\ UNCHANGED files
    BY DEF PrepareClip
  <2>2. CASE /\ importer' = [importer EXCEPT !.u = used + 1]
             /\ files' = IF OwnsFile THEN files \cup {used + 1} ELSE files
    <3>1. Now(importer.pc, importer.todo, importer.clip, used + 1, importer.done,
              importer.imported, importer.errors)
      BY <1>1, <2>2, ImportMoves DEF BackupInv
    <3> QED
      BY <1>1, <1>4, <2>2, <3>1
  <2>3. CASE /\ importer' = [importer EXCEPT !.u = used + 1, !.clip.folder = FALSE,
                                             !.errors = TRUE]
             /\ files' = IF OwnsFile THEN files \cup {used + 1} ELSE files
    <3>1. PICK clip \in BundleClip :
              /\ clip.content = importer.clip.content /\ clip.n = importer.clip.n
              /\ Now(importer.pc, importer.todo, clip, used + 1, importer.done,
                     importer.imported, TRUE)
      BY <1>1, <2>3, ImportMoves DEF BackupInv
    <3> QED
      BY <1>1, <1>4, <2>3, <3>1
  <2> QED
    BY <1>5, <2>1, <2>2, <2>3

\* The row is inserted without its parts, or fails with its file.
LEMMA InsertRowStep ==
    ASSUME BackupInv, InsertRow
    PROVE  BackupInv'
<1>1. /\ importer # Idle /\ importer.pc = "insert" /\ importer.u \in Uuids
      /\ importer.u <= used
      /\ UNCHANGED <<used, folder, disk, grants, exporter, overtaken, removed, lost,
                     leftover, unspent>>
      /\ count' \in CountType
      /\ importer.clip \in BundleClip /\ importer.done = 0
      /\ ~Has(importer.u) /\ importer.u \notin excused
      /\ importer.u \in files <=> OwnsFile
  <2>1. /\ importer # Idle /\ importer.pc = "insert" /\ importer.u # 0
        /\ UNCHANGED <<used, folder, disk, grants, exporter, overtaken, removed, lost,
                     leftover, unspent>>
    BY Fields DEF BackupInv, InsertRow
  <2>2. count' \in CountType
    BY Counted DEF BackupInv, InsertRow
  <2>3. /\ importer.clip \in BundleClip /\ importer.done = 0 /\ importer.u <= used
        /\ ~Has(importer.u) /\ importer.u \notin excused
        /\ importer.u \in files <=> OwnsFile
    BY <2>1 DEF BackupInv, HistoryInv, Importing, Place
  <2>4. importer.u \in Uuids
    BY <2>1, Fields, BackupBounds DEF BackupInv, Uuids
  <2> QED
    BY <2>1, <2>2, <2>3, <2>4
<1>2. /\ importer.clip.content \in Contents /\ importer.clip.n \in 0 .. FormatCount
      /\ importer.clip.folder \in BOOLEAN /\ importer.clip.n <= Parts(importer.clip.content)
      /\ importer.clip.content \in Images => importer.clip.n \in {0, 1}
  BY <1>1, BackupBounds
<1>3. CASE /\ rows' = [rows EXCEPT ![importer.u] = NewRow(0)]
           /\ importer' = [importer EXCEPT !.pc = "parts"]
           /\ unseen' = unseen \cup {importer.u} /\ UNCHANGED <<files, excused>>
  <2>1. /\ NewRow(0) \in Row /\ NewRow(0).content = importer.clip.content
        /\ NewRow(0).n = importer.clip.n /\ NewRow(0).parts = 0
        /\ NewRow(0).expired <=> importer.clip.content \in Images /\ importer.clip.n = 0
    <3>1. 0 \in 0 .. FormatCount
      BY BackupBounds
    <3> QED
      BY <1>2, <3>1 DEF NewRow, Row
  <2>2. Now("parts", importer.todo, importer.clip, importer.u, importer.done,
            importer.imported, importer.errors)
    BY <1>1, <1>3, ImportMoves DEF BackupInv
  <2>3. /\ rows' \in [Uuids -> Row \cup {Gone}] /\ rows'[importer.u] = NewRow(0)
        /\ Has(importer.u)'
        /\ \A u \in Uuids : u # importer.u => rows'[u] = rows[u]
    BY <1>1, <1>3, <2>1, Fields, NoneIdle DEF BackupInv, Has
  <2> HIDE DEF NewRow
  <2>4. TypeOK'
    BY <1>1, <1>3, <2>2, <2>3 DEF BackupInv, TypeOK, Now, disk
  <2>5. RowsFit'
    <3>1. ASSUME NEW u \in Uuids, Has(u)'
          PROVE  /\ u <= used
                 /\ rows'[u].n <= Parts(rows'[u].content)
                 /\ rows'[u].parts <= Parts(rows'[u].content)
                 /\ rows'[u].expired => rows'[u].content \in Images /\ rows'[u].parts = 0
                 /\ rows'[u].content \in Images /\ ~rows'[u].expired => rows'[u].n = 1
      <4>1. CASE u = importer.u
        BY <1>1, <1>2, <2>1, <2>3, <4>1, BackupBounds
      <4>2. CASE u # importer.u
        BY <2>3, <3>1, <4>2 DEF BackupInv, HistoryInv, RowsFit, Has
      <4> QED
        BY <4>1, <4>2
    <3>2. importer.u \in 1 .. used
      BY <1>1, Fields, BackupBounds DEF BackupInv, Uuids
    <3> QED
      BY <1>1, <1>3, <3>1, <3>2 DEF BackupInv, HistoryInv, RowsFit
  <2>6. NothingHalfImported'
    BY <1>1, <1>3, <2>2, <2>3
    DEF BackupInv, HistoryInv, NothingHalfImported, InFlight, Has, Now
  <2>7. Importing'
    <3>1. Place(importer)'
      BY <1>1, <1>2, <2>2, Fields, BackupBounds
      DEF BackupInv, HistoryInv, Importing, Place, Now, Uuids
    <3>2. PartsFit(importer)'
      BY <1>1, <1>2, <1>3, <2>1, <2>2, <2>3, BackupBounds
      DEF PartsFit, OwnsFile, Has, Now
    <3> QED
      BY <2>2, <3>1, <3>2 DEF Importing, Now
  <2>8. Restored'
    <3>1. \A c : Stored(c) => Stored(c)'
      BY <1>1, <2>3 DEF Stored, Has
    <3>2. Stored(importer.clip)'
      BY <1>1, <2>1, <2>2, <2>3 DEF Stored, Has, Now
    <3> QED
      BY <1>1, <2>2, <3>1, <3>2 DEF BackupInv, HistoryInv, Restored, Now
  <2>9. UnseenNoted'
    BY <1>1, <1>3, <2>2, <2>3, Fields
    DEF BackupInv, HistoryInv, UnseenNoted, Has, Now
  <2>10. ExportInv' /\ Granted'
    BY <1>1, <2>3, <2>4, NewRowAside
  <2> QED
    BY <2>4, <2>5, <2>6, <2>7, <2>8, <2>9, <2>10 DEF BackupInv, HistoryInv
<1>4. CASE /\ Unlink({importer.u}) /\ NextClip({}, TRUE)
           /\ UNCHANGED <<rows, unseen>>
  BY <1>1, <1>4, Fields, BackupBounds, GivenUp DEF BackupInv, TypeOK
<1> QED
  BY <1>3, <1>4 DEF InsertRow

\* The next part of a row is stored, the last one was, or the row is to go again
\* (index_imported_original, persist_imported_formats).
LEMMA StorePartStep ==
    ASSUME BackupInv, StorePart
    PROVE  BackupInv'
<1> DEFINE u == importer.u
<1>1. /\ importer # Idle /\ importer.pc = "parts" /\ u \in Uuids /\ u <= used
      /\ UNCHANGED <<files, used, folder, unseen, disk, grants, exporter, history>>
      /\ count' \in CountType
      /\ importer.clip \in BundleClip /\ importer.done <= importer.clip.n
      /\ importer.done \in 0 .. FormatCount /\ importer.clip.n \in 0 .. FormatCount
      /\ importer.clip.n <= Parts(importer.clip.content)
      /\ Place(importer) /\ PartsFit(importer)
  <2>1. /\ importer # Idle /\ importer.pc = "parts"
        /\ UNCHANGED <<files, used, folder, unseen, disk, grants, exporter, history>>
    BY Fields DEF BackupInv, StorePart
  <2>2. count' \in CountType
    BY Counted DEF BackupInv, StorePart
  <2>3. Place(importer) /\ PartsFit(importer)
    BY <2>1 DEF BackupInv, HistoryInv, Importing
  <2>4. /\ importer.clip \in BundleClip /\ importer.done <= importer.clip.n
        /\ u <= used /\ u # 0
    BY <2>1, <2>3 DEF Place
  <2>5. /\ u \in Uuids
        /\ importer.done \in 0 .. FormatCount /\ importer.clip.n \in 0 .. FormatCount
        /\ importer.clip.n <= Parts(importer.clip.content)
    BY <2>1, <2>4, Fields, BackupBounds DEF BackupInv, Uuids
  <2> QED
    BY <2>1, <2>2, <2>3, <2>4, <2>5
<1>2. CASE importer.done >= importer.clip.n /\ NextClip({u}, FALSE) /\ UNCHANGED rows
  <2>1. Now("check", importer.todo, NoClip, 0, 0, importer.imported \cup {u}, importer.errors)
    <3>1. {u} \in SUBSET Uuids /\ FALSE \in BOOLEAN
      BY <1>1
    <3>2. Now("check", importer.todo, NoClip, 0, 0, importer.imported \cup {u},
              importer.errors \/ FALSE)
      BY <1>1, <1>2, <3>1, ImportMoves DEF BackupInv
    <3> QED
      BY <1>1, <3>2, Fields DEF BackupInv, Now
  <2>2. importer.done = importer.clip.n
    BY <1>1, <1>2, BackupBounds
  <2>3. TypeOK'
    BY <1>1, <1>2, <2>1 DEF BackupInv, TypeOK, Now, disk, history
  <2>4. RowsFit'
    BY <1>1, <1>2 DEF BackupInv, HistoryInv, RowsFit, Has, history
  <2>5. NothingHalfImported'
    <3>1. ASSUME u \notin excused
          PROVE  /\ Has(u) => rows[u].expired \/ rows[u].parts = rows[u].n
                 /\ u \in files <=> Has(u) /\ rows[u].content \in Images /\ ~rows[u].expired
      BY <1>1, <2>2, <3>1, BackupBounds DEF PartsFit
    <3> HIDE DEF u
    <3>2. ASSUME NEW w \in Uuids \ excused, w # u
          PROVE  /\ Has(w) => rows[w].expired \/ rows[w].parts = rows[w].n
                 /\ w \in files <=> Has(w) /\ rows[w].content \in Images /\ ~rows[w].expired
      BY <1>1, <3>2 DEF BackupInv, HistoryInv, NothingHalfImported, InFlight, u
    <3> QED
      BY <1>1, <1>2, <3>1, <3>2 DEF NothingHalfImported, Has, history
  <2>6. Importing'
    BY <1>1, <2>1, Fields, BackupBounds DEF BackupInv, Importing, Place, Now
  <2>7. Restored'
    BY <1>1, <1>2, <2>1 DEF BackupInv, HistoryInv, Restored, Stored, Has, Now, history
  <2>8. UnseenNoted'
    BY <1>1, <1>2, <2>1 DEF BackupInv, HistoryInv, UnseenNoted, Has, Now, history
  <2>9. ExportInv' /\ Granted'
    BY <1>1, <1>2, <2>3, Aside DEF history
  <2> QED
    BY <2>3, <2>4, <2>5, <2>6, <2>7, <2>8, <2>9 DEF BackupInv, HistoryInv
<1>3. CASE /\ importer.done < importer.clip.n /\ Has(u)
           /\ rows' = [rows EXCEPT ![u].parts = @ + 1]
           /\ importer' = [importer EXCEPT !.done = @ + 1]
  <2>1. Now("parts", importer.todo, importer.clip, u, importer.done + 1, importer.imported,
            importer.errors)
    <3>1. importer.done < FormatCount
      BY <1>1, <1>3, BackupBounds
    <3> QED
      BY <1>1, <1>3, <3>1, ImportMoves DEF BackupInv
  <2>2. /\ ~rows[u].expired /\ rows[u].parts < Parts(rows[u].content)
        /\ rows[u].parts \in 0 .. FormatCount /\ rows[u] \in Row
    <3>1. ~rows[u].expired
      BY <1>1, <1>3, BackupBounds DEF PartsFit
    <3>2. /\ rows[u].parts \in 0 .. FormatCount /\ rows[u].content \in Contents
          /\ rows[u].n \in 0 .. FormatCount /\ rows[u] \in Row
      BY <1>1, <1>3, Fields DEF BackupInv
    <3>3. CASE u \in excused
      <4>1. rows[u].content \in Images <=> importer.clip.content \in Images
        BY <1>1, <1>3 DEF PartsFit
      <4>2. rows[u].parts <= importer.done
        BY <1>1, <1>3 DEF PartsFit
      <4>3. Parts(rows[u].content) = Parts(importer.clip.content)
        BY <4>1 DEF Parts
      <4> QED
        BY <1>1, <1>3, <3>1, <3>2, <4>2, <4>3, BackupBounds
    <3>4. CASE u \notin excused
      <4>1. rows[u].parts = importer.done /\ rows[u].n = importer.clip.n
        BY <1>1, <1>3, <3>1, <3>4 DEF PartsFit
      <4>2. rows[u].n <= Parts(rows[u].content)
        BY <1>1, <1>3 DEF BackupInv, HistoryInv, RowsFit
      <4> QED
        BY <1>1, <1>3, <3>1, <3>2, <4>1, <4>2, BackupBounds
    <3> QED
      BY <3>3, <3>4
  <2>3. /\ rows' \in [Uuids -> Row \cup {Gone}] /\ rows'[u] # Gone
        /\ rows'[u].content = rows[u].content /\ rows'[u].n = rows[u].n
        /\ rows'[u].expired = rows[u].expired /\ rows'[u].parts = rows[u].parts + 1
        /\ rows[u].parts + 1 \in 0 .. FormatCount
        /\ \A w \in Uuids : w # u => rows'[w] = rows[w]
    <3>1. rows[u].parts + 1 \in 0 .. FormatCount
      BY <2>2, BackupBounds
    <3> DEFINE r == [rows[u] EXCEPT !.parts = rows[u].parts + 1]
    <3>2. rows' = [rows EXCEPT ![u] = r]
      BY <1>3
    <3>3. /\ r \in Row /\ r.content = rows[u].content /\ r.n = rows[u].n
          /\ r.expired = rows[u].expired /\ r.parts = rows[u].parts + 1
      BY <2>2, <3>1 DEF Row
    <3> HIDE DEF r
    <3>4. rows' \in [Uuids -> Row \cup {Gone}] /\ rows'[u] = r
      BY <1>1, <3>2, <3>3, Fields DEF BackupInv
    <3>5. \A w \in Uuids : w # u => rows'[w] = rows[w]
      BY <1>1, <3>2, Fields DEF BackupInv
    <3> QED
      BY <3>1, <3>3, <3>4, <3>5, NoneIdle
  <2> HIDE DEF u
  <2>4. TypeOK'
    BY <1>1, <1>3, <2>1, <2>3 DEF BackupInv, TypeOK, Now, disk, history
  <2>5. RowsFit'
    <3>1. ASSUME NEW w \in Uuids, Has(w)'
          PROVE  /\ w <= used
                 /\ rows'[w].n <= Parts(rows'[w].content)
                 /\ rows'[w].parts <= Parts(rows'[w].content)
                 /\ rows'[w].expired => rows'[w].content \in Images /\ rows'[w].parts = 0
                 /\ rows'[w].content \in Images /\ ~rows'[w].expired => rows'[w].n = 1
      <4>1. CASE w = u
        <5>1. rows'[u].parts <= Parts(rows'[u].content)
          BY <2>2, <2>3, BackupBounds
        <5>2. /\ rows[u].n <= Parts(rows[u].content)
              /\ rows[u].content \in Images /\ ~rows[u].expired => rows[u].n = 1
          BY <1>1, <1>3 DEF BackupInv, HistoryInv, RowsFit
        <5>3. ~rows'[u].expired
          BY <2>2, <2>3
        <5> QED
          BY <1>1, <2>3, <4>1, <5>1, <5>2, <5>3
      <4>2. CASE w # u
        BY <2>3, <3>1, <4>2 DEF BackupInv, HistoryInv, RowsFit, Has
      <4> QED
        BY <4>1, <4>2
    <3> QED
      BY <1>1, <3>1 DEF BackupInv, HistoryInv, RowsFit, history
  <2>6. NothingHalfImported'
    BY <1>1, <1>3, <2>1, <2>3
    DEF BackupInv, HistoryInv, NothingHalfImported, InFlight, Has, Now, history, u
  <2>7. Importing'
    <3>1. Place(importer)'
      BY <1>1, <1>3, <2>1, BackupBounds DEF Place, Now, u
    <3>2. PartsFit(importer)'
      BY <1>1, <1>3, <2>1, <2>2, <2>3, BackupBounds DEF PartsFit, Has, Now, history, u
    <3> QED
      BY <2>1, <3>1, <3>2 DEF Importing, Now
  <2>8. Restored'
    <3>1. ASSUME NEW w \in Uuids, Has(w)
          PROVE  rows'[w] # Gone /\ rows'[w].content = rows[w].content /\ rows'[w].n = rows[w].n
      BY <2>3, <3>1 DEF Has
    <3>2. ASSUME NEW c, Stored(c)
          PROVE  \E w \in Uuids : /\ rows'[w] # Gone
                                  /\ rows'[w].content = c.content /\ rows'[w].n = c.n
      BY <3>1, <3>2 DEF Stored
    <3>3. \A c : Stored(c) => Stored(c)'
      BY <3>2 DEF Stored, Has
    <3> QED
      BY <1>1, <2>1, <3>3 DEF BackupInv, HistoryInv, Restored, Now, history
  <2>9. UnseenNoted'
    BY <1>1, <1>3, <2>1, <2>3 DEF BackupInv, HistoryInv, UnseenNoted, Has, Now, history, u
  <2>10. ExportInv' /\ Granted'
    <3>1. ASSUME NEW w \in Uuids, Has(w)
          PROVE  /\ Has(w)' /\ rows'[w].content = rows[w].content
                 /\ rows'[w].expired = rows[w].expired /\ rows'[w].parts >= rows[w].parts
      <4>1. rows[w].parts \in 0 .. FormatCount
        BY <3>1, Fields DEF BackupInv
      <4>2. CASE w = u
        BY <2>3, <4>1, <4>2, BackupBounds DEF Has
      <4>3. CASE w # u
        BY <2>3, <3>1, <4>1, <4>3, BackupBounds DEF Has
      <4> QED
        BY <4>2, <4>3
    <3>2. ExportInv'
      BY <1>1, <2>4, <3>1, ExportGoesOn DEF BackupInv, history
    <3> QED
      BY <1>1, <3>2 DEF BackupInv, Granted, history
  <2> QED
    BY <2>4, <2>5, <2>6, <2>7, <2>8, <2>9, <2>10 DEF BackupInv, HistoryInv
<1>4. CASE importer' = [importer EXCEPT !.pc = "rollback"] /\ UNCHANGED rows
  <2>1. Now("rollback", importer.todo, importer.clip, u, importer.done, importer.imported,
            importer.errors)
    BY <1>1, <1>4, ImportMoves DEF BackupInv
  <2>2. TypeOK'
    BY <1>1, <1>4, <2>1 DEF BackupInv, TypeOK, Now, disk, history
  <2>3. RowsFit' /\ NothingHalfImported' /\ UnseenNoted'
    BY <1>1, <1>4, <2>1
    DEF BackupInv, HistoryInv, RowsFit, NothingHalfImported, UnseenNoted, InFlight, Has, Now,
        history
  <2>4. Importing'
    BY <1>1, <2>1 DEF Importing, Place, Now
  <2>5. Restored'
    BY <1>1, <1>4, <2>1 DEF BackupInv, HistoryInv, Restored, Stored, Has, Now, history
  <2>6. ExportInv' /\ Granted'
    BY <1>1, <1>4, <2>2, Aside DEF history
  <2> QED
    BY <2>2, <2>3, <2>4, <2>5, <2>6 DEF BackupInv, HistoryInv
<1> QED
  <2>1. importer.done < importer.clip.n \/ importer.done >= importer.clip.n
    BY <1>1, BackupBounds
  <2> QED
    BY <1>2, <1>3, <1>4, <2>1 DEF StorePart

\* The row goes again and then the file, or stays as it is.
LEMMA RollBackStep ==
    ASSUME BackupInv, RollBack
    PROVE  BackupInv'
<1> DEFINE u == importer.u
<1>1. /\ importer # Idle /\ importer.pc = "rollback" /\ u \in Uuids /\ u <= used
      /\ UNCHANGED <<used, folder, unseen, disk, grants, exporter, removed, lost,
                     leftover, unspent>>
      /\ count' \in CountType
  <2>1. /\ importer # Idle /\ importer.pc = "rollback"
        /\ UNCHANGED <<used, folder, unseen, disk, grants, exporter, removed, lost,
                     leftover, unspent>>
    BY Fields DEF BackupInv, RollBack
  <2>2. count' \in CountType
    BY Counted DEF BackupInv, RollBack
  <2>3. u <= used /\ u # 0
    BY <2>1 DEF BackupInv, HistoryInv, Importing, Place
  <2>4. u \in Uuids
    BY <2>1, <2>3, Fields, BackupBounds DEF BackupInv, Uuids
  <2> QED
    BY <2>1, <2>2, <2>3, <2>4
<1>2. Now("check", importer.todo, NoClip, 0, 0, importer.imported, TRUE)
  <2>1. {} \in SUBSET Uuids /\ TRUE \in BOOLEAN
    OBVIOUS
  <2>2. Now("check", importer.todo, NoClip, 0, 0, importer.imported \cup {},
            importer.errors \/ TRUE)
    BY <1>1, <2>1, ImportMoves DEF BackupInv, RollBack
  <2> QED
    BY <2>2 DEF Now
<1>3. Importing' /\ Restored'
  <2>1. used \in 0 .. MaxRows /\ importer.todo \subseteq importer.all
    BY <1>1, Fields DEF BackupInv, HistoryInv, Importing, Place
  <2>2. Importing'
    BY <1>1, <1>2, <2>1, BackupBounds DEF Importing, Place, Now
  <2>3. Restored'
    BY <1>2 DEF Restored, Now
  <2> QED
    BY <2>2, <2>3
<1>4. CASE rows' = [rows EXCEPT ![u] = Gone] /\ Unlink({u}) /\ Overtakes({u})
  <2>0. /\ files' \subseteq files /\ excused \subseteq excused'
        /\ files' \subseteq Uuids /\ excused' \subseteq Uuids
        /\ files' \cup excused' \subseteq 1 .. used
        /\ u \in files' => u \in excused'
        /\ \A w : w # u => /\ w \in files' <=> w \in files
                           /\ w \in excused' <=> w \in excused
    BY <1>1, <1>4, OneUnlinked
  <2>1. /\ rows' \in [Uuids -> Row \cup {Gone}] /\ rows'[u] = Gone
        /\ \A w \in Uuids : w # u => rows'[w] = rows[w]
    BY <1>1, <1>4, Fields DEF BackupInv
  <2>2. /\ overtaken' \subseteq Uuids
        /\ exporter # Idle => overtaken \subseteq overtaken' /\ u \in overtaken'
    BY <1>1, <1>4, Fields DEF BackupInv, Overtakes
  <2> HIDE DEF u
  <2>3. TypeOK'
    BY <1>1, <1>2, <1>4, <2>0, <2>1, <2>2 DEF BackupInv, TypeOK, Now, disk
  <2>4. RowsFit'
    BY <1>1, <1>4, <2>0, <2>1 DEF BackupInv, HistoryInv, RowsFit, Has
  <2>5. NothingHalfImported'
    BY <1>1, <1>4, <2>0, <2>1 DEF BackupInv, HistoryInv, NothingHalfImported, InFlight, Has, u
  <2>6. UnseenNoted'
    BY <1>1, <1>2, <1>4, <2>0, <2>1 DEF BackupInv, HistoryInv, UnseenNoted, Has, Now, u
  <2>7. ExportInv'
    <3>1. ASSUME NEW w \in Uuids, Has(w), w # u
          PROVE  Has(w)' /\ rows'[w] = rows[w] /\ rows'[w].parts >= rows[w].parts
      BY <2>1, <3>1, Fields, BackupBounds DEF BackupInv, Has
    <3> QED
      BY <1>1, <2>2, <2>3, <3>1, ExportGoesOn DEF BackupInv
  <2> QED
    BY <1>1, <1>3, <2>3, <2>4, <2>5, <2>6, <2>7 DEF BackupInv, HistoryInv, Granted
<1>5. CASE excused' = excused \cup {u} /\ UNCHANGED <<rows, files, overtaken>>
  <2>1. TypeOK'
    BY <1>1, <1>2, <1>5 DEF BackupInv, TypeOK, Now, disk
  <2>2. RowsFit'
    <3>1. u \in 1 .. used
      BY <1>1, Fields, BackupBounds DEF BackupInv, Uuids
    <3> QED
      BY <1>1, <1>5, <3>1 DEF BackupInv, HistoryInv, RowsFit, Has
  <2>3. NothingHalfImported' /\ UnseenNoted'
    BY <1>1, <1>2, <1>5
    DEF BackupInv, HistoryInv, NothingHalfImported, UnseenNoted, InFlight, Has, Now
  <2>4. ExportInv' /\ Granted'
    BY <1>1, <1>5, <2>1, Aside
  <2> QED
    BY <1>3, <2>1, <2>2, <2>3, <2>4 DEF BackupInv, HistoryInv
<1> QED
  BY <1>4, <1>5 DEF RollBack

\* An import is over, and the index is to be built again if it has stored anything.
LEMMA EndImportStep ==
    ASSUME BackupInv, EndImport
    PROVE  BackupInv'
<1>1. /\ importer # Idle /\ importer.pc = "check" /\ importer' = Idle
      /\ unseen' \in {unseen, {}} /\ (importer.imported # {} => unseen' = {})
      /\ UNCHANGED <<database, disk, grants, exporter, history, count>>
  BY Fields DEF BackupInv, EndImport
<1>2. importer.u = 0
  BY <1>1 DEF BackupInv, HistoryInv, Importing, Place
<1>3. TypeOK'
  BY <1>1 DEF BackupInv, TypeOK, database, disk, history
<1>4. RowsFit' /\ NothingHalfImported' /\ UnseenNoted'
  BY <1>1, <1>2, Fields
  DEF BackupInv, HistoryInv, RowsFit, NothingHalfImported, UnseenNoted, InFlight, Has, Uuids,
      database, history
<1>5. Importing' /\ Restored'
  BY <1>1 DEF Importing, Restored
<1>6. ExportInv' /\ Granted'
  BY <1>1, <1>3, Aside DEF database, history
<1> QED
  BY <1>3, <1>4, <1>5, <1>6 DEF BackupInv, HistoryInv

\* A clip of the other database has a uuid and its file, or is given up.
LEMMA DittoClipStep ==
    ASSUME BackupInv, DittoClip
    PROVE  BackupInv'
<1>1. /\ importer # Idle /\ importer.pc = "insert" /\ importer.u = 0
      /\ used < MaxRows /\ used' = used + 1 /\ used + 1 \in Uuids /\ used + 1 \in 0 .. MaxRows
      /\ 1 .. used \subseteq 1 .. used + 1 /\ \A n \in 0 .. MaxRows : n <= used => n <= used + 1
      /\ UNCHANGED <<rows, folder, unseen, disk, grants, exporter, history>>
      /\ count' \in CountType
      /\ importer.clip \in BundleClip /\ importer.done = 0
  <2>1. /\ importer # Idle /\ importer.pc = "insert" /\ importer.from = "ditto"
        /\ used < MaxRows /\ used' = used + 1
        /\ UNCHANGED <<rows, folder, unseen, disk, grants, exporter, history>>
    BY Fields DEF BackupInv, DittoClip
  <2>2. count' \in CountType
    BY Counted DEF BackupInv, DittoClip
  <2>3. importer.clip \in BundleClip /\ importer.done = 0 /\ importer.u = 0
    BY <2>1 DEF BackupInv, HistoryInv, Importing, Place
  <2>4. /\ used + 1 \in Uuids /\ used + 1 \in 0 .. MaxRows
        /\ 1 .. used \subseteq 1 .. used + 1 /\ \A n \in 0 .. MaxRows : n <= used => n <= used + 1
    BY <2>1, Fields, BackupBounds DEF BackupInv, Uuids
  <2> QED
    BY <2>1, <2>2, <2>3, <2>4
<1>2. ~Has(used + 1) /\ used + 1 \notin files /\ used + 1 \notin excused /\ used + 1 \notin unseen
  BY <1>1, Fields, BackupBounds DEF BackupInv, HistoryInv, RowsFit
<1>3. CASE /\ importer' = [importer EXCEPT !.pc = "commit", !.u = used + 1]
           /\ files' = IF OwnsFile THEN files \cup {used + 1} ELSE files
  <2>1. Now("commit", importer.todo, importer.clip, used + 1, importer.done, importer.imported,
            importer.errors)
    BY <1>1, <1>3, ImportMoves DEF BackupInv
  <2>2. TypeOK'
    BY <1>1, <1>3, <2>1 DEF BackupInv, TypeOK, Now, disk, history
  <2>3. RowsFit'
    <3>1. \A u \in Uuids : Has(u) => u <= used + 1
      BY <1>1, BackupBounds DEF BackupInv, HistoryInv, RowsFit, Uuids
    <3>2. files' \cup unseen' \cup excused' \subseteq 1 .. used + 1
      BY <1>1, <1>3, Fields DEF BackupInv, HistoryInv, RowsFit, history
    <3> QED
      BY <1>1, <3>1, <3>2 DEF BackupInv, HistoryInv, RowsFit, Has
  <2>4. NothingHalfImported'
    BY <1>1, <1>3, <2>1
    DEF BackupInv, HistoryInv, NothingHalfImported, InFlight, Has, Now, history, Uuids
  <2>5. Importing'
    <3>1. Place(importer)'
      BY <1>1, <2>1, Fields, BackupBounds DEF BackupInv, HistoryInv, Importing, Place, Now
    <3>2. /\ ~Has(importer.u)' /\ importer'.u \notin excused'
          /\ importer'.u \in files' <=> OwnsFile'
      BY <1>1, <1>2, <1>3, <2>1 DEF OwnsFile, Has, Now, history
    <3>3. importer'.pc = "commit"
      BY <2>1 DEF Now
    <3> QED
      BY <3>1, <3>2, <3>3 DEF Importing
  <2>6. Restored'
    BY <1>1, <2>1 DEF BackupInv, HistoryInv, Restored, Stored, Has, Now, history
  <2>7. UnseenNoted'
    BY <1>1, <1>2, <1>3, <2>1, Fields
    DEF BackupInv, HistoryInv, UnseenNoted, Has, Now, history, Uuids
  <2>8. ExportInv' /\ Granted'
    BY <1>1, <2>2, Aside DEF history
  <2> QED
    BY <2>2, <2>3, <2>4, <2>5, <2>6, <2>7, <2>8 DEF BackupInv, HistoryInv
<1>4. CASE NextClip({}, TRUE) /\ UNCHANGED files
  <2>1. Unlink({importer.u}) /\ importer.u \notin Uuids
    BY <1>1, <1>4, Fields, NoneUnlinked DEF BackupInv, Uuids, history
  <2>2. folder' \in BOOLEAN
    BY <1>1 DEF BackupInv, TypeOK
  <2> QED
    BY <1>1, <1>4, <2>1, <2>2, Fields, BackupBounds, GivenUp DEF BackupInv, history
<1> QED
  BY <1>3, <1>4 DEF DittoClip

\* Its row is stored whole, or its file goes.
LEMMA CommitDittoStep ==
    ASSUME BackupInv, CommitDitto
    PROVE  BackupInv'
<1>1. /\ importer # Idle /\ importer.pc = "commit" /\ importer.u \in Uuids
      /\ importer.u <= used
      /\ UNCHANGED <<used, folder, disk, grants, exporter, overtaken, removed, lost,
                     leftover, unspent>>
      /\ count' \in CountType
      /\ importer.clip \in BundleClip
      /\ ~Has(importer.u) /\ importer.u \notin excused
      /\ importer.u \in files <=> OwnsFile
  <2>1. /\ importer # Idle /\ importer.pc = "commit"
        /\ UNCHANGED <<used, folder, disk, grants, exporter, overtaken, removed, lost,
                     leftover, unspent>>
    BY Fields DEF BackupInv, CommitDitto
  <2>2. count' \in CountType
    BY Counted DEF BackupInv, CommitDitto
  <2>3. /\ importer.clip \in BundleClip /\ importer.u <= used /\ importer.u # 0
        /\ ~Has(importer.u) /\ importer.u \notin excused
        /\ importer.u \in files <=> OwnsFile
    BY <2>1 DEF BackupInv, HistoryInv, Importing, Place
  <2>4. importer.u \in Uuids
    BY <2>1, <2>3, Fields, BackupBounds DEF BackupInv, Uuids
  <2> QED
    BY <2>1, <2>2, <2>3, <2>4
<1>2. /\ importer.clip.content \in Contents /\ importer.clip.n \in 0 .. FormatCount
      /\ importer.clip.folder \in BOOLEAN /\ importer.clip.n <= Parts(importer.clip.content)
      /\ importer.clip.content \in Images => importer.clip.n \in {0, 1}
  BY <1>1, BackupBounds
<1>3. CASE /\ rows' = [rows EXCEPT ![importer.u] = NewRow(importer.clip.n)]
           /\ unseen' = unseen \cup {importer.u}
           /\ NextClip({importer.u}, FALSE) /\ UNCHANGED <<files, excused>>
  <2> DEFINE row == NewRow(importer.clip.n)
  <2>1. /\ row \in Row /\ row.content = importer.clip.content
        /\ row.n = importer.clip.n /\ row.parts = importer.clip.n
        /\ row.expired <=> importer.clip.content \in Images /\ importer.clip.n = 0
    BY <1>2 DEF NewRow, Row
  <2>2. Now("check", importer.todo, NoClip, 0, 0, importer.imported \cup {importer.u},
            importer.errors)
    <3>1. {importer.u} \in SUBSET Uuids /\ FALSE \in BOOLEAN
      BY <1>1
    <3>2. Now("check", importer.todo, NoClip, 0, 0, importer.imported \cup {importer.u},
              importer.errors \/ FALSE)
      BY <1>1, <1>3, <3>1, ImportMoves DEF BackupInv
    <3> QED
      BY <1>1, <3>2, Fields DEF BackupInv, Now
  <2> HIDE DEF row
  <2>3. /\ rows' \in [Uuids -> Row \cup {Gone}] /\ rows'[importer.u] = row
        /\ rows'[importer.u] # Gone
        /\ \A u \in Uuids : u # importer.u => rows'[u] = rows[u]
    <3>1. rows' = [rows EXCEPT ![importer.u] = row]
      BY <1>3 DEF row
    <3> QED
      BY <1>1, <2>1, <3>1, Fields, NoneIdle DEF BackupInv
  <2>4. TypeOK'
    BY <1>1, <1>3, <2>2, <2>3 DEF BackupInv, TypeOK, Now, disk
  <2>5. RowsFit'
    <3>1. ASSUME NEW u \in Uuids, Has(u)'
          PROVE  /\ u <= used
                 /\ rows'[u].n <= Parts(rows'[u].content)
                 /\ rows'[u].parts <= Parts(rows'[u].content)
                 /\ rows'[u].expired => rows'[u].content \in Images /\ rows'[u].parts = 0
                 /\ rows'[u].content \in Images /\ ~rows'[u].expired => rows'[u].n = 1
      <4>1. CASE u = importer.u
        BY <1>1, <1>2, <2>1, <2>3, <4>1, BackupBounds
      <4>2. CASE u # importer.u
        BY <2>3, <3>1, <4>2 DEF BackupInv, HistoryInv, RowsFit, Has
      <4> QED
        BY <4>1, <4>2
    <3>2. importer.u \in 1 .. used
      BY <1>1, Fields, BackupBounds DEF BackupInv, Uuids
    <3> QED
      BY <1>1, <1>3, <3>1, <3>2 DEF BackupInv, HistoryInv, RowsFit
  <2>6. NothingHalfImported'
    <3>1. ASSUME NEW u \in Uuids \ excused
          PROVE  /\ rows'[u] # Gone => rows'[u].expired \/ rows'[u].parts = rows'[u].n
                 /\ u \in files <=> /\ rows'[u] # Gone
                                    /\ rows'[u].content \in Images /\ ~rows'[u].expired
      <4>1. CASE u = importer.u
        BY <1>1, <1>2, <2>1, <2>3, <4>1 DEF OwnsFile
      <4>2. CASE u # importer.u
        BY <1>1, <2>3, <4>2 DEF BackupInv, HistoryInv, NothingHalfImported, InFlight, Has
      <4> QED
        BY <4>1, <4>2
    <3> QED
      BY <1>1, <1>3, <3>1 DEF NothingHalfImported, Has
  <2>7. Importing'
    BY <1>1, <2>2, Fields, BackupBounds DEF BackupInv, HistoryInv, Importing, Place, Now
  <2>8. Restored'
    <3>1. ASSUME NEW c, Stored(c)
          PROVE  \E w \in Uuids : /\ rows'[w] # Gone
                                  /\ rows'[w].content = c.content /\ rows'[w].n = c.n
      BY <1>1, <2>3, <3>1 DEF Stored, Has
    <3>2. \E w \in Uuids : /\ rows'[w] # Gone /\ rows'[w].content = importer.clip.content
                           /\ rows'[w].n = importer.clip.n
      BY <1>1, <2>1, <2>3
    <3>3. (\A c : Stored(c) => Stored(c)') /\ \A c : c = importer.clip => Stored(c)'
      BY <3>1, <3>2 DEF Stored, Has
    <3> QED
      BY <1>1, <2>2, <3>3 DEF BackupInv, HistoryInv, Restored, Now
  <2>9. UnseenNoted'
    BY <1>1, <1>3, <2>2, <2>3, Fields
    DEF BackupInv, HistoryInv, UnseenNoted, Has, Now
  <2>10. ExportInv' /\ Granted'
    BY <1>1, <2>3, <2>4, NewRowAside
  <2> QED
    BY <2>4, <2>5, <2>6, <2>7, <2>8, <2>9, <2>10 DEF BackupInv, HistoryInv
<1>4. CASE /\ Unlink({importer.u}) /\ NextClip({}, TRUE)
           /\ UNCHANGED <<rows, unseen>>
  BY <1>1, <1>4, Fields, BackupBounds, GivenUp DEF BackupInv, TypeOK
<1> QED
  BY <1>3, <1>4 DEF CommitDitto

----------------------------------------------------------------------------
(* The session: what the user and the clock do meanwhile.                  *)

\* A copy is captured.
LEMMA CaptureStep ==
    ASSUME BackupInv, NEW content \in Contents, Capture(content)
    PROVE  BackupInv'
<1> DEFINE w == used + 1
           row == [content |-> content, n |-> Parts(content), parts |-> Parts(content),
                   expired |-> FALSE, folder |-> FALSE]
<1>1. /\ used < MaxRows /\ used' = w /\ rows' = [rows EXCEPT ![w] = row]
      /\ files' = IF content \in Images THEN files \cup {w} ELSE files
      /\ UNCHANGED <<folder, unseen, disk, grants, exporter, importer, history>>
  BY DEF Capture
<1>2. count' \in CountType
  BY Counted DEF BackupInv, Capture, Command
<1>3. /\ row \in Row /\ row.content = content /\ row.n = Parts(content)
      /\ row.parts = Parts(content) /\ row.expired = FALSE
      /\ content \in Images => Parts(content) = 1
      /\ Parts(content) \in 0 .. FormatCount
  BY BackupBounds DEF Row
<1>4. /\ w \in Uuids /\ w \in 0 .. MaxRows /\ w # 0 /\ ~(w <= used)
      /\ 1 .. used \subseteq 1 .. w /\ w \in 1 .. w
      /\ \A n \in 0 .. MaxRows : n <= used => n <= w
  BY <1>1, Fields, BackupBounds DEF BackupInv, Uuids
<1>5. /\ ~Has(w) /\ w \notin files /\ w \notin excused /\ w \notin unseen
      /\ importer # Idle => importer.u # w
  BY <1>4, Fields, BackupBounds DEF BackupInv, HistoryInv, RowsFit, Importing, Place
<1> HIDE DEF row, w
<1>6. /\ rows' \in [Uuids -> Row \cup {Gone}] /\ rows'[w] = row /\ rows'[w] # Gone
      /\ \A u \in Uuids : u # w => rows'[u] = rows[u]
  BY <1>1, <1>3, <1>4, Fields, NoneIdle DEF BackupInv
<1>7. TypeOK'
  BY <1>1, <1>2, <1>4, <1>6 DEF BackupInv, TypeOK, disk, history
<1>8. RowsFit'
  <2>1. ASSUME NEW u \in Uuids, rows'[u] # Gone
        PROVE  /\ u <= w
               /\ rows'[u].n <= Parts(rows'[u].content)
               /\ rows'[u].parts <= Parts(rows'[u].content)
               /\ rows'[u].expired => rows'[u].content \in Images /\ rows'[u].parts = 0
               /\ rows'[u].content \in Images /\ ~rows'[u].expired => rows'[u].n = 1
    <3>1. CASE u = w
      BY <1>3, <1>4, <1>6, <3>1, BackupBounds
    <3>2. CASE u # w
      <4>1. Has(u) /\ rows'[u] = rows[u]
        BY <1>6, <2>1, <3>2 DEF Has
      <4>2. u <= w
        BY <1>4, <4>1, BackupBounds DEF BackupInv, HistoryInv, RowsFit, Uuids
      <4> QED
        BY <4>1, <4>2 DEF BackupInv, HistoryInv, RowsFit
    <3> QED
      BY <3>1, <3>2
  <2>2. files' \cup unseen' \cup excused' \subseteq 1 .. w
    BY <1>1, <1>4 DEF BackupInv, HistoryInv, RowsFit, history
  <2> QED
    BY <1>1, <2>1, <2>2 DEF RowsFit, Has
<1>9. Importing'
  <2>1. ASSUME importer # Idle PROVE Place(importer)'
    BY <1>1, <1>4, <2>1, Fields DEF BackupInv, HistoryInv, Importing, Place
  <2>2. ASSUME importer # Idle, importer.u # 0
        PROVE  /\ rows'[importer.u] = rows[importer.u]
               /\ importer.u \in files' <=> importer.u \in files
    <3>1. importer.u \in Uuids
      BY <2>2, Fields, BackupBounds DEF BackupInv, Uuids
    <3> QED
      BY <1>1, <1>5, <1>6, <2>2, <3>1
  <2>3. importer # Idle /\ importer.pc = "parts" => importer.u # 0
    BY DEF BackupInv, HistoryInv, Importing, Place
  <2> QED
    BY <1>1, <2>1, <2>2, <2>3 DEF BackupInv, HistoryInv, Importing, PartsFit, OwnsFile, Has, history
<1>10. NothingHalfImported'
  <2>1. ASSUME NEW u \in Uuids \ excused, ~InFlight(u)
        PROVE  /\ rows'[u] # Gone => rows'[u].expired \/ rows'[u].parts = rows'[u].n
               /\ u \in files' <=> /\ rows'[u] # Gone
                                   /\ rows'[u].content \in Images /\ ~rows'[u].expired
    <3>1. CASE u = w
      BY <1>1, <1>3, <1>5, <1>6, <3>1
    <3>2. CASE u # w
      BY <1>1, <1>6, <2>1, <3>2 DEF BackupInv, HistoryInv, NothingHalfImported, Has
    <3> QED
      BY <3>1, <3>2
  <2> QED
    BY <1>1, <2>1 DEF NothingHalfImported, InFlight, Has, history
<1>11. Restored'
  <2>1. ASSUME NEW c, Stored(c)
        PROVE  \E u \in Uuids : /\ rows'[u] # Gone
                                /\ rows'[u].content = c.content /\ rows'[u].n = c.n
    BY <1>5, <1>6, <2>1 DEF Stored, Has
  <2>2. \A c : Stored(c) => Stored(c)'
    BY <2>1 DEF Stored, Has
  <2> QED
    BY <1>1, <2>2 DEF BackupInv, HistoryInv, Restored, history
<1>12. UnseenNoted'
  BY <1>1, <1>5, <1>6, Fields DEF BackupInv, HistoryInv, UnseenNoted, Has, history
<1>13. ExportInv' /\ Granted'
  BY <1>1, <1>2, <1>4, <1>5, <1>6, <1>7, NewRowAside DEF history
<1> QED
  BY <1>7, <1>8, <1>9, <1>10, <1>11, <1>12, <1>13 DEF BackupInv, HistoryInv

\* What a command takes from the history is noted by the import under way.
LEMMA Noted ==
    ASSUME BackupInv, NEW us \in SUBSET Uuids, Removes(us), \A u \in us : Has(u)
    PROVE  /\ removed' \subseteq [content : Contents, n : 0 .. FormatCount]
           /\ importer # Idle =>
                 /\ removed \subseteq removed'
                 /\ \A u \in us : [content |-> rows[u].content, n |-> rows[u].n] \in removed'
<1>1. \A u \in us : [content |-> rows[u].content, n |-> rows[u].n]
                    \in [content : Contents, n : 0 .. FormatCount]
  BY Fields DEF BackupInv
<1> QED
  BY <1>1 DEF BackupInv, TypeOK, Removes

\* Clips are deleted, with their entries and the files these name.
LEMMA DeleteStep ==
    ASSUME BackupInv, NEW us \in SUBSET Uuids, Delete(us)
    PROVE  BackupInv'
<1>1. /\ \A u \in us : Has(u)
      /\ rows' = [u \in Uuids |-> IF u \in us THEN Gone ELSE rows[u]]
      /\ Unlink({ u \in us : rows[u].content \in Images /\ rows[u].parts = 1 })
      /\ Overtakes(us) /\ Removes(us)
      /\ UNCHANGED <<used, folder, unseen, disk, grants, exporter, importer, lost,
                      leftover, unspent>>
  BY DEF Delete
<1>0. /\ files' \subseteq files /\ excused \subseteq excused'
      /\ files' \subseteq Uuids /\ excused' \subseteq Uuids
      /\ files' \cup excused' \subseteq 1 .. used
      /\ \A u \in us : /\ rows[u].content \in Images /\ rows[u].parts = 1 /\ u \in files'
                        => u \in excused'
      /\ \A u : u \notin us => /\ u \in files' <=> u \in files
                               /\ u \in excused' <=> u \in excused
  <2> DEFINE owned == { u \in us : rows[u].content \in Images /\ rows[u].parts = 1 }
  <2>1. owned \in SUBSET Uuids /\ Unlink(owned)
    BY <1>1
  <2> HIDE DEF owned
  <2>2. /\ files' \subseteq files /\ excused \subseteq excused'
        /\ files' \subseteq Uuids /\ excused' \subseteq Uuids
        /\ files' \cup excused' \subseteq 1 .. used
        /\ \A u \in owned : u \in files' => u \in excused'
        /\ \A u : u \notin owned => /\ u \in files' <=> u \in files
                                    /\ u \in excused' <=> u \in excused
    BY <2>1, Unlinked
  <2> QED
    BY <2>2 DEF owned
<1>2. count' \in CountType
  BY Counted DEF BackupInv, Delete, Command
<1>3. /\ rows' \in [Uuids -> Row \cup {Gone}]
      /\ \A u \in Uuids : /\ u \in us => rows'[u] = Gone
                          /\ u \notin us => rows'[u] = rows[u] /\ (u \in files' <=> u \in files)
  <2>1. /\ rows' \in [Uuids -> Row \cup {Gone}]
        /\ \A u \in Uuids : /\ u \in us => rows'[u] = Gone
                            /\ u \notin us => rows'[u] = rows[u]
    BY <1>1, Fields DEF BackupInv
  <2>2. ASSUME NEW u \in Uuids, u \notin us PROVE u \in files' <=> u \in files
    BY <1>0, <2>2
  <2> QED
    BY <2>1, <2>2
<1>4. /\ overtaken' \subseteq Uuids
      /\ exporter # Idle => overtaken \subseteq overtaken' /\ us \subseteq overtaken'
  BY <1>1, Fields DEF BackupInv, Overtakes
<1>5. /\ removed' \subseteq [content : Contents, n : 0 .. FormatCount]
      /\ importer # Idle =>
            /\ removed \subseteq removed'
            /\ \A u \in us : [content |-> rows[u].content, n |-> rows[u].n] \in removed'
  BY <1>1, Noted
<1>6. TypeOK'
  BY <1>0, <1>1, <1>2, <1>3, <1>4, <1>5 DEF BackupInv, TypeOK, disk
<1>7. RowsFit'
  BY <1>0, <1>1, <1>3 DEF BackupInv, HistoryInv, RowsFit, Has
<1>8. Importing'
  <2>1. ASSUME importer # Idle PROVE Place(importer)'
    BY <1>1, <2>1 DEF BackupInv, HistoryInv, Importing, Place
  <2>2. importer # Idle /\ importer.u # 0 => importer.u \in Uuids
    BY Fields, BackupBounds DEF BackupInv, Uuids
  <2>3. ASSUME importer # Idle, importer.pc = "parts" PROVE PartsFit(importer)'
    <3>1. importer.u \in Uuids /\ PartsFit(importer)
      BY <2>2, <2>3 DEF BackupInv, HistoryInv, Importing, Place
    <3>2. CASE importer.u \notin us
      BY <1>0, <1>1, <1>3, <3>1, <3>2 DEF PartsFit, Has
    <3>3. CASE importer.u \in us
      <4>1. ~Has(importer.u)' /\ Has(importer.u)
        BY <1>1, <1>3, <3>1, <3>3 DEF Has
      <4>2. ASSUME importer.u \in files', importer.u \notin excused'
            PROVE  importer.done < importer.clip.n
        <5>1. /\ importer.u \in files /\ importer.clip.content \in Images
              /\ importer.u \notin excused
              /\ rows[importer.u].content \in Images /\ rows[importer.u].parts # 1
          BY <1>0, <1>1, <3>1, <3>3, <4>1, <4>2 DEF PartsFit
        <5>2. ~rows[importer.u].expired
          BY <3>1, <4>1, <5>1 DEF PartsFit
        <5>3. /\ rows[importer.u].n = 1 /\ rows[importer.u].parts <= 1
              /\ rows[importer.u].parts \in 0 .. FormatCount
          BY <3>1, <4>1, <5>1, <5>2, Fields, BackupBounds DEF BackupInv, HistoryInv, RowsFit
        <5>4. rows[importer.u].parts = importer.done /\ importer.clip.n = rows[importer.u].n
          BY <3>1, <4>1, <5>1, <5>2 DEF PartsFit
        <5> QED
          BY <5>1, <5>3, <5>4, BackupBounds
      <4> QED
        BY <1>0, <1>1, <3>1, <4>1, <4>2 DEF PartsFit
    <3> QED
      BY <3>2, <3>3
  <2>4. ASSUME importer # Idle, importer.pc \in {"insert", "commit"}, importer.u # 0
        PROVE  /\ ~Has(importer.u)' /\ importer'.u \notin excused'
               /\ importer'.u \in files' <=> OwnsFile'
    BY <1>0, <1>1, <1>3, <2>2, <2>4 DEF BackupInv, HistoryInv, Importing, OwnsFile, Has
  <2> QED
    BY <1>1, <2>1, <2>3, <2>4 DEF Importing
<1>9. NothingHalfImported'
  <2>1. ASSUME NEW u \in us \ excused', ~InFlight(u) PROVE u \notin files'
    <3>1. /\ Has(u) /\ (rows[u].expired \/ rows[u].parts = rows[u].n)
          /\ u \in files <=> rows[u].content \in Images /\ ~rows[u].expired
      BY <1>0, <1>1, <2>1 DEF BackupInv, HistoryInv, NothingHalfImported
    <3>2. u \in files => rows[u].n = 1 /\ rows[u].parts = 1
      BY <1>1, <2>1, <3>1 DEF BackupInv, HistoryInv, RowsFit
    <3> QED
      BY <1>0, <1>1, <2>1, <3>1, <3>2
  <2>2. ASSUME NEW u \in Uuids \ excused', ~InFlight(u), u \notin us
        PROVE  /\ rows'[u] # Gone => rows'[u].expired \/ rows'[u].parts = rows'[u].n
               /\ u \in files' <=> /\ rows'[u] # Gone
                                   /\ rows'[u].content \in Images /\ ~rows'[u].expired
    BY <1>0, <1>3, <2>2 DEF BackupInv, HistoryInv, NothingHalfImported, Has
  <2> QED
    BY <1>0, <1>1, <1>3, <2>1, <2>2 DEF NothingHalfImported, InFlight, Has
<1>10. Restored'
  <2>1. ASSUME importer # Idle, NEW c, Stored(c)
        PROVE  \/ [content |-> c.content, n |-> c.n] \in removed'
               \/ \E u \in Uuids : /\ rows'[u] # Gone
                                   /\ rows'[u].content = c.content /\ rows'[u].n = c.n
    <3>1. PICK u \in Uuids : Has(u) /\ rows[u].content = c.content /\ rows[u].n = c.n
      BY <2>1 DEF Stored
    <3>2. CASE u \in us
      BY <1>5, <2>1, <3>1, <3>2
    <3>3. CASE u \notin us
      BY <1>3, <3>1, <3>3 DEF Has
    <3> QED
      BY <3>2, <3>3
  <2>2. importer # Idle =>
            \A c : Stored(c) => Stored(c)' \/ [content |-> c.content, n |-> c.n] \in removed'
    BY <2>1 DEF Stored, Has
  <2> QED
    BY <1>1, <1>5, <2>2 DEF BackupInv, HistoryInv, Restored
<1>11. UnseenNoted'
  BY <1>0, <1>1, <1>3, Fields DEF BackupInv, HistoryInv, UnseenNoted, Has
<1>12. ExportInv'
  <2>1. ASSUME NEW u \in Uuids, Has(u), u \notin us
        PROVE  rows'[u] # Gone /\ rows'[u] = rows[u] /\ rows'[u].parts >= rows[u].parts
    BY <1>3, <2>1, Fields, BackupBounds DEF BackupInv, Has
  <2> QED
    BY <1>1, <1>2, <1>4, <1>6, <2>1, ExportGoesOn DEF BackupInv, Has
<1> QED
  BY <1>1, <1>6, <1>7, <1>8, <1>9, <1>10, <1>11, <1>12 DEF BackupInv, HistoryInv, Granted

\* A text is edited: its row is a plain text from now on.
LEMMA EditStep ==
    ASSUME BackupInv, NEW w \in Uuids, NEW content \in Texts, Edit(w, content)
    PROVE  BackupInv'
<1>1. /\ Has(w) /\ rows[w].content \in Texts
      /\ Overtakes({w}) /\ Removes({w})
      /\ excused' = IF importer # Idle /\ importer.u = w THEN excused \cup {w} ELSE excused
      /\ UNCHANGED <<files, used, folder, unseen, disk, grants, exporter, importer, lost,
                     leftover, unspent>>
  BY DEF Edit
<1>2. count' \in CountType
  BY Counted DEF BackupInv, Edit, Command
<1>3. /\ rows' \in [Uuids -> Row \cup {Gone}] /\ rows'[w] # Gone
      /\ rows'[w].content = content /\ rows'[w].n = 0 /\ rows'[w].parts = 0
      /\ rows'[w].expired = rows[w].expired
      /\ \A u \in Uuids : u # w => rows'[u] = rows[u]
  <2> DEFINE row == [rows[w] EXCEPT !.content = content, !.n = 0, !.parts = 0]
  <2>1. rows' = [rows EXCEPT ![w] = row]
    BY <1>1, Fields DEF BackupInv, Edit
  <2>2. /\ row \in Row /\ row.content = content /\ row.n = 0 /\ row.parts = 0
        /\ row.expired = rows[w].expired
    <3>1. rows[w] \in Row /\ 0 \in 0 .. FormatCount /\ content \in Contents
      BY <1>1, Fields, BackupBounds DEF BackupInv, Contents
    <3> QED
      BY <3>1 DEF Row
  <2> HIDE DEF row
  <2> QED
    BY <2>1, <2>2, Fields, NoneIdle DEF BackupInv
<1>4. /\ content \notin Images /\ rows[w].content \notin Images
      /\ 0 <= Parts(content) /\ ~rows[w].expired /\ ~rows'[w].expired
  <2>1. content \notin Images /\ rows[w].content \notin Images
    BY <1>1, BackupBounds
  <2> QED
    BY <1>1, <1>3, <2>1, BackupBounds DEF BackupInv, HistoryInv, RowsFit
<1>5. /\ overtaken' \subseteq Uuids
      /\ exporter # Idle => overtaken \subseteq overtaken' /\ w \in overtaken'
  BY <1>1, Fields DEF BackupInv, Overtakes
<1>6. /\ removed' \subseteq [content : Contents, n : 0 .. FormatCount]
      /\ importer # Idle =>
            /\ removed \subseteq removed'
            /\ [content |-> rows[w].content, n |-> rows[w].n] \in removed'
  BY <1>1, Noted
<1>7. TypeOK'
  BY <1>1, <1>2, <1>3, <1>5, <1>6 DEF BackupInv, TypeOK, disk
<1>8. RowsFit'
  <2>1. ASSUME NEW u \in Uuids, rows'[u] # Gone
        PROVE  /\ u <= used
               /\ rows'[u].n <= Parts(rows'[u].content)
               /\ rows'[u].parts <= Parts(rows'[u].content)
               /\ rows'[u].expired => rows'[u].content \in Images /\ rows'[u].parts = 0
               /\ rows'[u].content \in Images /\ ~rows'[u].expired => rows'[u].n = 1
    <3>1. CASE u = w
      BY <1>1, <1>3, <1>4, <3>1 DEF BackupInv, HistoryInv, RowsFit
    <3>2. CASE u # w
      BY <1>3, <2>1, <3>2 DEF BackupInv, HistoryInv, RowsFit, Has
    <3> QED
      BY <3>1, <3>2
  <2>2. w \in 1 .. used
    BY <1>1, Fields, BackupBounds DEF BackupInv, HistoryInv, RowsFit, Uuids
  <2> QED
    BY <1>1, <2>1, <2>2 DEF BackupInv, HistoryInv, RowsFit, Has
<1>9. Importing'
  <2>1. ASSUME importer # Idle PROVE Place(importer)'
    BY <1>1, <2>1 DEF BackupInv, HistoryInv, Importing, Place
  <2>2. importer # Idle /\ importer.u # 0 => importer.u \in Uuids
    BY Fields, BackupBounds DEF BackupInv, Uuids
  <2>3. ASSUME importer # Idle, importer.pc = "parts" PROVE PartsFit(importer)'
    <3>1. importer.u \in Uuids /\ PartsFit(importer) /\ importer.done \in 0 .. FormatCount
      BY <2>2, <2>3, Fields DEF BackupInv, HistoryInv, Importing, Place
    <3>2. CASE importer.u # w
      BY <1>1, <1>3, <3>1, <3>2 DEF PartsFit, Has
    <3>3. CASE importer.u = w
      <4>1. importer.clip.content \notin Images /\ 0 <= importer.done
        BY <1>1, <1>4, <3>1, <3>3, BackupBounds DEF PartsFit
      <4> QED
        BY <1>1, <1>3, <1>4, <2>3, <3>1, <3>3, <4>1 DEF PartsFit, Has
    <3> QED
      BY <3>2, <3>3
  <2>4. ASSUME importer # Idle, importer.pc \in {"insert", "commit"}, importer.u # 0
        PROVE  /\ ~Has(importer.u)' /\ importer'.u \notin excused'
               /\ importer'.u \in files' <=> OwnsFile'
    BY <1>1, <1>3, <2>2, <2>4 DEF BackupInv, HistoryInv, Importing, OwnsFile, Has
  <2> QED
    BY <1>1, <2>1, <2>3, <2>4 DEF Importing
<1>10. NothingHalfImported'
  <2>1. ASSUME NEW u \in Uuids \ excused, ~InFlight(u)
        PROVE  /\ rows'[u] # Gone => rows'[u].expired \/ rows'[u].parts = rows'[u].n
               /\ u \in files <=> /\ rows'[u] # Gone
                                  /\ rows'[u].content \in Images /\ ~rows'[u].expired
    <3>1. CASE u = w
      BY <1>1, <1>3, <1>4, <2>1, <3>1 DEF BackupInv, HistoryInv, NothingHalfImported
    <3>2. CASE u # w
      BY <1>3, <2>1, <3>2 DEF BackupInv, HistoryInv, NothingHalfImported, Has
    <3> QED
      BY <3>1, <3>2
  <2> QED
    BY <1>1, <2>1 DEF NothingHalfImported, InFlight, Has
<1>11. Restored'
  <2>1. ASSUME importer # Idle, NEW c, Stored(c)
        PROVE  \/ [content |-> c.content, n |-> c.n] \in removed'
               \/ \E u \in Uuids : /\ rows'[u] # Gone
                                   /\ rows'[u].content = c.content /\ rows'[u].n = c.n
    <3>1. PICK u \in Uuids : Has(u) /\ rows[u].content = c.content /\ rows[u].n = c.n
      BY <2>1 DEF Stored
    <3>2. CASE u = w
      BY <1>6, <2>1, <3>1, <3>2
    <3>3. CASE u # w
      BY <1>3, <3>1, <3>3 DEF Has
    <3> QED
      BY <3>2, <3>3
  <2>2. importer # Idle =>
            \A c : Stored(c) => Stored(c)' \/ [content |-> c.content, n |-> c.n] \in removed'
    BY <2>1 DEF Stored, Has
  <2> QED
    BY <1>1, <1>6, <2>2 DEF BackupInv, HistoryInv, Restored
<1>12. UnseenNoted'
  BY <1>1, <1>3, Fields DEF BackupInv, HistoryInv, UnseenNoted, Has
<1>13. ExportInv'
  <2>1. ASSUME NEW u \in Uuids, Has(u), u # w
        PROVE  rows'[u] # Gone /\ rows'[u] = rows[u] /\ rows'[u].parts >= rows[u].parts
    BY <1>3, <2>1, Fields, BackupBounds DEF BackupInv, Has
  <2> QED
    BY <1>1, <1>2, <1>5, <1>7, <2>1, ExportGoesOn DEF BackupInv, Has
<1> QED
  BY <1>1, <1>7, <1>8, <1>9, <1>10, <1>11, <1>12, <1>13 DEF BackupInv, HistoryInv, Granted

\* The original of an image goes, with its file (apply_retention).
LEMMA ExpireStep ==
    ASSUME BackupInv, NEW w \in Uuids, Expire(w)
    PROVE  BackupInv'
<1>1. /\ Has(w) /\ rows[w].content \in Images /\ rows[w].parts = 1
      /\ Unlink({w}) /\ Overtakes({w})
      /\ UNCHANGED <<used, folder, unseen, disk, grants, exporter, importer, removed,
                     lost, leftover, unspent>>
  BY DEF Expire
<1>0. /\ files' \subseteq files /\ excused \subseteq excused'
      /\ files' \subseteq Uuids /\ excused' \subseteq Uuids
      /\ files' \cup excused' \subseteq 1 .. used
      /\ w \in files' => w \in excused'
      /\ \A u : u # w => /\ u \in files' <=> u \in files
                         /\ u \in excused' <=> u \in excused
  BY <1>1, OneUnlinked
<1>2. count' \in CountType
  BY Counted DEF BackupInv, Expire, Command
<1>3. /\ rows' \in [Uuids -> Row \cup {Gone}] /\ rows'[w] # Gone
      /\ rows'[w].content = rows[w].content /\ rows'[w].n = rows[w].n /\ rows'[w].parts = 0
      /\ rows'[w].expired = TRUE
      /\ \A u \in Uuids : u # w => rows'[u] = rows[u]
  <2> DEFINE row == [rows[w] EXCEPT !.parts = 0, !.expired = TRUE]
  <2>1. rows' = [rows EXCEPT ![w] = row]
    BY <1>1, Fields DEF BackupInv, Expire
  <2>2. /\ row \in Row /\ row.content = rows[w].content /\ row.n = rows[w].n /\ row.parts = 0
        /\ row.expired = TRUE
    <3>1. rows[w] \in Row /\ 0 \in 0 .. FormatCount
      BY <1>1, Fields, BackupBounds DEF BackupInv
    <3> QED
      BY <3>1 DEF Row
  <2> HIDE DEF row
  <2> QED
    BY <2>1, <2>2, Fields, NoneIdle DEF BackupInv
<1>4. ~rows[w].expired /\ rows[w].n = 1 /\ Parts(rows[w].content) = 1
  BY <1>1, BackupBounds DEF BackupInv, HistoryInv, RowsFit
<1>5. /\ overtaken' \subseteq Uuids
      /\ exporter # Idle => overtaken \subseteq overtaken' /\ w \in overtaken'
  BY <1>1, Fields DEF BackupInv, Overtakes
<1>6. TypeOK'
  BY <1>0, <1>1, <1>2, <1>3, <1>5 DEF BackupInv, TypeOK, disk
<1>7. RowsFit'
  <2>1. ASSUME NEW u \in Uuids, rows'[u] # Gone
        PROVE  /\ u <= used
               /\ rows'[u].n <= Parts(rows'[u].content)
               /\ rows'[u].parts <= Parts(rows'[u].content)
               /\ rows'[u].expired => rows'[u].content \in Images /\ rows'[u].parts = 0
               /\ rows'[u].content \in Images /\ ~rows'[u].expired => rows'[u].n = 1
    <3>1. CASE u = w
      BY <1>1, <1>3, <1>4, <3>1 DEF BackupInv, HistoryInv, RowsFit
    <3>2. CASE u # w
      BY <1>3, <2>1, <3>2 DEF BackupInv, HistoryInv, RowsFit, Has
    <3> QED
      BY <3>1, <3>2
  <2> QED
    BY <1>0, <1>1, <2>1 DEF BackupInv, HistoryInv, RowsFit, Has
<1>8. Importing'
  <2>1. ASSUME importer # Idle PROVE Place(importer)'
    BY <1>1, <2>1 DEF BackupInv, HistoryInv, Importing, Place
  <2>2. importer # Idle /\ importer.u # 0 => importer.u \in Uuids
    BY Fields, BackupBounds DEF BackupInv, Uuids
  <2>3. ASSUME importer # Idle, importer.pc = "parts" PROVE PartsFit(importer)'
    <3>1. /\ importer.u \in Uuids /\ PartsFit(importer) /\ Place(importer)
          /\ importer.done \in 0 .. FormatCount
          /\ importer.clip \in BundleClip
      BY <2>2, <2>3, Fields DEF BackupInv, HistoryInv, Importing, Place
    <3>2. CASE importer.u # w
      BY <1>0, <1>1, <1>3, <3>1, <3>2 DEF PartsFit, Has
    <3>3. CASE importer.u = w
      <4>1. importer.clip.content \in Images /\ 1 <= importer.done
        BY <1>1, <3>1, <3>3 DEF PartsFit
      <4>2. /\ importer.done <= importer.clip.n /\ importer.clip.n <= 1
            /\ importer.clip.n \in 0 .. FormatCount
        BY <1>1, <2>3, <3>1, <4>1, BackupBounds DEF Place
      <4>3. importer.done = 1 /\ importer.clip.n = 1
        BY <3>1, <4>1, <4>2, BackupBounds
      <4>4. /\ Has(w)' /\ w \notin excused' => w \notin excused /\ w \notin files'
            /\ 0 <= importer.done
        BY <1>0, <1>3, <4>3 DEF Has
      <4> QED
        BY <1>0, <1>1, <1>3, <1>4, <3>1, <3>3, <4>1, <4>3, <4>4 DEF PartsFit, Has
    <3> QED
      BY <3>2, <3>3
  <2>4. ASSUME importer # Idle, importer.pc \in {"insert", "commit"}, importer.u # 0
        PROVE  /\ ~Has(importer.u)' /\ importer'.u \notin excused'
               /\ importer'.u \in files' <=> OwnsFile'
    BY <1>0, <1>1, <1>3, <2>2, <2>4 DEF BackupInv, HistoryInv, Importing, OwnsFile, Has
  <2> QED
    BY <1>1, <2>1, <2>3, <2>4 DEF Importing
<1>9. NothingHalfImported'
  <2>1. ASSUME NEW u \in Uuids \ excused', ~InFlight(u)
        PROVE  /\ rows'[u] # Gone => rows'[u].expired \/ rows'[u].parts = rows'[u].n
               /\ u \in files' <=> /\ rows'[u] # Gone
                                   /\ rows'[u].content \in Images /\ ~rows'[u].expired
    <3>1. CASE u = w
      BY <1>0, <1>1, <1>3, <2>1, <3>1
    <3>2. CASE u # w
      BY <1>0, <1>1, <1>3, <2>1, <3>2 DEF BackupInv, HistoryInv, NothingHalfImported, Has
    <3> QED
      BY <3>1, <3>2
  <2> QED
    BY <1>0, <1>1, <2>1 DEF NothingHalfImported, InFlight, Has
<1>10. Restored'
  <2>1. ASSUME NEW c, Stored(c)
        PROVE  \E u \in Uuids : /\ rows'[u] # Gone
                                /\ rows'[u].content = c.content /\ rows'[u].n = c.n
    <3>1. PICK u \in Uuids : Has(u) /\ rows[u].content = c.content /\ rows[u].n = c.n
      BY <2>1 DEF Stored
    <3> QED
      BY <1>3, <3>1 DEF Has
  <2>2. \A c : Stored(c) => Stored(c)'
    BY <2>1 DEF Stored, Has
  <2> QED
    BY <1>1, <2>2 DEF BackupInv, HistoryInv, Restored
<1>11. UnseenNoted'
  BY <1>0, <1>1, <1>3, Fields DEF BackupInv, HistoryInv, UnseenNoted, Has
<1>12. ExportInv'
  <2>1. ASSUME NEW u \in Uuids, Has(u), u # w
        PROVE  rows'[u] # Gone /\ rows'[u] = rows[u] /\ rows'[u].parts >= rows[u].parts
    BY <1>3, <2>1, Fields, BackupBounds DEF BackupInv, Has
  <2> QED
    BY <1>1, <1>2, <1>5, <1>6, <2>1, ExportGoesOn DEF BackupInv, Has
<1> QED
  BY <1>1, <1>6, <1>7, <1>8, <1>9, <1>10, <1>11, <1>12 DEF BackupInv, HistoryInv, Granted

\* The clips leave their folder before it goes (delete_folder).
LEMMA DeleteFolderStep ==
    ASSUME BackupInv, DeleteFolder
    PROVE  BackupInv'
<1>1. /\ folder' = FALSE
      /\ rows' = [u \in Uuids |-> IF Has(u) THEN [rows[u] EXCEPT !.folder = FALSE] ELSE Gone]
      /\ UNCHANGED <<files, used, unseen, disk, grants, exporter, importer, history>>
  BY DEF DeleteFolder
<1>2. count' \in CountType
  BY Counted DEF BackupInv, DeleteFolder, Command
<1>3. ASSUME NEW u \in Uuids
      PROVE  /\ rows'[u] \in Row \cup {Gone} /\ (Has(u) <=> rows'[u] # Gone)
             /\ Has(u) => /\ rows'[u].content = rows[u].content /\ rows'[u].n = rows[u].n
                          /\ rows'[u].parts = rows[u].parts
                          /\ rows'[u].expired = rows[u].expired
                          /\ rows'[u].parts >= rows[u].parts
  <2>1. CASE Has(u)
    <3> DEFINE row == [rows[u] EXCEPT !.folder = FALSE]
    <3>1. rows[u] \in Row /\ rows[u].parts \in 0 .. FormatCount
      BY <2>1, Fields DEF BackupInv
    <3>2. /\ row \in Row /\ row.content = rows[u].content /\ row.n = rows[u].n
          /\ row.parts = rows[u].parts /\ row.expired = rows[u].expired
      BY <3>1 DEF Row
    <3>3. rows'[u] = row
      BY <1>1, <2>1
    <3> HIDE DEF row
    <3> QED
      BY <2>1, <3>1, <3>2, <3>3, NoneIdle, BackupBounds
  <2>2. CASE ~Has(u)
    BY <1>1, <2>2
  <2> QED
    BY <2>1, <2>2
<1>4. rows' \in [Uuids -> Row \cup {Gone}]
  <2>1. rows' = [u \in Uuids |-> rows'[u]]
    BY <1>1
  <2> QED
    BY <1>3, <2>1
<1>5. TypeOK'
  BY <1>1, <1>2, <1>4 DEF BackupInv, TypeOK, disk, history
<1>6. RowsFit'
  BY <1>1, <1>3 DEF BackupInv, HistoryInv, RowsFit, Has, history
<1>7. Importing'
  <2>1. ASSUME importer # Idle PROVE Place(importer)'
    BY <1>1, <2>1 DEF BackupInv, HistoryInv, Importing, Place
  <2>2. importer # Idle /\ importer.u # 0 => importer.u \in Uuids
    BY Fields, BackupBounds DEF BackupInv, Uuids
  <2>3. ASSUME importer # Idle, importer.pc = "parts" PROVE PartsFit(importer)'
    <3>1. importer.u \in Uuids /\ PartsFit(importer)
      BY <2>2, <2>3 DEF BackupInv, HistoryInv, Importing, Place
    <3> QED
      BY <1>1, <1>3, <3>1 DEF PartsFit, Has, history
  <2>4. ASSUME importer # Idle, importer.pc \in {"insert", "commit"}, importer.u # 0
        PROVE  /\ ~Has(importer.u)' /\ importer'.u \notin excused'
               /\ importer'.u \in files' <=> OwnsFile'
    BY <1>1, <1>3, <2>2, <2>4 DEF BackupInv, HistoryInv, Importing, OwnsFile, Has, history
  <2> QED
    BY <1>1, <2>1, <2>3, <2>4 DEF Importing
<1>8. NothingHalfImported'
  BY <1>1, <1>3 DEF BackupInv, HistoryInv, NothingHalfImported, InFlight, Has, history
<1>9. Restored'
  <2>1. ASSUME NEW c, Stored(c)
        PROVE  \E u \in Uuids : /\ rows'[u] # Gone
                                /\ rows'[u].content = c.content /\ rows'[u].n = c.n
    BY <1>3, <2>1 DEF Stored
  <2>2. \A c : Stored(c) => Stored(c)'
    BY <2>1 DEF Stored, Has
  <2> QED
    BY <1>1, <2>2 DEF BackupInv, HistoryInv, Restored, history
<1>10. UnseenNoted'
  BY <1>1, <1>3, Fields DEF BackupInv, HistoryInv, UnseenNoted, Has, history
<1>11. ExportInv'
  BY <1>1, <1>2, <1>3, <1>5, ExportGoesOn DEF BackupInv, Has, history
<1> QED
  BY <1>1, <1>5, <1>6, <1>7, <1>8, <1>9, <1>10, <1>11 DEF BackupInv, HistoryInv, Granted, history

\* The application ends and starts again.
LEMMA CrashStep ==
    ASSUME BackupInv, Crash
    PROVE  BackupInv'
<1>1. /\ exporter' = Idle /\ importer' = Idle
      /\ excused' = IF importer # Idle /\ importer.u # 0 THEN excused \cup {importer.u} ELSE excused
      /\ lost' = (lost \/ bundle = None) /\ leftover' = (leftover \/ temp)
      /\ unseen' = {}
      /\ grants' = [p \in Purposes |-> "none"] /\ unspent' = {}
      /\ UNCHANGED <<database, disk, overtaken, removed>>
  BY DEF Crash
<1>2. count' \in CountType
  BY Counted DEF BackupInv, Crash
<1>3. importer # Idle /\ importer.u # 0 => importer.u \in Uuids /\ importer.u \in 1 .. used
  BY Fields, BackupBounds DEF BackupInv, HistoryInv, Importing, Place, Uuids
<1>4. TypeOK'
  BY <1>1, <1>2, <1>3 DEF BackupInv, TypeOK, database, disk
<1>5. RowsFit'
  BY <1>1, <1>3 DEF BackupInv, HistoryInv, RowsFit, Has, database
<1>6. NothingHalfImported'
  BY <1>1 DEF BackupInv, HistoryInv, NothingHalfImported, InFlight, Has, database, Uuids
<1>7. Importing' /\ Restored' /\ UnseenNoted' /\ Granted'
  BY <1>1 DEF Importing, Restored, UnseenNoted, Granted
<1>8. ExportInv'
  BY <1>1, <1>2, NoneIdle, NoExport DEF disk
<1> QED
  BY <1>4, <1>5, <1>6, <1>7, <1>8 DEF BackupInv, HistoryInv

----------------------------------------------------------------------------
(* The invariant, and what follows from it.                                *)

\* A history to begin with: as many uuids are given out as there are rows.
LEMMA BackupInit == Init => BackupInv
<1> SUFFICES ASSUME Init PROVE BackupInv
  OBVIOUS
<1>1. PICK k \in 0 .. MaxRows : \A u \in Uuids : Has(u) <=> u <= k
  BY InputAssumption DEF Init, Has
<1>2. used = k
  <2>1. { u \in Uuids : Has(u) } = 1 .. k
    BY <1>1, BackupBounds DEF Uuids
  <2>2. Cardinality(1 .. k) = k
    BY BackupBounds, FS_Interval
  <2> QED
    BY <2>1, <2>2 DEF Init
<1>3. /\ rows \in [Uuids -> Row \cup {Gone}]
      /\ \A u \in Uuids : Has(u) => WholeRow(rows[u]) /\ rows[u] \in Row
  BY InputAssumption DEF Init, Has
<1>4. /\ bundle = None \/ bundle \in SUBSET BundleClip
      /\ lost = (bundle = None) /\ leftover = FALSE
  BY InputAssumption DEF Init
<1>5. count \in CountType
  BY BackupBounds DEF Init, CountType
<1>6. TypeOK
  BY <1>2, <1>3, <1>4, <1>5 DEF Init, TypeOK
<1>7. /\ importer = Idle /\ exporter = Idle /\ unseen = {} /\ excused = {} /\ temp = FALSE
      /\ grants = [p \in Purposes |-> "none"]
      /\ files = { u \in Uuids : Has(u) /\ rows[u].content \in Images /\ rows[u].parts = 1 }
  BY DEF Init
<1>8. ASSUME NEW u \in Uuids, Has(u)
      PROVE  /\ u <= used /\ u \in 1 .. used
             /\ rows[u].n <= Parts(rows[u].content) /\ rows[u].parts <= Parts(rows[u].content)
             /\ rows[u].expired => rows[u].content \in Images /\ rows[u].parts = 0
             /\ rows[u].content \in Images /\ ~rows[u].expired => rows[u].n = 1
             /\ rows[u].expired \/ rows[u].parts = rows[u].n
  <2>1. u <= used /\ u \in 1 .. used
    BY <1>1, <1>2, <1>8, BackupBounds DEF Uuids
  <2>2. WholeRow(rows[u]) /\ rows[u].parts \in 0 .. FormatCount /\ rows[u].n \in 0 .. FormatCount
    BY <1>3, <1>6, <1>8, Fields
  <2>3. 0 <= Parts(rows[u].content)
    BY BackupBounds
  <2> QED
    BY <2>1, <2>2, <2>3 DEF WholeRow
<1>9. RowsFit
  BY <1>7, <1>8 DEF RowsFit
<1>10. NothingHalfImported
  BY <1>7, <1>8 DEF NothingHalfImported
<1>11. Importing /\ Restored /\ UnseenNoted /\ Granted
  BY <1>7 DEF Importing, Restored, UnseenNoted, Granted
<1>12. ExportInv
  BY <1>4, <1>7, NoneIdle DEF ExportInv, SeenStands, Exported, BundleStays
<1> QED
  BY <1>6, <1>9, <1>10, <1>11, <1>12 DEF BackupInv, HistoryInv

\* A step that changes nothing.
LEMMA BackupStutter == ASSUME BackupInv, UNCHANGED vars PROVE BackupInv'
<1>1. TypeOK' /\ Granted'
  BY DEF BackupInv, TypeOK, Granted, vars
<1>2. HistoryInv'
  BY HistoryStays DEF BackupInv, vars
<1>3. ExportInv'
  BY <1>1, Aside DEF vars, disk
<1> QED
  BY <1>1, <1>2, <1>3 DEF BackupInv

\* Every step keeps the invariant.
LEMMA BackupNext == ASSUME BackupInv, [Next]_vars PROVE BackupInv'
<1>1. CASE (\E p \in Purposes : Pick(p) \/ Clock(p) \/ RefusedRequest(p)) \/ CloseSettings
  BY <1>1, GrantStep
<1>2. CASE Export
  BY <1>2, StartExportStep, ReadRowsStep, ExportClipStep, WriteBundleStep, InstallBundleStep,
     RecoverBundleStep
  DEF Export
<1>3. CASE ImportStep
  BY <1>3, StartImportStep, CheckClipStep, PrepareClipStep, InsertRowStep, StorePartStep,
     RollBackStep, EndImportStep, DittoClipStep, CommitDittoStep
  DEF ImportStep
<1>4. CASE \E content \in Contents : Capture(content)
  BY <1>4, CaptureStep
<1>5. CASE \E us \in SUBSET Uuids : Delete(us)
  BY <1>5, DeleteStep
<1>6. CASE \E u \in Uuids, content \in Texts : Edit(u, content)
  BY <1>6, EditStep
<1>7. CASE \E u \in Uuids : Expire(u)
  BY <1>7, ExpireStep
<1>8. CASE DeleteFolder \/ Crash
  BY <1>8, DeleteFolderStep, CrashStep
<1>9. CASE UNCHANGED vars
  BY <1>9, BackupStutter
<1> QED
  BY <1>1, <1>2, <1>3, <1>4, <1>5, <1>6, <1>7, <1>8, <1>9 DEF Next

\* The inductive invariant of the history, its imports and its exports holds throughout.
THEOREM BackupInvariance == Spec => []BackupInv
BY BackupInit, BackupNext, PTL DEF Spec

\* A bundle that is installed holds every clip that was read, with what it had, but for
\* those overtaken meanwhile (export_backup).
THEOREM ExportsAreComplete == Spec => []ExportIsComplete
<1>1. BackupInv => ExportIsComplete
  BY DEF BackupInv, ExportInv, Exported, ExportIsComplete
<1> QED
  BY <1>1, BackupInvariance, PTL

\* An import that is over has done all of what it says, and nothing by halves
\* (import_backup, import_from_ditto).
THEOREM NothingByHalves == Spec => []ImportsAreWhole
<1>1. ASSUME BackupInv PROVE RestoreBringsBack
  <2>1. ASSUME importer.pc = "check" PROVE importer # Idle
    BY <2>1, NoneIdle
  <2> QED
    BY <1>1, <2>1 DEF BackupInv, HistoryInv, Restored, RestoreBringsBack
<1>2. BackupInv => NothingHalfImported /\ ImportedAreFound
  BY DEF BackupInv, HistoryInv, UnseenNoted, ImportedAreFound
<1> QED
  BY <1>1, <1>2, BackupInvariance, PTL DEF ImportsAreWhole

\* The bundle stays until another is in its place, and no temp is left beside it but one
\* that a crash, or a removal that gave up, has left (persist_backup_file_with,
\* recover_dest_gone_replace).
THEOREM BundleStaysPut == Spec => []BundleKept
<1>1. BackupInv => BundleKept
  BY NoneIdle DEF BackupInv, ExportInv, BundleStays, BundleKept
<1> QED
  BY <1>1, BackupInvariance, PTL

\* Each export and each import has used up a pick of its own (PathGrantTable::authorize).
THEOREM GrantsAreSpentOnce == Spec => EveryWriteWasPicked
<1> DEFINE Picked == /\ exporter = Idle /\ exporter' # Idle => "save" \in unspent
                     /\ importer = Idle /\ importer' # Idle => importer'.from \in unspent
<1>1. ASSUME BackupInv, Next PROVE Picked
  <2>1. CASE StartExport
    BY <1>1, <2>1 DEF BackupInv, Granted, StartExport, Authorized, Purposes
  <2>2. ASSUME NEW p \in {"open", "ditto"}, NEW all, Import(p, all) PROVE Picked
    <3>1. importer'.from = p /\ UNCHANGED exporter /\ grants[p] = "fresh" /\ p \in Purposes
      BY <2>2 DEF Import, Authorized, Purposes
    <3> QED
      BY <1>1, <3>1 DEF BackupInv, Granted
  <2>3. ASSUME ~StartExport, ~StartImport, ~StartDitto
        PROVE  /\ exporter = Idle => exporter' = Idle
               /\ importer = Idle => importer' = Idle
    <3>1. CASE Export
      BY <2>3, <3>1, NoneIdle
      DEF Export, ReadRows, ExportClip, WriteBundle, InstallBundle, RecoverBundle
    <3>2. CASE ImportStep
      BY <2>3, <3>2, NoneIdle
      DEF ImportStep, CheckClip, PrepareClip, InsertRow, StorePart, RollBack, EndImport,
          DittoClip, CommitDitto
    <3>3. CASE ~Export /\ ~ImportStep
      BY <1>1, <3>3
      DEF Next, Pick, Clock, RefusedRequest, CloseSettings, Capture, Delete, Edit, Expire,
          DeleteFolder, Crash
    <3> QED
      BY <3>1, <3>2, <3>3
  <2> QED
    BY <2>1, <2>2, <2>3 DEF StartImport, StartDitto
<1>2. ASSUME BackupInv, [Next]_vars PROVE [Picked]_vars
  BY <1>1, <1>2
<1> QED
  BY <1>2, BackupInvariance, PTL DEF Spec, EveryWriteWasPicked
=============================================================================
