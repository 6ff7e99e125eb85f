------------------------ MODULE CaptureHistoryProofs ------------------------
(***************************************************************************)
(* What a clear may forget, for every set of contents, every number of     *)
(* copies, commands and failures, and any number of tries.                 *)
(***************************************************************************)
EXTENDS CaptureHistory, FiniteSetTheorems, TLAPS

AtMostOne(S) == \A x, y \in S : x = y

\* The number of the event the consumer took last.
Last == events - Len(inbox)

Typed ==
    /\ rows \subseteq Row /\ found \subseteq Uuids
    /\ marker \subseteq Capture /\ AtMostOne(marker)
    /\ forgets \subseteq Forget

\* What waits in the inbox is numbered in order.
InOrder ==
    /\ events \in 0 .. MaxEvents /\ inbox \in Seq(Event)
    /\ Len(inbox) <= events
    /\ \A i \in 1 .. Len(inbox) : inbox[i].number = Last + i

Storing == {"lookup", "write", "formats", "finish"}

\* The event at work is the one that was taken last.
Handling ==
    /\ pc \in {"lock", "gate", "clear"} \cup Storing =>
         \E e \in Event : current = {e} /\ e.number = Last
    /\ pc \in {"lock", "gate"} \cup Storing => Hash \in Contents

\* No uuid is newer than the last event, and none that a clear can take as new as that.
Past ==
    /\ \A r \in rows : r.uuid <= Last
    /\ \A u \in found : u <= Last
    /\ \A m \in marker : m.uuid <= Last /\ (pc \in {"lock", "gate", "clear"} => m.uuid < Last)
    /\ \A f \in forgets : f.capture.uuid < f.clear /\ f.clear <= Last

\* The capture is the last copy heard, and no other content counts as stored.
IsLast(capture) ==
    /\ heard.hash = {capture.hash} /\ heard.outcome \in {"stored", "duplicate"}
    /\ stable \subseteq {capture.hash}

\* The clear target is the last copy, also while the next event is handled, until that is
\* accepted.
Target ==
    /\ pc \in Storing => marker = {}
    /\ pc = "finish" => stable \subseteq {Hash}
    /\ \A m \in marker : IsLast(m)

\* The consumer waits for a forget of its own, which may put its target back.
Own ==
    /\ \A f \in forgets : f.own => pc = "forgetting" /\ IsLast(f.capture)
    /\ \A f, g \in forgets : f.own /\ g.own => f = g

IInv == Typed /\ InOrder /\ Handling /\ Past /\ Target /\ Own

----------------------------------------------------------------------------

\* The history starts empty, or with one old row.
LEMMA InitInv == Init => IInv
<1> SUFFICES ASSUME Init PROVE IInv
  OBVIOUS
<1> USE HistoryAssumption DEF Init
<1>1. /\ rows \subseteq Row /\ \A r \in rows : r.uuid = 1
      /\ events \in {0, 1} /\ (rows # {} => events = 1)
  <2>1. CASE rows = {}
    BY <2>1, FS_EmptySet
  <2>2. CASE rows # {}
    <3>1. PICK h \in Contents : rows = {[uuid |-> 1, hash |-> h, touched |-> 1,
                                 pinned |-> FALSE, deleted |-> TRUE, expired |-> FALSE]}
      BY <2>2
    <3>2. events = 1
      BY <3>1, FS_Singleton
    <3> QED
      BY <3>1, <3>2 DEF Row, Uuids
  <2> QED
    BY <2>1, <2>2
<1>2. Len(inbox) = 0 /\ inbox \in Seq(Event) /\ Last = events
  BY <1>1 DEF Last
<1>3. Typed /\ Own /\ Target
  BY <1>1 DEF Typed, Own, Target, AtMostOne, Storing
<1>4. InOrder
  BY <1>1, <1>2 DEF InOrder
<1>5. Handling /\ Past
  BY <1>1, <1>2 DEF Handling, Past, Storing
<1> QED
  BY <1>3, <1>4, <1>5 DEF IInv

\* What the event at work is called.
LEMMA AtWork ==
    ASSUME IInv, pc \in {"lock", "gate", "clear"} \cup Storing
    PROVE  Number = Last /\ Number \in Uuids /\ Last \in Nat
<1>1. PICK e \in Event : current = {e} /\ e.number = Last
  BY DEF IInv, Handling
<1>2. Number = e.number
  BY <1>1 DEF Number
<1>3. e.number \in Uuids
  BY DEF Event, Uuids
<1> QED
  BY <1>1, <1>2, <1>3 DEF Uuids

\* A step of a capture.
LEMMA CaptureStep ==
    ASSUME IInv, pc \in {"lock", "gate"} \cup Storing,
           UNCHANGED <<events, inbox, forgets>>,
           rows' \subseteq Row, \A r \in rows' : r.uuid <= Last,
           found' \subseteq Uuids, \A u \in found' : u <= Last,
           marker' \subseteq Capture, AtMostOne(marker'), \A m \in marker' : m.uuid <= Last,
           \/ pc' = "idle"
           \/ pc' = "gate" /\ pc = "lock" /\ marker' = marker /\ current' = current
           \/ pc' \in Storing /\ current' = current,
           Target'
    PROVE  IInv'
<1>1. Last' = Last
  BY DEF Last
<1>2. Typed'
  BY DEF IInv, Typed
<1>3. InOrder'
  BY DEF IInv, InOrder, Last
<1>4. Handling'
  BY <1>1 DEF IInv, Handling, Storing, Hash
<1>5. Past'
  BY <1>1 DEF IInv, Past, Storing
<1>6. Own'
  BY DEF IInv, Own, Storing
<1> QED
  BY <1>2, <1>3, <1>4, <1>5, <1>6 DEF IInv

\* An event arrives at the end of the inbox.
LEMMA ArriveInv ==
    ASSUME IInv, NEW e \in Event, e.number = events + 1, Arrive(e)
    PROVE  IInv'
<1> USE DEF Arrive
<1>1. /\ Len(inbox) \in Nat /\ Len(inbox') = Len(inbox) + 1 /\ inbox' \in Seq(Event)
      /\ \A i \in 1 .. Len(inbox) : inbox'[i] = inbox[i]
      /\ inbox'[Len(inbox) + 1] = e
  BY DEF IInv, InOrder
<1>2. Last' = Last /\ Last \in Nat
  BY <1>1 DEF IInv, InOrder, Last
<1>3. InOrder'
  BY <1>1, <1>2, HistoryAssumption DEF IInv, InOrder, Last
<1>4. Typed' /\ Target' /\ Own'
  BY DEF IInv, Typed, Target, Own, IsLast, Hash
<1>5. Handling' /\ Past'
  BY <1>2 DEF IInv, Handling, Past, Hash
<1> QED
  BY <1>3, <1>4, <1>5 DEF IInv

\* Time passes: what is waited for only gets older.
LEMMA TickInv == ASSUME IInv, Tick PROVE IInv'
<1> USE DEF Tick
<1> DEFINE Aged(m) == [m EXCEPT !.age = Older(@)]
           AgedForget(f) == [f EXCEPT !.capture.age = Older(@)]
<1>1. \A m \in Capture : /\ Aged(m) \in Capture
                        /\ Aged(m).uuid = m.uuid /\ Aged(m).hash = m.hash
  BY HistoryAssumption DEF Capture, Older
<1>2. \A f \in Forget : /\ AgedForget(f) \in Forget /\ AgedForget(f).clear = f.clear
                       /\ AgedForget(f).own = f.own
                       /\ AgedForget(f).capture.uuid = f.capture.uuid
                       /\ AgedForget(f).capture.hash = f.capture.hash
  BY HistoryAssumption DEF Forget, Capture, Older
<1>3. Last' = Last
  BY DEF Last
<1>4. \A m \in marker' : \E k \in marker : m \in Capture /\ m.uuid = k.uuid /\ m.hash = k.hash
                         /\ m = Aged(k)
  <2>1. marker' = { Aged(m) : m \in marker }
    OBVIOUS
  <2> HIDE DEF Aged
  <2> QED
    BY <1>1, <2>1 DEF IInv, Typed
<1>5. \A f \in forgets' : \E g \in forgets :
         /\ f = AgedForget(g)
         /\ f \in Forget /\ f.clear = g.clear /\ f.own = g.own
         /\ f.capture.uuid = g.capture.uuid /\ f.capture.hash = g.capture.hash
  <2>1. forgets' = { AgedForget(f) : f \in forgets }
    OBVIOUS
  <2> HIDE DEF AgedForget
  <2> QED
    BY <1>2, <2>1 DEF IInv, Typed
<1> HIDE DEF Aged, AgedForget
<1>6. heard'.hash = heard.hash /\ heard'.outcome = heard.outcome
  OBVIOUS
<1>7. Typed'
  BY <1>4, <1>5 DEF IInv, Typed, AtMostOne
<1>8. InOrder' /\ Handling'
  BY <1>3 DEF IInv, InOrder, Handling, Last, Hash
<1>9. Past'
  BY <1>3, <1>4, <1>5 DEF IInv, Past
<1>10. Target'
  BY <1>4, <1>6 DEF IInv, Target, IsLast, Hash
<1>11. Own'
  BY <1>5, <1>6 DEF IInv, Own, IsLast
<1> QED
  BY <1>7, <1>8, <1>9, <1>10, <1>11 DEF IInv

\* The consumer takes an event.
LEMMA TakeInv == ASSUME IInv, Take PROVE IInv'
<1> USE DEF Take
<1>1. /\ Len(inbox) \in Nat /\ Len(inbox) > 0 /\ Len(inbox') = Len(inbox) - 1
      /\ inbox' \in Seq(Event) /\ Head(inbox) = inbox[1] /\ Head(inbox) \in Event
      /\ \A i \in 1 .. Len(inbox') : inbox'[i] = inbox[i + 1]
  BY DEF IInv, InOrder
<1>2. Last' = Last + 1 /\ Last \in Nat
  BY <1>1 DEF IInv, InOrder, Last
<1>3. InOrder'
  BY <1>1, <1>2 DEF IInv, InOrder
<1>4. Head(inbox).number = Last'
  BY <1>1, <1>2 DEF IInv, InOrder
<1>5. Typed'
  BY DEF IInv, Typed
<1>6. Handling'
  <2>1. Head(inbox).kind = "copy" => Head(inbox).hash \in Contents
    BY <1>1 DEF Event
  <2> QED
    BY <1>1, <1>4, <2>1 DEF Handling, Hash, Storing
<1>7. Past'
  <2>1. /\ \A r \in rows : r.uuid \in Nat
        /\ \A u \in found : u \in Nat
        /\ \A m \in marker : m.uuid \in Nat
        /\ \A f \in forgets : f.clear \in Nat
    BY DEF IInv, Typed, Row, Capture, Forget, Uuids
  <2> QED
    BY <1>2, <2>1 DEF IInv, Past
<1>8. Target' /\ Own'
  BY DEF IInv, Target, Own, IsLast, Storing
<1> QED
  BY <1>3, <1>5, <1>6, <1>7, <1>8 DEF IInv

\* The row of a new clip.
LEMMA NewRowFits ==
    ASSUME Number \in Uuids, Hash \in Contents
    PROVE  NewRow \in Row /\ NewRow.uuid = Number
BY DEF NewRow, Row, Uuids

\* The way of a capture.
LEMMA CaptureInv ==
    ASSUME IInv, \/ LockCapture \/ IgnoreOwnPaste \/ Skip \/ DropDuplicate \/ Accept \/ LookUp
                 \/ CaptureFails \/ Update \/ Insert \/ StoreFormats \/ FormatsFail \/ Finish
    PROVE  IInv'
<1> USE DEF NotCapture, Storing
<1>0. pc \in {"lock", "gate"} \cup Storing
  BY DEF LockCapture, IgnoreOwnPaste, Skip, DropDuplicate, Accept, LookUp, CaptureFails, Update,
     Insert, StoreFormats, FormatsFail, Finish
<1>1. /\ rows \subseteq Row /\ \A r \in rows : r.uuid <= Last
      /\ found \subseteq Uuids /\ \A u \in found : u <= Last
      /\ marker \subseteq Capture /\ AtMostOne(marker) /\ \A m \in marker : m.uuid <= Last
  BY DEF IInv, Typed, Past
<1>2. Number = Last /\ Number \in Uuids /\ Last \in Nat /\ Hash \in Contents
  BY <1>0, AtWork DEF IInv, Handling
<1>3. UNCHANGED <<events, inbox, forgets>>
  BY DEF LockCapture, IgnoreOwnPaste, Skip, DropDuplicate, Accept, LookUp, CaptureFails, Update,
     Insert, StoreFormats, FormatsFail, Finish
<1>4. UNCHANGED current => Hash' = Hash
  BY DEF Hash
<1>5. ASSUME UNCHANGED rows, found' \in {found, {}}, marker' \in {marker, {}},
             \/ pc' = "idle"
             \/ pc' = "gate" /\ pc = "lock" /\ marker' = marker /\ current' = current
             \/ pc' \in Storing /\ current' = current,
             Target'
      PROVE  IInv'
  <2>1. rows' \subseteq Row /\ (\A r \in rows' : r.uuid <= Last)
    BY <1>1, <1>5
  <2>2. found' \subseteq Uuids /\ (\A u \in found' : u <= Last)
    BY <1>1, <1>5
  <2>3. marker' \subseteq Capture /\ AtMostOne(marker') /\ (\A m \in marker' : m.uuid <= Last)
    BY <1>1, <1>5 DEF AtMostOne
  <2> QED
    BY <1>0, <1>3, <1>5, <2>1, <2>2, <2>3, CaptureStep
<1>6. CASE LockCapture
  <2>1. Target'
    BY <1>6 DEF LockCapture, IInv, Target, IsLast
  <2> QED
    BY <1>5, <1>6, <2>1 DEF LockCapture
<1>7. CASE IgnoreOwnPaste
  <2>1. Target'
    BY <1>7 DEF IgnoreOwnPaste, IInv, Target, IsLast
  <2> QED
    BY <1>5, <1>7, <2>1 DEF IgnoreOwnPaste
<1>8. CASE Skip
  <2>1. Target'
    BY <1>8 DEF Skip, Done, Target
  <2> QED
    BY <1>5, <1>8, <2>1 DEF Skip, Done
<1>9. CASE DropDuplicate
  <2>1. Target'
    <3>1. \A m \in marker : m.hash = Hash
      BY <1>9 DEF DropDuplicate, IInv, Target, IsLast
    <3>2. heard'.hash = {Hash} /\ heard'.outcome = "duplicate" /\ pc' = "idle"
      BY <1>9 DEF DropDuplicate, Done
    <3> QED
      BY <1>9, <3>1, <3>2 DEF DropDuplicate, IInv, Target, IsLast
  <2> QED
    BY <1>5, <1>9, <2>1 DEF DropDuplicate, Done
<1>10. CASE Accept
  <2>1. Target'
    BY <1>10 DEF Accept, Target
  <2> QED
    BY <1>5, <1>10, <2>1 DEF Accept
<1>11. CASE LookUp
  <2>1. Target'
    BY <1>11 DEF LookUp, IInv, Target
  <2>2. rows' = rows /\ marker' = marker /\ pc' \in Storing /\ current' = current
    BY <1>11 DEF LookUp
  <2>3. found' \subseteq Uuids /\ \A u \in found' : u <= Last
    BY <1>1, <1>11 DEF LookUp, WithHash, Row
  <2> QED
    BY <1>0, <1>1, <1>3, <2>1, <2>2, <2>3, CaptureStep
<1>12. CASE CaptureFails
  <2>1. Target'
    BY <1>12 DEF CaptureFails, Done, IInv, Target
  <2>2. marker' = marker /\ found' = {} /\ pc' = "idle"
    BY <1>12 DEF CaptureFails, Done
  <2>3. rows' \subseteq Row /\ (\A r \in rows' : r.uuid <= Last)
    BY <1>1, <1>2, <1>12, NewRowFits DEF CaptureFails
  <2>4. found' \subseteq Uuids /\ (\A u \in found' : u <= Last)
    BY <2>2
  <2> QED
    BY <1>0, <1>1, <1>3, <2>1, <2>2, <2>3, <2>4, CaptureStep
<1>13. CASE Update
  <2>1. Target'
    BY <1>13 DEF Update, Done, IInv, Target
  <2>2. CASE Done("failed") /\ UNCHANGED rows
    BY <1>5, <1>13, <2>1, <2>2 DEF Update, Done
  <2>3. CASE /\ rows' = { IF r.uuid \in found
                         THEN [r EXCEPT !.touched = Number, !.deleted = FALSE,
                                        !.expired = FALSE]
                         ELSE r : r \in rows }
             /\ pc' = "formats" /\ UNCHANGED <<current, found>>
    <3> DEFINE revived(r) == [r EXCEPT !.touched = Number, !.deleted = FALSE,
                                       !.expired = FALSE]
    <3>1. rows' \subseteq Row /\ \A r \in rows' : r.uuid <= Last
      <4>1. \A r \in Row : revived(r) \in Row /\ revived(r).uuid = r.uuid
        BY <1>2 DEF Row, Uuids
      <4>2. \A r \in rows' : \E k \in rows : r = k \/ r = revived(k)
        BY <2>3
      <4> HIDE DEF revived
      <4> QED
        BY <1>1, <4>1, <4>2
    <3>2. marker' = marker
      BY <1>13 DEF Update
    <3> QED
      BY <1>0, <1>1, <1>3, <2>1, <2>3, <3>1, <3>2, CaptureStep
  <2> QED
    BY <1>13, <2>2, <2>3 DEF Update
<1>14. CASE Insert
  <2>1. Target'
    BY <1>14 DEF Insert, Done, IInv, Target
  <2>2. CASE Done("failed") /\ UNCHANGED rows
    BY <1>5, <1>14, <2>1, <2>2 DEF Insert, Done
  <2>3. CASE /\ rows' = rows \cup {NewRow}
             /\ pc' = "formats" /\ UNCHANGED <<current, found>>
    <3>1. rows' \subseteq Row /\ \A r \in rows' : r.uuid <= Last
      BY <1>1, <1>2, <2>3, NewRowFits
    <3>2. marker' = marker
      BY <1>14 DEF Insert
    <3> QED
      BY <1>0, <1>1, <1>3, <2>1, <2>3, <3>1, <3>2, CaptureStep
  <2> QED
    BY <1>14, <2>2, <2>3 DEF Insert
<1>15. CASE StoreFormats
  <2>1. Target'
    BY <1>4, <1>15 DEF StoreFormats, IInv, Target
  <2> QED
    BY <1>5, <1>15, <2>1 DEF StoreFormats
<1>16. CASE FormatsFail
  <2>1. Target'
    BY <1>16 DEF FormatsFail, Done, IInv, Target
  <2>2. rows' \subseteq rows /\ marker' = marker /\ found' = {} /\ pc' = "idle"
    BY <1>16 DEF FormatsFail, Done
  <2>3. rows' \subseteq Row /\ (\A r \in rows' : r.uuid <= Last)
    BY <1>1, <2>2
  <2>4. found' \subseteq Uuids /\ (\A u \in found' : u <= Last)
    BY <2>2
  <2> QED
    BY <1>0, <1>1, <1>3, <2>1, <2>2, <2>3, <2>4, CaptureStep
<1>17. CASE Finish
  <2> DEFINE uuids == IF found = {} THEN {Number} ELSE found
             u == CHOOSE n \in uuids : TRUE
  <2>1. u \in Uuids /\ u <= Last
    <3>1. uuids # {} /\ \A n \in uuids : n \in Uuids /\ n <= Last
      BY <1>1, <1>2
    <3> HIDE DEF uuids
    <3>2. u \in uuids
      BY <3>1
    <3> QED
      BY <3>1, <3>2
  <2>2. PICK new : /\ marker' = {new} /\ new \in Capture
                   /\ new.uuid <= Last /\ new.hash = Hash
    <3>1. marker' = { [uuid |-> u, hash |-> Hash, age |-> 0] }
      BY <1>17 DEF Finish
    <3>2. 0 \in 0 .. Window
      BY HistoryAssumption
    <3> HIDE DEF u
    <3>3. [uuid |-> u, hash |-> Hash, age |-> 0] \in Capture
      BY <1>2, <2>1, <3>2 DEF Capture
    <3> QED
      BY <2>1, <3>1, <3>3
  <2>3. heard'.hash = {Hash} /\ heard'.outcome = "stored" /\ pc' = "idle" /\ found' = {}
    BY <1>17 DEF Finish, Done
  <2>4. Target'
    BY <1>17, <2>2, <2>3 DEF Finish, IInv, Target, IsLast
  <2>5. rows' \subseteq Row /\ (\A r \in rows' : r.uuid <= Last)
    <3>1. \A age, overflow, withText :
             \A r \in Retain(age, overflow, withText) :
                r \in rows \/ \E k \in rows : r = [k EXCEPT !.expired = TRUE]
      BY DEF Retain
    <3>2. \A r \in rows' : r \in rows \/ \E k \in rows : r = [k EXCEPT !.expired = TRUE]
      BY <1>17, <3>1 DEF Finish
    <3> QED
      BY <1>1, <3>2 DEF Row
  <2>6. marker' \subseteq Capture /\ AtMostOne(marker') /\ (\A m \in marker' : m.uuid <= Last)
    BY <2>2 DEF AtMostOne
  <2>7. found' \subseteq Uuids /\ (\A n \in found' : n <= Last)
    BY <2>3
  <2> QED
    BY <1>0, <1>3, <2>3, <2>4, <2>5, <2>6, <2>7, CaptureStep
<1> QED
  BY <1>6, <1>7, <1>8, <1>9, <1>10, <1>11, <1>12, <1>13, <1>14, <1>15, <1>16, <1>17

\* A clear takes the target.
LEMMA TakeMarkerInv == ASSUME IInv, TakeMarker PROVE IInv'
<1> USE DEF TakeMarker
<1>1. Number = Last /\ Number \in Uuids /\ pc = "clear" /\ Last' = Last
  BY AtWork DEF Last
<1>2. UNCHANGED <<rows, events, inbox, found, stable, heard>>
  OBVIOUS
<1> DEFINE attempt(m) == [clear |-> Number, capture |-> m, left |-> ForgetAttempts,
                          own |-> TRUE, pc |-> "lock"]
<1>3. \A m \in marker : /\ attempt(m) \in Forget /\ attempt(m).capture = m
                       /\ attempt(m).clear = Last
  BY <1>1, HistoryAssumption DEF IInv, Typed, Forget, Uuids
<1>4. /\ marker' \subseteq marker
      /\ \A f \in forgets' : f \in forgets \/ \E m \in marker : f = attempt(m)
      /\ forgets' # forgets => pc' = "forgetting"
      /\ pc' \in {"idle", "forgetting"}
  OBVIOUS
<1> HIDE DEF attempt
<1>5. \A f \in forgets : ~f.own
  BY <1>1 DEF IInv, Own
<1>6. Typed'
  BY <1>2, <1>3, <1>4 DEF IInv, Typed, AtMostOne
<1>7. InOrder' /\ Handling'
  BY <1>1, <1>2, <1>4 DEF IInv, InOrder, Handling, Storing
<1>8. Past'
  <2>1. \A m \in marker : m.uuid < Last
    BY <1>1 DEF IInv, Past
  <2>2. \A f \in forgets' : f.capture.uuid < f.clear /\ f.clear <= Last
    BY <1>1, <1>3, <1>4, <2>1 DEF IInv, Past, Uuids
  <2> QED
    BY <1>1, <1>2, <1>4, <2>2 DEF IInv, Past
<1>9. Target'
  BY <1>2, <1>4 DEF IInv, Target, IsLast, Storing
<1>10. Own'
  <2>1. \A f \in forgets' : f.own => /\ pc' = "forgetting"
                                    /\ \E m \in marker : f = attempt(m)
    BY <1>4, <1>5
  <2> QED
    BY <1>2, <1>3, <2>1 DEF IInv, Typed, AtMostOne, Target, Own, IsLast
<1> QED
  BY <1>6, <1>7, <1>8, <1>9, <1>10 DEF IInv

\* A forget goes on, or ends.
LEMMA ForgetInv == ASSUME IInv, NEW f \in forgets, ForgetStep(f) PROVE IInv'
<1> USE DEF NotForget
<1>1. UNCHANGED <<events, inbox, current, found, heard>>
  BY DEF ForgetStep, WakeRetry, LockForget, LookUpForget, DeleteForgotten, CleanUpForget,
     ForgetFails
<1>2. Last' = Last /\ Hash' = Hash
  BY <1>1 DEF Last, Hash
<1>3. rows' \subseteq rows /\ stable' \subseteq stable
  BY DEF ForgetStep, WakeRetry, LockForget, LookUpForget, DeleteForgotten, CleanUpForget,
     ForgetFails
<1>4. f \in Forget
  BY DEF IInv, Typed
<1>5. pc' = pc \/ (pc' = "idle" /\ f.own)
  BY DEF ForgetStep, WakeRetry, LockForget, LookUpForget, DeleteForgotten, CleanUpForget,
     ForgetFails, EndForget
<1>6. \A g \in forgets' : \/ g \in forgets \ {f}
                         \/ /\ g \in Forget /\ g.capture = f.capture /\ g.clear = f.clear
                            /\ g.own => f.own /\ pc' = pc
  <2>1. ASSUME NEW to \in {"lock", "lookup", "delete", "cleanup"}, Step(f, to), UNCHANGED pc,
               NEW g \in forgets', g \notin forgets \ {f}
        PROVE  /\ g \in Forget /\ g.capture = f.capture /\ g.clear = f.clear
               /\ g.own => f.own /\ pc' = pc
    <3>1. g = [f EXCEPT !.pc = to]
      BY <2>1 DEF Step
    <3> QED
      BY <1>4, <2>1, <3>1 DEF Forget
  <2>2. CASE forgets' \subseteq forgets \ {f}
    BY <2>2
  <2>3. CASE WakeRetry(f) \/ LockForget(f) \/ LookUpForget(f) \/ DeleteForgotten(f)
    BY <2>1, <2>2, <2>3 DEF WakeRetry, LockForget, LookUpForget, DeleteForgotten, EndForget
  <2>4. CASE CleanUpForget(f)
    BY <2>2, <2>4 DEF CleanUpForget, EndForget
  <2>5. CASE ForgetFails(f)
    <3> SUFFICES ASSUME NEW g \in forgets', g \notin forgets \ {f}
                 PROVE  /\ g \in Forget /\ g.capture = f.capture /\ g.clear = f.clear
                        /\ ~g.own
      OBVIOUS
    <3>1. PICK n \in { f.left - 1 } \ {0} : g = [f EXCEPT !.left = n, !.own = FALSE, !.pc = "sleep"]
      BY <2>5 DEF ForgetFails
    <3>2. n \in 1 .. ForgetAttempts
      BY <1>4, <3>1, HistoryAssumption DEF Forget
    <3> QED
      BY <1>4, <3>1, <3>2 DEF Forget
  <2> QED
    BY <2>3, <2>4, <2>5 DEF ForgetStep
<1>one. \A g, h \in forgets' \ (forgets \ {f}) : g.own /\ h.own => g = h
  <2>1. CASE ForgetFails(f)
    <3>1. \A g \in forgets' \ (forgets \ {f}) :
            \E n : g = [f EXCEPT !.left = n, !.own = FALSE, !.pc = "sleep"]
      BY <2>1 DEF ForgetFails
    <3> QED
      BY <1>4, <3>1 DEF Forget
  <2>2. CASE ~ForgetFails(f)
    BY <2>2 DEF ForgetStep, WakeRetry, LockForget, LookUpForget, DeleteForgotten,
       CleanUpForget, EndForget, Step
  <2> QED
    BY <2>1, <2>2
<1>7. \/ marker' \subseteq marker
      \/ marker' = {f.capture} /\ f.own
  BY DEF ForgetStep, WakeRetry, LockForget, LookUpForget, DeleteForgotten, CleanUpForget,
     ForgetFails
<1>8. Typed'
  BY <1>1, <1>3, <1>4, <1>6, <1>7 DEF IInv, Typed, AtMostOne, Forget
<1>9. InOrder'
  BY <1>1, <1>2 DEF IInv, InOrder
<1>10. Handling'
  BY <1>1, <1>2, <1>5 DEF IInv, Handling, Storing
<1>11. Past'
  <2>1. f.capture.uuid < f.clear /\ f.clear <= Last
    BY DEF IInv, Past
  <2>2. f.capture.uuid \in Nat /\ f.clear \in Nat /\ Last \in Int
    BY <1>4 DEF Forget, Capture, Uuids, IInv, InOrder, Last
  <2> QED
    BY <1>1, <1>2, <1>3, <1>5, <1>6, <1>7, <2>1, <2>2 DEF IInv, Past, Own
<1>12. Target'
  BY <1>1, <1>2, <1>3, <1>5, <1>7 DEF IInv, Target, Own, IsLast, Storing
<1>13. Own'
  <2>1. \A g \in forgets' : g.own => pc' = "forgetting" /\ IsLast(g.capture)
    BY <1>5, <1>6 DEF IInv, Own
  <2>2. \A g \in forgets' : g.own => IsLast(g.capture)'
    BY <1>1, <1>3, <2>1 DEF IsLast
  <2>3. \A g, h \in forgets' : g.own /\ h.own => g = h
    BY <1>6, <1>one DEF IInv, Own
  <2> QED
    BY <2>1, <2>2, <2>3 DEF Own
<1> QED
  BY <1>8, <1>9, <1>10, <1>11, <1>12, <1>13 DEF IInv

\* The user's commands change rows and forget what counts as stored, and nothing else the
\* consumer and the forgets go by.
LEMMA UserInv == ASSUME IInv, User \/ UNCHANGED vars PROVE IInv'
<1> USE DEF NotUser
<1>1. UNCHANGED <<marker, events, inbox, pc, current, found, forgets, heard>>
  BY DEF User, Delete, ClearUnpinned, ClearAll, Dedupe, DeleteRows, SoftDelete, Edit,
     ResetCaptureDedup, ApplyRetention, TogglePin, ToggleForget, vars
<1>2. stable' \subseteq stable
  BY <1>1 DEF User, Delete, ClearUnpinned, ClearAll, Dedupe, DeleteRows, SoftDelete, Edit,
     ResetCaptureDedup, ApplyRetention, TogglePin, ToggleForget, vars
<1>3. \A r \in rows' : r \in Row /\ \E k \in rows : r.uuid = k.uuid
  <2>0. rows \subseteq Row
    BY DEF IInv, Typed
  <2>1. CASE rows' \subseteq rows
    BY <2>0, <2>1
  <2>2. CASE SoftDelete
    <3>1. PICK k \in rows : rows' = (rows \ {k}) \cup { [k EXCEPT !.deleted = TRUE] }
      BY <2>2 DEF SoftDelete
    <3>2. [k EXCEPT !.deleted = TRUE] \in Row /\ [k EXCEPT !.deleted = TRUE].uuid = k.uuid
      BY <2>0 DEF Row
    <3> QED
      BY <2>0, <3>1, <3>2
  <2>3. CASE Edit
    <3>1. PICK k \in rows, h \in Contents \ Images :
             rows' = (rows \ {k}) \cup { [k EXCEPT !.hash = h] }
      BY <2>3 DEF Edit
    <3>2. [k EXCEPT !.hash = h] \in Row /\ [k EXCEPT !.hash = h].uuid = k.uuid
      BY <2>0 DEF Row
    <3> QED
      BY <2>0, <3>1, <3>2
  <2>4. CASE TogglePin
    <3>1. PICK k \in rows : rows' = (rows \ {k}) \cup { [k EXCEPT !.pinned = ~@] }
      BY <2>4 DEF TogglePin
    <3>2. [k EXCEPT !.pinned = ~@] \in Row /\ [k EXCEPT !.pinned = ~@].uuid = k.uuid
      BY <2>0 DEF Row
    <3> QED
      BY <2>0, <3>1, <3>2
  <2>5. CASE ApplyRetention
    <3>1. \A age, overflow, withText :
             \A r \in Retain(age, overflow, withText) :
                r \in rows \/ \E k \in rows : r = [k EXCEPT !.expired = TRUE]
      BY DEF Retain
    <3>2. \A r \in rows' : r \in rows \/ \E k \in rows : r = [k EXCEPT !.expired = TRUE]
      BY <2>5, <3>1 DEF ApplyRetention
    <3> QED
      BY <2>0, <3>2 DEF Row
  <2> QED
    BY <2>1, <2>2, <2>3, <2>4, <2>5 DEF User, Delete, ClearUnpinned, ClearAll, Dedupe,
       DeleteRows, ResetCaptureDedup, ToggleForget, vars
<1>4. Last' = Last /\ Hash' = Hash
  BY <1>1 DEF Last, Hash
<1>5. Typed' /\ InOrder' /\ Handling'
  BY <1>1, <1>3, <1>4 DEF IInv, Typed, InOrder, Handling
<1>6. Past'
  BY <1>1, <1>3, <1>4 DEF IInv, Past
<1>7. Target' /\ Own'
  BY <1>1, <1>2, <1>4 DEF IInv, Target, Own, IsLast
<1> QED
  BY <1>5, <1>6, <1>7 DEF IInv

\* Every step keeps the invariant.
LEMMA NextInv == ASSUME IInv, [Next]_vars PROVE IInv'
<1>1. ASSUME NEW h \in Contents, Copy(h) PROVE IInv'
  <2> DEFINE e == [number |-> events + 1, kind |-> "copy", hash |-> h]
  <2>1. Arrive(e)
    BY <1>1 DEF Copy
  <2>2. events + 1 \in 1 .. MaxEvents
    BY <2>1, HistoryAssumption DEF Arrive, IInv, InOrder
  <2>3. e \in Event /\ e.number = events + 1
    BY <2>2 DEF Event
  <2> HIDE DEF e
  <2> QED
    BY <2>1, <2>3, ArriveInv
<1>2. ASSUME Clear PROVE IInv'
  <2> DEFINE e == [number |-> events + 1, kind |-> "clear"]
  <2>1. Arrive(e)
    BY <1>2 DEF Clear
  <2>2. events + 1 \in 1 .. MaxEvents
    BY <2>1, HistoryAssumption DEF Arrive, IInv, InOrder
  <2>3. e \in Event /\ e.number = events + 1
    BY <2>2 DEF Event
  <2> HIDE DEF e
  <2> QED
    BY <2>1, <2>3, ArriveInv
<1>3. ASSUME Consumer PROVE IInv'
  BY <1>3, TakeInv, CaptureInv, TakeMarkerInv DEF Consumer
<1> QED
  BY <1>1, <1>2, <1>3, TickInv, ForgetInv, UserInv DEF Next, Environment

----------------------------------------------------------------------------

\* A clear can only ever forget the very last copy, whatever became of the copies, clears
\* and forgets before it (ClearTargetIsLastCopy; LAST_ACCEPTED_CAPTURE).
THEOREM TargetIsLast == Spec => []ClearTargetIsLastCopy
<1>1. IInv => ClearTargetIsLastCopy
  BY DEF IInv, Target, IsLast, ClearTargetIsLastCopy
<1> QED
  BY <1>1, InitInv, NextInv, PTL DEF Spec

\* A forget, however often it is tried, deletes no row that is pinned, and none that was
\* inserted after the clear it answers (ForgetsOnlyEarlierUnpinned; the guarded DELETE of
\* process_clipboard_clear).
THEOREM ForgetsWithinBounds == Spec => ForgetsOnlyEarlierUnpinned
<1> DEFINE Bounded ==
      \A r \in Forgotten :
         /\ ~r.pinned
         /\ \E f \in forgets : f.capture.uuid = r.uuid /\ f.clear > r.uuid
<1>1. ASSUME IInv, [Next]_vars PROVE [Bounded]_vars
  <2> SUFFICES ASSUME Next, NEW r \in rows, r \notin rows', forgets' # forgets
               PROVE  /\ ~r.pinned
                      /\ \E f \in forgets : f.capture.uuid = r.uuid /\ f.clear > r.uuid
    BY <1>1 DEF Forgotten
  <2>1. PICK f \in forgets : DeleteForgotten(f)
    BY DEF Next, Environment, Copy, Clear, Arrive, Tick, Consumer, Take, LockCapture,
       IgnoreOwnPaste, Skip, DropDuplicate, Accept, LookUp, CaptureFails, Update, Insert,
       StoreFormats, FormatsFail, Finish, TakeMarker, ForgetStep, WakeRetry, LockForget,
       LookUpForget, CleanUpForget, ForgetFails, User, Delete, ClearUnpinned, ClearAll, Dedupe,
       DeleteRows, SoftDelete, Edit, ResetCaptureDedup, ApplyRetention, TogglePin, ToggleForget,
       NotCapture, NotUser, NotForget
  <2>2. r.uuid = f.capture.uuid /\ ~r.pinned
    BY <2>1 DEF DeleteForgotten, WithUuid
  <2>3. f.capture.uuid < f.clear /\ f.capture.uuid \in Nat /\ f.clear \in Nat
    BY <1>1 DEF IInv, Past, Typed, Forget, Capture, Uuids
  <2> QED
    BY <2>2, <2>3
<1> QED
  BY <1>1, InitInv, NextInv, PTL DEF Spec, ForgetsOnlyEarlierUnpinned, Bounded
=============================================================================
