----------------------- MODULE CaptureListenerProofs -----------------------
(***************************************************************************)
(* What the listener queues and what it marks handled, for every kind of   *)
(* copy, every number of them, and any budgets of attempts.                *)
(***************************************************************************)
EXTENDS CaptureListener, SequenceTheorems, TLAPS

\* Where a capture has a sequence number and has not settled on an event.
Bound == {"formats", "markers", "markersCheck", "supported", "materialize", "read",
          "readCheck", "settle", "confirm"}

\* Where its markers are known, and where its payload is.
Marked == {"markersCheck", "supported", "materialize", "read", "readCheck", "settle"}
Read == {"readCheck", "settle"}

Readable(kind) == kind \in {"text", "secret", "hybrid"}

\* A capture is of a copy newer than any handled before, and reads it or a later one.
Order ==
    /\ handled <= Live
    /\ pc \in Bound => /\ handled < capture.expected /\ capture.expected <= Live
                       /\ capture.seen \subseteq capture.expected .. Live
    /\ pc = "send" => capture.expected = handled /\ handled > 0
    /\ \A i \in DOMAIN queued : /\ queued[i].sequence <= handled
                                /\ pc = "send" => queued[i].sequence < handled

\* A notification is of a copy since the start, a spent budget of one already handled,
\* and a read has an attempt left: all of them before the first.
Budget ==
    /\ notifications < Live
    /\ deferred.attempts = MaxDeferrals => deferred.sequence <= handled
    /\ pc \in {"formats", "markers", "markersCheck", "supported"} => capture.reads = 0
    /\ pc \in {"materialize", "read"} => capture.reads < ReadAttempts

\* As long as the sequence holds, what was read is what is there.
Steady ==
    capture.expected = Live =>
        /\ pc \in Bound \ {"formats"} => capture.formats = LiveKind
        /\ pc \in Marked => capture.sensitive = (LiveKind = "secret")
        /\ pc \in Read => capture.verdict \in ReadOutcomes(LiveKind)
        /\ pc = "confirm" /\ capture.verdict = "cleared" => Blank(LiveKind)
        /\ pc = "confirm" /\ capture.verdict = "ignored" => ~Readable(LiveKind)

\* A payload that passed its last guard is of one copy, and so is its marker.
OneCopy ==
    /\ capture.seen = {capture.expected}
    /\ copies[capture.expected] = "secret" => capture.sensitive

Whole ==
    /\ pc \in Read => capture.verdict \in {"captured", "transient", "unresponsive", "miss"}
    /\ pc \in Bound \ {"formats"} => capture.seen # {}
    /\ pc = "settle" /\ capture.verdict = "captured" => OneCopy
    /\ pc = "send" => IF capture.verdict = "cleared"
                      THEN Blank(copies[capture.expected]) ELSE OneCopy

Story == Order /\ Steady /\ Whole /\ QueueFollowsTheClipboard /\ HandledMeansCaptured

IInv == TypeOK /\ Budget /\ Story

----------------------------------------------------------------------------
(* Types.                                                                  *)

\* The budgets, one by one.
LEMMA Limits ==
    /\ BindAttempts \in Nat /\ BindAttempts > 0
    /\ ReadAttempts \in Nat /\ ReadAttempts > 0
    /\ MaxDeferrals \in Nat /\ MaxDeferrals > 0
    /\ StaleAfter \in Nat /\ StaleAfter > 0
    /\ MaxCopies \in Nat /\ MaxFailures \in Nat
    /\ Kinds \subseteq AllKinds
BY ListenerAssumption

\* A capture begins typed, its fields are, and every update of it keeps it so.
LEMMA FreshCapture ==
    /\ NoCapture \in Captures
    /\ \A r \in {"listen", "loop"} :
         [NoCapture EXCEPT !.resume = r] \in Captures
<1>1. NoCapture \in Captures
  BY Limits DEF NoCapture, Captures, AllKinds
<1>2. ASSUME NEW r \in {"listen", "loop"}
      PROVE  [NoCapture EXCEPT !.resume = r] \in Captures
  BY <1>1 DEF Captures
<1> QED
  BY <1>1, <1>2

\* The fields of a capture.
LEMMA CaptureFields ==
    ASSUME NEW c \in Captures
    PROVE  /\ c.expected \in 0 .. MaxCopies + 1 /\ c.expected \in Nat
           /\ c.binds \in Nat /\ c.reads \in 0 .. ReadAttempts
           /\ c.resume \in {"listen", "loop"}
           /\ c.seen \subseteq Sequences
           /\ c.verdict \in {"none", "captured", "transient", "unresponsive", "miss",
                             "cleared", "ignored"}
           /\ c.sensitive \in BOOLEAN
BY Limits DEF Captures

\* What the steps of a capture make of it is one again.
LEMMA CaptureUpdates ==
    ASSUME NEW c \in Captures, NEW n \in Sequences
    PROVE  /\ c.binds + 1 < BindAttempts => [c EXCEPT !.binds = @ + 1] \in Captures
           /\ [c EXCEPT !.expected = n, !.seen = {}, !.reads = 0] \in Captures
           /\ \A k \in AllKinds : [c EXCEPT !.formats = k, !.seen = @ \cup {n},
                                            !.verdict = "cleared"] \in Captures
           /\ \A k \in AllKinds : [c EXCEPT !.sensitive = (k = "secret"),
                                            !.seen = @ \cup {n}] \in Captures
           /\ [c EXCEPT !.verdict = "ignored"] \in Captures
           /\ [c EXCEPT !.seen = @ \cup {n}] \in Captures
           /\ c.reads < ReadAttempts =>
                \A v \in {"captured", "transient", "unresponsive", "miss"} :
                  [c EXCEPT !.seen = @ \cup {n}, !.reads = @ + 1, !.verdict = v] \in Captures
           /\ \A v \in {"transient", "unresponsive", "cleared", "ignored"} :
                [c EXCEPT !.verdict = v] \in Captures
<1>1. c.binds + 1 < BindAttempts => [c EXCEPT !.binds = @ + 1] \in Captures
  BY Limits DEF Captures
<1>2. [c EXCEPT !.expected = n, !.seen = {}, !.reads = 0] \in Captures
  <2>1. n \in 0 .. MaxCopies + 1 /\ 0 \in 0 .. ReadAttempts /\ {} \in SUBSET Sequences
    BY Limits DEF Sequences
  <2> QED
    BY <2>1 DEF Captures
<1>3. \A k \in AllKinds : [c EXCEPT !.formats = k, !.seen = @ \cup {n},
                                            !.verdict = "cleared"] \in Captures
  BY Limits DEF Captures
<1>4. \A k \in AllKinds : [c EXCEPT !.sensitive = (k = "secret"),
                                           !.seen = @ \cup {n}] \in Captures
  BY Limits DEF Captures
<1>5. [c EXCEPT !.verdict = "ignored"] \in Captures
  BY Limits DEF Captures
<1>6. [c EXCEPT !.seen = @ \cup {n}] \in Captures
  BY Limits DEF Captures
<1>7. c.reads < ReadAttempts =>
                \A v \in {"captured", "transient", "unresponsive", "miss"} :
                  [c EXCEPT !.seen = @ \cup {n}, !.reads = @ + 1, !.verdict = v] \in Captures
  <2>1. c.reads < ReadAttempts => c.reads + 1 \in 0 .. ReadAttempts
    BY Limits DEF Captures
  <2> QED
    BY <2>1 DEF Captures
<1>8. \A v \in {"transient", "unresponsive", "cleared", "ignored"} :
                [c EXCEPT !.verdict = v] \in Captures
  BY Limits DEF Captures
<1> QED
  BY <1>1, <1>2, <1>3, <1>4, <1>5, <1>6, <1>7, <1>8

\* There is always a live copy.
LEMMA LiveFacts ==
    ASSUME TypeOK
    PROVE  /\ Live \in Nat /\ Live > 0 /\ Live <= MaxCopies + 1 /\ Live \in Sequences
           /\ LiveKind \in AllKinds
           /\ handled \in Nat
<1>1. copies \in Seq(AllKinds) /\ Len(copies) \in 1 .. MaxCopies + 1
  BY DEF TypeOK, Sequences
<1>2. copies[Len(copies)] \in AllKinds
  BY <1>1, Limits, ElementOfSeq
<1> QED
  BY <1>1, <1>2, Limits DEF TypeOK, Sequences, Live, LiveKind

\* A queued event names a copy.
LEMMA QueueFacts ==
    ASSUME TypeOK
    PROVE  \A i \in DOMAIN queued : queued[i].sequence \in Nat /\ queued[i].sequence > 0
<1>1. SUFFICES ASSUME NEW i \in DOMAIN queued
               PROVE  queued[i].sequence \in Sequences
  BY Limits DEF Sequences
<1>2. queued \in Seq([sequence : Sequences, cleared : BOOLEAN,
                     sensitive : BOOLEAN, seen : SUBSET Sequences])
  BY DEF TypeOK
<1>3. i \in 1 .. Len(queued)
  BY <1>2, LenProperties
<1>4. queued[i] \in [sequence : Sequences, cleared : BOOLEAN,
                    sensitive : BOOLEAN, seen : SUBSET Sequences]
  BY <1>2, <1>3, ElementOfSeq
<1> QED
  BY <1>4

\* The ways a capture goes on or ends, whatever step takes them.
LEMMA ReturnTypes ==
    ASSUME TypeOK, Return
    PROVE  pc' \in {"listen", "loop"} /\ pc' \in Pcs /\ capture' \in Captures
BY FreshCapture, CaptureFields DEF TypeOK, Return, Pcs

\* The types after an attempt was lost.
LEMMA RebindTypes ==
    ASSUME TypeOK, Rebind
    PROVE  pc' \in {"bind", "listen", "loop"} /\ pc' \in Pcs /\ capture' \in Captures
           /\ sinceEvent' \in 0 .. StaleAfter
<1>1. CASE capture.binds + 1 < BindAttempts
  <2>1. capture' \in Captures
    BY <1>1, CaptureUpdates, LiveFacts DEF TypeOK, Rebind
  <2> QED
    BY <1>1, <2>1 DEF TypeOK, Rebind, Pcs
<1>2. CASE ~(capture.binds + 1 < BindAttempts)
  BY <1>2, ReturnTypes, Limits DEF Rebind
<1> QED
  BY <1>1, <1>2

\* The types when a capture ends with its event handled.
LEMMA ReportTypes ==
    ASSUME TypeOK, Order, pc \in Bound, Report
    PROVE  /\ capture.expected \in Sequences
           /\ handled' \in 0 .. MaxCopies + 1 /\ sinceEvent' \in 0 .. StaleAfter
           /\ writtenOff' \subseteq Sequences
<1>1. capture.expected \in Sequences
  BY LiveFacts, CaptureFields, Limits DEF TypeOK, Order, Sequences
<1> QED
  BY <1>1, CaptureFields, Limits DEF TypeOK, Report, Note

\* The budget of deferrals is never overspent: the last one marks the copy handled.
LEMMA DeferTypes ==
    ASSUME TypeOK, Order, Budget, pc \in Bound, DeferOrExhaust
    PROVE  /\ handled' \in 0 .. MaxCopies + 1 /\ sinceEvent' \in 0 .. StaleAfter
           /\ writtenOff' \subseteq Sequences
           /\ deferred' \in [sequence : 0 .. MaxCopies + 1, attempts : 0 .. MaxDeferrals]
           /\ deferred'.attempts = MaxDeferrals => deferred'.sequence <= handled'
<1>1. capture.expected \in Sequences /\ capture.expected \in 0 .. MaxCopies + 1
  BY LiveFacts, CaptureFields, Limits DEF TypeOK, Order, Sequences
<1>2. /\ deferred.sequence \in 0 .. MaxCopies + 1
      /\ deferred.attempts \in Nat /\ deferred.attempts <= MaxDeferrals
  BY Limits DEF TypeOK
<1> DEFINE attempts == IF deferred.sequence = capture.expected
                       THEN deferred.attempts + 1 ELSE 1
<1>3. attempts \in Nat /\ attempts <= MaxDeferrals
  <2>1. deferred.sequence = capture.expected => deferred.attempts # MaxDeferrals
    BY <1>1, <1>2, LiveFacts DEF Order, Budget, Sequences
  <2> QED
    BY <1>2, <2>1, Limits
<1>4. deferred' = [sequence |-> capture.expected, attempts |-> attempts]
  BY DEF DeferOrExhaust
<1>5. CASE attempts >= MaxDeferrals
  <2>1. handled' = capture.expected /\ sinceEvent' = 0
        /\ writtenOff' = writtenOff \cup {capture.expected}
    BY <1>5 DEF DeferOrExhaust, Note
  <2>2. writtenOff' \subseteq Sequences
    BY <1>1, <2>1 DEF TypeOK
  <2> HIDE DEF attempts
  <2>3. deferred' \in [sequence : 0 .. MaxCopies + 1, attempts : 0 .. MaxDeferrals]
        /\ deferred'.sequence = capture.expected
    BY <1>1, <1>3, <1>4, Limits
  <2> QED
    BY <1>1, <2>1, <2>2, <2>3, Limits
<1>6. CASE ~(attempts >= MaxDeferrals)
  <2>1. UNCHANGED <<handled, sinceEvent, writtenOff>>
    BY <1>6 DEF DeferOrExhaust
  <2> HIDE DEF attempts
  <2> QED
    BY <1>1, <1>3, <1>4, <1>6, <2>1, Limits DEF TypeOK
<1> QED
  BY <1>5, <1>6

\* Every step keeps the types.
LEMMA TypeStep ==
    ASSUME TypeOK, Order, Budget, [Next]_vars
    PROVE  TypeOK'
<1>1. CASE Start
  BY <1>1 DEF TypeOK, Start, Pcs, environment, health, history
<1>2. CASE CreateMonitor
  BY <1>2 DEF TypeOK, CreateMonitor, Pcs, health, history
<1>3. CASE CreateFails
  <2>1. failures' \in 0 .. MaxFailures
    BY <1>3, Limits DEF TypeOK, CreateFails
  <2> QED
    BY <1>3, <2>1 DEF TypeOK, CreateFails, Pcs, session, health, history
<1>4. CASE CatchUp
  <2>1. handled' \in 0 .. MaxCopies + 1 /\ baseline' \in 0 .. MaxCopies + 1
    BY <1>4, Limits, LiveFacts DEF TypeOK, CatchUp, Note
  <2>2. sinceEvent' \in 0 .. StaleAfter
    BY <1>4, Limits DEF TypeOK, CatchUp, Note
  <2>3. capture' \in Captures /\ pc' \in Pcs
    BY <1>4, FreshCapture DEF TypeOK, CatchUp, BeginCapture, Pcs
  <2> QED
    BY <1>4, <2>1, <2>2, <2>3 DEF TypeOK, CatchUp, environment
<1>5. CASE Listen
  BY <1>5 DEF TypeOK, Listen, Pcs, environment, health, history
<1>6. CASE CheckSlot
  BY <1>6 DEF TypeOK, CheckSlot, Pcs, environment, session, health, history
<1>7. CASE ReceiveNotification
  <2>1. notifications' \in 0 .. MaxCopies
    BY <1>7, Limits DEF TypeOK, ReceiveNotification
  <2>2. capture' \in Captures /\ pc' \in Pcs
    BY <1>7, FreshCapture DEF TypeOK, ReceiveNotification, BeginCapture, Pcs
  <2> QED
    BY <1>7, <2>1, <2>2 DEF TypeOK, ReceiveNotification, session, health, history
<1>8. CASE ReceiveShutdown
  BY <1>8 DEF TypeOK, ReceiveShutdown, Pcs, environment, session, health, history
<1>9. CASE ReceiveFails
  <2>1. failures' \in 0 .. MaxFailures
    BY <1>9, Limits DEF TypeOK, ReceiveFails
  <2> QED
    BY <1>9, <2>1 DEF TypeOK, ReceiveFails, Pcs, session, health, history
<1>10. CASE ExitSession
  <2>1. notifications' \in 0 .. MaxCopies
    BY <1>10, Limits DEF TypeOK, ExitSession
  <2> QED
    BY <1>10, <2>1 DEF TypeOK, ExitSession, Pcs, health, history
<1>11. CASE Bind
  <2>1. capture' \in Captures /\ pc' \in Pcs
    BY <1>11, ReturnTypes, CaptureUpdates, LiveFacts DEF TypeOK, Bind, Pcs
  <2> QED
    BY <1>11, <2>1 DEF TypeOK, Bind, CaptureOnly, ReadOnly, environment, session, health, history
<1>12. CASE ReadFormats
  <2>1. capture' \in Captures
    BY <1>12, CaptureUpdates, LiveFacts DEF TypeOK, ReadFormats
  <2> QED
    BY <1>12, <2>1 DEF TypeOK, ReadFormats, Pcs, CaptureOnly, ReadOnly, environment, session,
       health, history
<1>13. CASE CheckSupported
  <2>1. capture' \in Captures
    BY <1>13, CaptureUpdates, LiveFacts DEF TypeOK, CheckSupported
  <2> QED
    BY <1>13, <2>1 DEF TypeOK, CheckSupported, Pcs, CaptureOnly, ReadOnly, environment,
       session, health, history
<1>14. CASE ReadMarkers
  <2>1. pc \in Bound
    BY <1>14 DEF ReadMarkers, Bound
  <2>2. capture' \in Captures /\ pc' \in Pcs
    <3>1. CASE Return
      BY <3>1, ReturnTypes
    <3>2. CASE /\ capture' = [capture EXCEPT !.sensitive = (LiveKind = "secret"),
                                             !.seen = @ \cup {Live}]
               /\ pc' = "markersCheck"
      BY <3>2, CaptureUpdates, LiveFacts DEF TypeOK, Pcs
    <3> QED
      BY <1>14, <3>1, <3>2 DEF ReadMarkers
  <2>3. /\ handled' \in 0 .. MaxCopies + 1 /\ sinceEvent' \in 0 .. StaleAfter
        /\ writtenOff' \subseteq Sequences
        /\ deferred' \in [sequence : 0 .. MaxCopies + 1, attempts : 0 .. MaxDeferrals]
    <3>1. CASE UNCHANGED <<health, history>>
      BY <3>1 DEF TypeOK, health, history
    <3>2. CASE Report
      BY <2>1, <3>2, ReportTypes DEF TypeOK, Report
    <3>3. CASE DeferOrExhaust
      BY <2>1, <3>3, DeferTypes
    <3> QED
      BY <1>14, <3>1, <3>2, <3>3 DEF ReadMarkers
  <2>4. queued' = queued /\ baseline' = baseline
    BY <1>14 DEF ReadMarkers, Report, DeferOrExhaust, history
  <2> QED
    BY <1>14, <2>1, <2>2, <2>3, <2>4 DEF TypeOK, ReadMarkers, CaptureOnly, environment, session
<1>15. CASE CheckMarkers
  <2>1. capture' \in Captures /\ pc' \in Pcs
    BY <1>15, ReturnTypes, RebindTypes DEF TypeOK, CheckMarkers, Pcs
  <2>2. handled' \in 0 .. MaxCopies + 1 /\ sinceEvent' \in 0 .. StaleAfter
    <3>1. CASE Rebind
      BY <3>1, RebindTypes DEF TypeOK, Rebind
    <3>2. CASE Note(capture.expected)
      BY <3>2, CaptureFields, Limits DEF TypeOK, Note
    <3>3. CASE UNCHANGED health
      BY <3>3 DEF TypeOK, health
    <3> QED
      BY <1>15, <3>1, <3>2, <3>3 DEF CheckMarkers
  <2>3. deferred' = deferred /\ UNCHANGED history
    BY <1>15 DEF CheckMarkers, Rebind, health
  <2> QED
    BY <1>15, <2>1, <2>2, <2>3 DEF TypeOK, CheckMarkers, CaptureOnly, environment, session, history
<1>16. CASE GuardRead
  <2>1. capture' \in Captures /\ pc' \in Pcs
    BY <1>16, RebindTypes DEF TypeOK, GuardRead, Pcs
  <2>2. sinceEvent' \in 0 .. StaleAfter
    BY <1>16, RebindTypes DEF TypeOK, GuardRead, health
  <2>3. UNCHANGED <<handled, deferred, history>>
    BY <1>16 DEF GuardRead, Rebind, health
  <2> QED
    BY <1>16, <2>1, <2>2, <2>3 DEF TypeOK, GuardRead, CaptureOnly, environment, session, history
<1>17. CASE CheckRead
  <2>1. capture' \in Captures /\ pc' \in Pcs
    BY <1>17, RebindTypes DEF TypeOK, CheckRead, Pcs
  <2>2. sinceEvent' \in 0 .. StaleAfter
    BY <1>17, RebindTypes DEF TypeOK, CheckRead, health
  <2>3. UNCHANGED <<handled, deferred, history>>
    BY <1>17 DEF CheckRead, Rebind, health
  <2> QED
    BY <1>17, <2>1, <2>2, <2>3 DEF TypeOK, CheckRead, CaptureOnly, environment, session, history
<1>18. CASE ReadFormat
  <2>1. capture' \in Captures
    BY <1>18, CaptureUpdates, LiveFacts DEF TypeOK, ReadFormat
  <2> QED
    BY <1>18, <2>1 DEF TypeOK, ReadFormat, Pcs, CaptureOnly, ReadOnly, environment, session,
       health, history
<1>19. CASE FinishRead
  <2>1. capture.reads < ReadAttempts
    BY <1>19 DEF FinishRead, Budget
  <2>2. capture' \in Captures
    <3>1. PICK outcome \in {"captured", "transient", "unresponsive", "miss"} :
            capture' = [capture EXCEPT !.seen = @ \cup {Live}, !.reads = @ + 1,
                                       !.verdict = outcome]
      BY <1>19 DEF FinishRead, ReadOutcomes
    <3> QED
      BY <2>1, <3>1, CaptureUpdates, LiveFacts DEF TypeOK
  <2> QED
    BY <1>19, <2>1, <2>2 DEF TypeOK, FinishRead, Pcs, CaptureOnly, ReadOnly, environment,
       session, health, history
<1>20. CASE QueueCapture
  <2>1. /\ handled' \in 0 .. MaxCopies + 1 /\ sinceEvent' \in 0 .. StaleAfter
        /\ deferred' \in [sequence : 0 .. MaxCopies + 1, attempts : 0 .. MaxDeferrals]
    BY <1>20, CaptureFields, Limits DEF TypeOK, QueueCapture, Note
  <2> QED
    BY <1>20, <2>1 DEF TypeOK, QueueCapture, Pcs, CaptureOnly, environment, session, history
<1>21. CASE Settle
  <2>1. capture' \in Captures
    <3>1. PICK v \in {"transient", "unresponsive", "cleared", "ignored"} :
            capture' = [capture EXCEPT !.verdict = v]
      BY <1>21 DEF Settle
    <3> QED
      BY <3>1, CaptureUpdates, LiveFacts DEF TypeOK
  <2> QED
    BY <1>21, <2>1 DEF TypeOK, Settle, Pcs, CaptureOnly, ReadOnly, environment, session,
       health, history
<1>22. CASE Confirm
  <2>1. pc \in Bound
    BY <1>22 DEF Confirm, Bound
  <2>2. capture' \in Captures /\ pc' \in Pcs
    BY <1>22, ReturnTypes, RebindTypes DEF TypeOK, Confirm, Pcs
  <2>3. /\ handled' \in 0 .. MaxCopies + 1 /\ sinceEvent' \in 0 .. StaleAfter
        /\ writtenOff' \subseteq Sequences
        /\ deferred' \in [sequence : 0 .. MaxCopies + 1, attempts : 0 .. MaxDeferrals]
    <3>1. CASE Rebind
      BY <3>1, RebindTypes DEF TypeOK, Rebind, history
    <3>2. CASE Note(capture.expected) /\ UNCHANGED <<deferred, history>>
      BY <3>2, CaptureFields, Limits DEF TypeOK, Note, history
    <3>3. CASE Report
      BY <2>1, <3>3, ReportTypes DEF TypeOK, Report
    <3>4. CASE DeferOrExhaust
      BY <2>1, <3>4, DeferTypes
    <3> QED
      BY <1>22, <3>1, <3>2, <3>3, <3>4 DEF Confirm
  <2>4. queued' = queued /\ baseline' = baseline
    BY <1>22 DEF Confirm, Report, Rebind, DeferOrExhaust, history
  <2> QED
    BY <1>22, <2>1, <2>2, <2>3, <2>4 DEF TypeOK, Confirm, CaptureOnly, environment, session
<1>23. CASE Send
  <2>1. capture' \in Captures /\ pc' \in Pcs
    BY <1>23, ReturnTypes DEF Send
  <2>2. capture.expected \in Sequences
    BY <1>23, CaptureFields, LiveFacts DEF TypeOK, Order, Send, Sequences
  <2>3. queued' \in Seq([sequence : Sequences, cleared : BOOLEAN,
                             sensitive : BOOLEAN, seen : SUBSET Sequences])
    BY <1>23, <2>2, CaptureFields, AppendProperties DEF TypeOK, Send
  <2> QED
    BY <1>23, <2>1, <2>2, <2>3 DEF TypeOK, Send, CaptureOnly, environment, session, health
<1>24. CASE SendFails
  BY <1>24 DEF TypeOK, SendFails, Pcs, environment, health, history
<1>25. CASE GoDeaf
  <2>1. notifications' \in 0 .. MaxCopies /\ failures' \in 0 .. MaxFailures
    BY <1>25, Limits DEF TypeOK, GoDeaf
  <2> QED
    BY <1>25, <2>1 DEF TypeOK, GoDeaf, session, health, history
<1>26. CASE Tick
  <2>1. sinceEvent' \in 0 .. StaleAfter
    BY <1>26, Limits DEF TypeOK, Tick, Least
  <2> QED
    BY <1>26, <2>1 DEF TypeOK, Tick, environment, session, history
<1>27. CASE WatchdogDecides
  BY <1>27 DEF TypeOK, WatchdogDecides, Pcs, environment, session, health, history
<1>28. CASE WatchdogRequests
  BY <1>28 DEF TypeOK, WatchdogRequests, Pcs, environment, session, health, history
<1>29. ASSUME NEW kind \in Kinds, Copy(kind)
       PROVE  TypeOK'
  <2>1. copies' \in Seq(AllKinds) /\ Len(copies') = Len(copies) + 1
    BY <1>29, Limits, AppendProperties DEF TypeOK, Copy
  <2>2. Len(copies') \in Sequences /\ notifications' \in 0 .. MaxCopies
    BY <1>29, <2>1, Limits, LiveFacts DEF TypeOK, Copy, Budget, Live, Sequences
  <2> QED
    BY <1>29, <2>1, <2>2 DEF TypeOK, Copy, session, health, history
<1>30. CASE UNCHANGED vars
  BY <1>30 DEF TypeOK, vars
<1> QED
  BY <1>1, <1>2, <1>3, <1>4, <1>5, <1>6, <1>7, <1>8, <1>9, <1>10, <1>11, <1>12, <1>13, <1>14,
     <1>15, <1>16, <1>17, <1>18, <1>19, <1>20, <1>21, <1>22, <1>23, <1>24, <1>25, <1>26, <1>27,
     <1>28, <1>29, <1>30 DEF Next, Supervisor, CaptureStep
----------------------------------------------------------------------------
(* Budgets.                                                                *)

\* Budgets hold where no copy is marked handled or deferred, no notification arrives and
\* no read begins.
LEMMA BudgetSame ==
    ASSUME Budget, UNCHANGED <<copies, deferred, handled>>,
           notifications' \in {0, notifications},
           pc' \notin {"formats", "markers", "markersCheck", "supported",
                     "materialize", "read"} \/ UNCHANGED <<pc, capture>>,
           Live \in Nat, Live > 0
    PROVE  Budget'
BY DEF Budget, Live

\* Nor where the copy of a capture is marked handled: it is newer than the last one.
LEMMA BudgetNoted ==
    ASSUME TypeOK, Order, Budget, pc \in Bound, UNCHANGED <<copies, notifications>>,
           handled' = capture.expected, deferred' = deferred \/ deferred'.sequence = handled',
           pc' \in {"listen", "loop", "send"}
    PROVE  Budget'
<1>1. handled \in Nat /\ handled' \in Nat /\ handled < handled'
  BY LiveFacts, CaptureFields DEF TypeOK, Order
<1>2. deferred.sequence \in Nat
  BY Limits DEF TypeOK
<1> QED
  BY <1>1, <1>2 DEF Budget, Live

\* A capture that begins again begins before its binding.
LEMMA BudgetRebind ==
    ASSUME TypeOK, Budget, Rebind, UNCHANGED <<copies, notifications>>
    PROVE  Budget'
BY RebindTypes, LiveFacts, BudgetSame DEF Rebind

\* A deferral spends its budget only on an event it then gives up.
LEMMA BudgetDefer ==
    ASSUME TypeOK, Order, Budget, pc \in Bound, DeferOrExhaust, Return,
           UNCHANGED <<copies, notifications>>
    PROVE  Budget'
BY DeferTypes, ReturnTypes DEF Budget, Live

\* The budgets hold after every step.
LEMMA BudgetStep ==
    ASSUME TypeOK, Order, Budget, [Next]_vars
    PROVE  Budget'
<1> USE LiveFacts
<1>1. CASE Start
  BY <1>1, BudgetSame DEF Start, environment, session, health, history
<1>2. CASE CreateMonitor
  BY <1>2, BudgetSame DEF CreateMonitor, environment, session, health, history
<1>3. CASE CreateFails
  BY <1>3, BudgetSame DEF CreateFails, environment, session, health, history
<1>4. CASE CatchUp
  <2>1. CASE Note(Live)
    BY <1>4, <2>1, Limits DEF TypeOK, CatchUp, Note, Budget, Order, Live, environment
  <2>2. CASE UNCHANGED handled
    BY <1>4, <2>2, BudgetSame DEF CatchUp, BeginCapture, environment
  <2> QED
    BY <1>4, <2>1, <2>2 DEF CatchUp
<1>5. CASE Listen
  BY <1>5, BudgetSame DEF Listen, environment, session, health, history
<1>6. CASE CheckSlot
  BY <1>6, BudgetSame DEF CheckSlot, environment, session, health, history
<1>7. CASE ReceiveNotification
  BY <1>7, Limits DEF TypeOK, ReceiveNotification, BeginCapture, Budget, Live, health
<1>8. CASE ReceiveShutdown
  BY <1>8, BudgetSame DEF ReceiveShutdown, environment, session, health, history
<1>9. CASE ReceiveFails
  BY <1>9, BudgetSame DEF ReceiveFails, environment, session, health, history
<1>10. CASE ExitSession
  BY <1>10, BudgetSame DEF ExitSession, environment, session, health, history
<1>11. CASE Bind
  <2>1. CASE Return
    BY <1>11, <2>1, ReturnTypes, BudgetSame DEF Bind, CaptureOnly, ReadOnly, environment, health
  <2>2. CASE pc' = "formats" /\ capture'.reads = 0
    BY <1>11, <2>2 DEF Bind, Budget, Live, CaptureOnly, ReadOnly, environment, health
  <2> QED
    BY <1>11, <2>1, <2>2 DEF Bind, TypeOK, Captures
<1>12. CASE ReadFormats
  <2>1. capture'.reads = capture.reads
    BY <1>12 DEF ReadFormats, TypeOK, Captures
  <2> QED
    BY <1>12, <2>1 DEF ReadFormats, Budget, Live, CaptureOnly, ReadOnly, environment, health
<1>13. CASE ReadMarkers
  <2>1. CASE pc' = "markersCheck" /\ UNCHANGED health /\ capture'.reads = capture.reads
    BY <1>13, <2>1 DEF ReadMarkers, Budget, Live, CaptureOnly, environment, health
  <2>2. CASE DeferOrExhaust /\ Return
    BY <1>13, <2>2, BudgetDefer DEF ReadMarkers, Bound, CaptureOnly, environment
  <2>3. CASE Report /\ Return
    BY <1>13, <2>3, BudgetNoted, ReturnTypes
       DEF ReadMarkers, Report, Note, Bound, CaptureOnly, environment
  <2> QED
    BY <1>13, <2>1, <2>2, <2>3 DEF ReadMarkers, TypeOK, Captures
<1>14. CASE CheckMarkers
  <2>1. CASE Rebind
    BY <1>14, <2>1, BudgetRebind DEF CheckMarkers, CaptureOnly, environment
  <2>2. CASE Note(capture.expected) /\ Return /\ UNCHANGED deferred
    BY <1>14, <2>2, BudgetNoted, ReturnTypes DEF CheckMarkers, Note, Bound, CaptureOnly, environment
  <2>3. CASE pc' = "supported" /\ UNCHANGED <<health, capture>>
    BY <1>14, <2>3 DEF CheckMarkers, Budget, Live, CaptureOnly, environment, health
  <2> QED
    BY <1>14, <2>1, <2>2, <2>3 DEF CheckMarkers
<1>15. CASE CheckSupported
  <2>1. capture'.reads = capture.reads
    BY <1>15 DEF CheckSupported, TypeOK, Captures
  <2> QED
    BY <1>15, <2>1, Limits DEF CheckSupported, Budget, Live, CaptureOnly, ReadOnly,
       environment, health
<1>16. CASE GuardRead
  <2>1. CASE Rebind
    BY <1>16, <2>1, BudgetRebind DEF GuardRead, CaptureOnly, environment
  <2>2. CASE pc' = "read" /\ UNCHANGED <<health, capture>>
    BY <1>16, <2>2 DEF GuardRead, Budget, Live, CaptureOnly, environment, health
  <2> QED
    BY <1>16, <2>1, <2>2 DEF GuardRead
<1>17. CASE ReadFormat
  <2>1. capture'.reads = capture.reads
    BY <1>17 DEF ReadFormat, TypeOK, Captures
  <2> QED
    BY <1>17, <2>1 DEF ReadFormat, Budget, Live, CaptureOnly, ReadOnly, environment, health
<1>18. CASE FinishRead
  BY <1>18, BudgetSame DEF FinishRead, CaptureOnly, ReadOnly, environment, health
<1>19. CASE CheckRead
  <2>1. CASE Rebind
    BY <1>19, <2>1, BudgetRebind DEF CheckRead, CaptureOnly, environment
  <2>2. CASE pc' = "settle" /\ UNCHANGED <<health, capture>>
    BY <1>19, <2>2 DEF CheckRead, Budget, Live, CaptureOnly, environment, health
  <2>3. CASE pc' = "materialize" /\ capture.reads < ReadAttempts /\ UNCHANGED <<health, capture>>
    BY <1>19, <2>3 DEF CheckRead, Budget, Live, CaptureOnly, environment, health
  <2> QED
    BY <1>19, <2>1, <2>2, <2>3 DEF CheckRead
<1>20. CASE QueueCapture
  BY <1>20, BudgetNoted DEF QueueCapture, Note, Bound, CaptureOnly, environment
<1>21. CASE Settle
  BY <1>21, BudgetSame DEF Settle, CaptureOnly, ReadOnly, environment, health
<1>22. CASE Confirm
  <2>1. CASE Rebind
    BY <1>22, <2>1, BudgetRebind DEF Confirm, CaptureOnly, environment
  <2>2. CASE Note(capture.expected) /\ UNCHANGED deferred /\ pc' \in {"listen", "loop", "send"}
    BY <1>22, <2>2, BudgetNoted DEF Confirm, Note, Bound, CaptureOnly, environment
  <2>3. CASE DeferOrExhaust /\ Return
    BY <1>22, <2>3, BudgetDefer DEF Confirm, Bound, CaptureOnly, environment
  <2> QED
    BY <1>22, <2>1, <2>2, <2>3, ReturnTypes DEF Confirm, Report
<1>23. CASE Send
  BY <1>23, ReturnTypes, BudgetSame DEF Send, CaptureOnly, environment, health
<1>24. CASE SendFails
  BY <1>24, BudgetSame DEF SendFails, environment, session, health, history
<1>25. CASE GoDeaf
  BY <1>25, BudgetSame DEF GoDeaf, environment, session, health, history
<1>26. CASE Tick
  BY <1>26, BudgetSame DEF Tick, environment, session, health, history
<1>27. CASE WatchdogDecides
  BY <1>27, BudgetSame DEF WatchdogDecides, environment, session, health, history
<1>28. CASE WatchdogRequests
  BY <1>28, BudgetSame DEF WatchdogRequests, environment, session, health, history
<1>29. ASSUME NEW kind \in Kinds, Copy(kind)
       PROVE  Budget'
  <2>1. notifications \in Nat /\ Live' = Live + 1
    BY <1>29, Limits, AppendProperties DEF TypeOK, Copy, Live
  <2> QED
    BY <1>29, <2>1 DEF Copy, Budget, health
<1>30. CASE UNCHANGED vars
  BY <1>30, BudgetSame DEF vars
<1> QED
  BY <1>1, <1>2, <1>3, <1>4, <1>5, <1>6, <1>7, <1>8, <1>9, <1>10, <1>11, <1>12, <1>13, <1>14,
     <1>15, <1>16, <1>17, <1>18, <1>19, <1>20, <1>21, <1>22, <1>23, <1>24, <1>25, <1>26, <1>27,
     <1>28, <1>29, <1>30 DEF Next, Supervisor, CaptureStep

----------------------------------------------------------------------------
(* What a step does to the story of the clipboard.                         *)

\* A step that leaves the capture and its story alone.
LEMMA SamePlace ==
    ASSUME Story, UNCHANGED <<copies, pc, capture, handled, queued, writtenOff, baseline>>
    PROVE  Story'
BY DEF Story, Order, Steady, Whole, OneCopy, QueueFollowsTheClipboard, OneCopyPerEvent,
   QueuedOnceInOrder, HandledMeansCaptured, Live, LiveKind

\* A step of the supervisor, or the end of a capture that handled nothing.
LEMMA Away ==
    ASSUME TypeOK, Story, pc \notin {"send", "stopped"},
           pc' \notin Bound \cup {"send", "stopped"},
           UNCHANGED <<copies, handled, queued, writtenOff, baseline>>
    PROVE  Story'
<1>1. Order'
  BY DEF Story, Order, Live
<1>2. Steady' /\ Whole'
  BY DEF Steady, Whole, Bound, Marked, Read
<1>3. QueueFollowsTheClipboard'
  BY DEF Story, QueueFollowsTheClipboard, OneCopyPerEvent, QueuedOnceInOrder
<1>4. HandledMeansCaptured'
  BY DEF Story, HandledMeansCaptured, Live
<1> QED
  BY <1>1, <1>2, <1>3, <1>4 DEF Story

\* A step of a capture in which it stays, or becomes, bound to a newer copy.
LEMMA Within ==
    ASSUME TypeOK, Story, pc \notin {"send", "stopped"}, pc' \in Bound,
           UNCHANGED <<copies, handled, queued, writtenOff, baseline>>,
           handled < capture'.expected, capture'.expected <= Live,
           capture'.seen \subseteq capture'.expected .. Live,
           Steady', Whole'
    PROVE  Story'
<1>1. Order'
  BY DEF Story, Order, Live, Bound
<1>3. QueueFollowsTheClipboard'
  BY DEF Story, QueueFollowsTheClipboard, OneCopyPerEvent, QueuedOnceInOrder
<1>4. HandledMeansCaptured'
  BY DEF Story, HandledMeansCaptured, Live
<1> QED
  BY <1>1, <1>3, <1>4 DEF Story

\* The end of a capture that marks its copy handled: written off, or nothing to read.
LEMMA Settled ==
    ASSUME TypeOK, Story, pc \in Bound, pc' \in {"listen", "loop"},
           handled' = capture.expected,
           UNCHANGED <<copies, queued, baseline>>, writtenOff \subseteq writtenOff',
           capture.expected \in writtenOff' \/ ~Readable(copies[capture.expected])
    PROVE  Story'
<1>1. Order'
  <2>1. capture.expected \in Nat /\ handled \in Nat /\ Live \in Nat
    BY CaptureFields, LiveFacts DEF TypeOK
  <2>2. \A i \in DOMAIN queued : queued[i].sequence \in Nat
    BY QueueFacts
  <2> QED
    BY <2>1, <2>2 DEF Story, Order, Live, Bound
<1>2. Steady' /\ Whole'
  BY DEF Steady, Whole, Bound, Marked, Read
<1>3. QueueFollowsTheClipboard'
  BY DEF Story, QueueFollowsTheClipboard, OneCopyPerEvent, QueuedOnceInOrder
<1>4. HandledMeansCaptured'
  BY DEF HandledMeansCaptured, Readable
<1> QED
  BY <1>1, <1>2, <1>3, <1>4 DEF Story

\* A capture that settles on an event.
LEMMA ToSend ==
    ASSUME TypeOK, Story, pc \in Bound, pc' = "send", handled' = capture.expected,
           UNCHANGED <<capture, copies, queued, writtenOff, baseline>>,
           IF capture.verdict = "cleared" THEN Blank(copies[capture.expected]) ELSE OneCopy
    PROVE  Story'
<1>1. Order'
  <2>1. capture.expected \in Nat /\ handled \in Nat /\ Live \in Nat
    BY CaptureFields, LiveFacts DEF TypeOK
  <2>2. \A i \in DOMAIN queued : queued[i].sequence \in Nat
    BY QueueFacts
  <2> QED
    BY <2>1, <2>2 DEF Story, Order, Live, Bound
<1>2. Steady' /\ Whole'
  BY DEF Steady, Whole, OneCopy, Bound, Marked, Read
<1>3. QueueFollowsTheClipboard'
  BY DEF Story, QueueFollowsTheClipboard, OneCopyPerEvent, QueuedOnceInOrder
<1>4. HandledMeansCaptured'
  BY DEF HandledMeansCaptured
<1> QED
  BY <1>1, <1>2, <1>3, <1>4 DEF Story

\* A new copy: what was captured of the others is still true of them.
LEMMA CopyStory ==
    ASSUME TypeOK, TypeOK', Story, NEW kind \in Kinds, Copy(kind)
    PROVE  Story'
<1>1. Live \in Nat /\ Live' = Live + 1 /\ \A n \in 1 .. Live : copies'[n] = copies[n]
  BY LiveFacts, Limits, AppendProperties DEF TypeOK, Copy, Live
<1>2. UNCHANGED <<pc, capture, handled, queued, writtenOff, baseline>>
  BY DEF Copy, health, history
<1>3. capture.expected \in Nat /\ handled \in Nat
  BY CaptureFields, LiveFacts DEF TypeOK
<1>4. \A i \in DOMAIN queued : queued[i].sequence \in 1 .. Live
  <2>1. \A i \in DOMAIN queued : queued[i].sequence \in Nat /\ queued[i].sequence > 0
    BY QueueFacts
  <2> QED
    BY <1>1, <1>3, <2>1 DEF Story, Order
<1>5. Order'
  BY <1>1, <1>2, <1>3 DEF Story, Order, Bound
<1>6. pc \in Bound \cup {"send"} => capture.expected \in 1 .. Live
  BY <1>1, <1>3 DEF Story, Order
<1>7. Steady'
  BY <1>1, <1>2, <1>6 DEF Steady, Bound, Marked, Read
<1>8. Whole'
  BY <1>1, <1>2, <1>6 DEF Story, Whole, OneCopy, Bound, Read
<1>9. QueueFollowsTheClipboard'
  BY <1>1, <1>2, <1>4 DEF Story, QueueFollowsTheClipboard, OneCopyPerEvent, QueuedOnceInOrder
<1>10. HandledMeansCaptured'
  BY <1>1, <1>2, <1>3 DEF Story, Order, HandledMeansCaptured
<1> QED
  BY <1>5, <1>7, <1>8, <1>9, <1>10 DEF Story

\* The event of a capture joins the queue: newer than all before it.
LEMMA SendStory ==
    ASSUME TypeOK, TypeOK', Story, Send
    PROVE  Story'
<1> DEFINE event == [sequence |-> capture.expected,
                     cleared |-> capture.verdict = "cleared",
                     sensitive |-> capture.sensitive,
                     seen |-> capture.seen]
<1>1. /\ queued \in Seq([sequence : Sequences, cleared : BOOLEAN,
                         sensitive : BOOLEAN, seen : SUBSET Sequences])
      /\ event \in [sequence : Sequences, cleared : BOOLEAN,
                    sensitive : BOOLEAN, seen : SUBSET Sequences]
  <2>1. capture.expected \in Sequences
    BY CaptureFields, LiveFacts DEF TypeOK, Story, Order, Send, Sequences
  <2> QED
    BY <2>1, CaptureFields DEF TypeOK
<1>2. queued' = Append(queued, event)
  BY DEF Send
<1> HIDE DEF event
<1>3. /\ Len(queued) \in Nat /\ DOMAIN queued = 1 .. Len(queued)
      /\ DOMAIN queued' = 1 .. Len(queued) + 1
      /\ \A i \in 1 .. Len(queued) : queued'[i] = queued[i]
      /\ queued'[Len(queued) + 1] = event
  BY <1>1, <1>2, AppendProperties, LenProperties
<1>4. event.sequence = capture.expected
      /\ (event.cleared <=> capture.verdict = "cleared")
      /\ event.sensitive = capture.sensitive /\ event.seen = capture.seen
  BY DEF event
<1>5. pc' \in {"listen", "loop"} /\ pc = "send"
      /\ UNCHANGED <<copies, handled, writtenOff, baseline>>
  BY ReturnTypes DEF Send, CaptureOnly, environment, health
<1>6. \A i \in DOMAIN queued : queued[i].sequence \in Nat /\ queued[i].sequence < event.sequence
  <2>1. \A i \in DOMAIN queued : queued[i].sequence \in Nat
    BY QueueFacts
  <2> QED
    BY <1>4, <1>5, <2>1 DEF Story, Order
<1>7. event.sequence = handled /\ handled \in Nat
  BY <1>4, <1>5, LiveFacts DEF Story, Order
<1>8. Order'
  <2>1. \A i \in DOMAIN queued' : queued'[i].sequence <= handled
    BY <1>3, <1>6, <1>7
  <2> QED
    BY <1>5, <2>1 DEF Story, Order, Bound, Live
<1>9. Steady' /\ Whole'
  BY <1>5 DEF Steady, Whole, Bound, Marked, Read
<1>10. OneCopyPerEvent'
  <2>1. IF event.cleared THEN Blank(copies[event.sequence])
        ELSE /\ event.seen = {event.sequence}
             /\ copies[event.sequence] = "secret" => event.sensitive
    BY <1>4, <1>5 DEF Story, Whole, OneCopy
  <2> QED
    BY <1>3, <1>5, <2>1 DEF Story, QueueFollowsTheClipboard, OneCopyPerEvent
<1>11. QueuedOnceInOrder'
  BY <1>3, <1>6 DEF Story, QueueFollowsTheClipboard, QueuedOnceInOrder
<1>12. HandledMeansCaptured'
  <2>1. Len(queued) + 1 \in DOMAIN queued' /\ queued'[Len(queued) + 1].sequence = handled
    BY <1>3, <1>7
  <2> QED
    BY <1>5, <2>1 DEF HandledMeansCaptured
<1> QED
  BY <1>8, <1>9, <1>10, <1>11, <1>12 DEF Story, QueueFollowsTheClipboard

\* Rebinding, writing off and deferring, from wherever the capture is.
LEMMA RebindStory ==
    ASSUME TypeOK, Story, pc \in Bound, Rebind, UNCHANGED copies
    PROVE  Story'
BY RebindTypes, Away DEF Rebind, Bound, history

\* A capture that queues nothing marks its event handled only if nothing was to be queued.
LEMMA ReportStory ==
    ASSUME TypeOK, Story, pc \in Bound, Report, Return, UNCHANGED copies
    PROVE  Story'
BY ReturnTypes, Settled DEF Report, Note

\* A deferred event stays to be handled, or is given up after its last attempt.
LEMMA DeferStory ==
    ASSUME TypeOK, Story, pc \in Bound, DeferOrExhaust, Return, UNCHANGED copies
    PROVE  Story'
<1>1. CASE UNCHANGED <<handled, writtenOff>>
  BY <1>1, ReturnTypes, Away DEF DeferOrExhaust, Bound
<1>2. CASE Note(capture.expected) /\ writtenOff' = writtenOff \cup {capture.expected}
  BY <1>2, ReturnTypes, Settled DEF DeferOrExhaust, Note
<1> QED
  BY <1>1, <1>2 DEF DeferOrExhaust

\* A read that stays within its capture: what it finds is of the copy or a later one.
LEMMA ReadOn ==
    ASSUME TypeOK, Story, pc \in Bound, pc' \in Bound,
           UNCHANGED <<copies, handled, queued, writtenOff, baseline>>,
           capture'.expected = capture.expected,
           capture'.seen \subseteq capture.seen \cup {Live},
           Steady', Whole'
    PROVE  Story'
<1>1. capture.expected \in Nat /\ Live \in Nat
  BY LiveFacts, CaptureFields DEF TypeOK
<1>2. /\ handled < capture.expected /\ capture.expected <= Live
      /\ capture.seen \cup {Live} \subseteq capture.expected .. Live
  BY <1>1 DEF Story, Order
<1> QED
  BY <1>2, Within DEF Bound

\* Every step keeps the story true.
LEMMA StoryStep ==
    ASSUME TypeOK, TypeOK', Story, [Next]_vars
    PROVE  Story'
<1>1. CASE Start
  BY <1>1, Away DEF Start, BeginCapture, Bound, environment, session, health, history
<1>2. CASE CreateMonitor
  BY <1>2, Away DEF CreateMonitor, BeginCapture, Bound, environment, session, health, history
<1>3. CASE CreateFails
  BY <1>3, Away DEF CreateFails, BeginCapture, Bound, environment, session, health, history
<1>4. CASE CatchUp
  <2>1. UNCHANGED <<copies, queued, writtenOff>> /\ pc = "catchup"
    BY <1>4 DEF CatchUp, environment
  <2>2. CASE Note(Live) /\ baseline' = Live /\ pc' = "listen"
    <3>1. handled \in Nat /\ Live \in Nat /\ handled <= Live
      BY LiveFacts DEF Story, Order
    <3>2. Order'
      <4>1. \A i \in DOMAIN queued : queued[i].sequence \in Nat
        BY QueueFacts
      <4> QED
        BY <2>1, <2>2, <3>1, <4>1 DEF Story, Order, Note, Bound, Live
    <3>3. Steady' /\ Whole'
      BY <2>2 DEF Steady, Whole, Bound, Marked, Read
    <3>4. QueueFollowsTheClipboard'
      BY <2>1 DEF Story, QueueFollowsTheClipboard, OneCopyPerEvent, QueuedOnceInOrder
    <3>5. HandledMeansCaptured'
      BY <2>2, <3>1 DEF HandledMeansCaptured, Note
    <3> QED
      BY <3>2, <3>3, <3>4, <3>5 DEF Story
  <2>3. CASE UNCHANGED <<handled, baseline>> /\ pc' \in {"bind", "listen"}
    BY <2>1, <2>3, Away DEF Bound
  <2> QED
    BY <1>4, <2>2, <2>3 DEF CatchUp, BeginCapture
<1>5. CASE Listen
  BY <1>5, Away DEF Listen, BeginCapture, Bound, environment, session, health, history
<1>6. CASE CheckSlot
  BY <1>6, Away DEF CheckSlot, BeginCapture, Bound, environment, session, health, history
<1>7. CASE ReceiveNotification
  BY <1>7, Away DEF ReceiveNotification, BeginCapture, Bound, environment, session, health, history
<1>8. CASE ReceiveShutdown
  BY <1>8, Away DEF ReceiveShutdown, BeginCapture, Bound, environment, session, health, history
<1>9. CASE ReceiveFails
  BY <1>9, Away DEF ReceiveFails, BeginCapture, Bound, environment, session, health, history
<1>10. CASE ExitSession
  BY <1>10, Away DEF ExitSession, BeginCapture, Bound, environment, session, health, history
<1>11. CASE Bind
  <2>1. UNCHANGED <<copies, handled, queued, writtenOff, baseline>> /\ pc = "bind"
    BY <1>11 DEF Bind, CaptureOnly, ReadOnly, environment, health, history
  <2>2. CASE Return
    BY <2>1, <2>2, ReturnTypes, Away DEF Bound
  <2>3. CASE /\ Live # handled /\ pc' = "formats"
             /\ capture' = [capture EXCEPT !.expected = Live, !.seen = {}, !.reads = 0]
    <3>1. capture'.expected = Live /\ capture'.seen = {}
      BY <2>3 DEF TypeOK, Captures
    <3>2. handled < Live /\ Live <= Live
      BY <2>3, LiveFacts DEF Story, Order
    <3>3. Steady' /\ Whole'
      BY <2>3 DEF Steady, Whole, Bound, Marked, Read
    <3> QED
      BY <2>1, <2>3, <3>1, <3>2, <3>3, Within DEF Bound
  <2> QED
    BY <1>11, <2>2, <2>3 DEF Bind
<1>12. CASE ReadFormats
  <2>1. /\ capture'.expected = capture.expected
        /\ capture'.seen = capture.seen \cup {Live}
        /\ capture'.formats = LiveKind /\ capture'.verdict = "cleared"
    BY <1>12 DEF ReadFormats, TypeOK, Captures
  <2>2. pc \in Bound /\ pc' \in Bound
        /\ UNCHANGED <<copies, handled, queued, writtenOff, baseline>>
    BY <1>12 DEF ReadFormats, Bound, CaptureOnly, ReadOnly, environment, session, health, history
  <2>3. Steady'
    BY <1>12, <2>1, <2>2 DEF ReadFormats, Story, Steady, Bound, Marked, Read, Live, LiveKind, Blank
  <2>4. Whole'
    BY <1>12, <2>1, <2>2 DEF ReadFormats, Story, Whole, Bound, Read, Blank
  <2> QED
    BY <2>1, <2>2, <2>3, <2>4, ReadOn
<1>13. CASE ReadMarkers
  <2>1. pc \in Bound /\ UNCHANGED copies
    BY <1>13 DEF ReadMarkers, Bound, CaptureOnly, environment
  <2>2. CASE Report /\ Return
    BY <2>1, <2>2, ReportStory
  <2>3. CASE DeferOrExhaust /\ Return
    BY <2>1, <2>3, DeferStory
  <2>4. CASE /\ capture' = [capture EXCEPT !.sensitive = (LiveKind = "secret"),
                                           !.seen = @ \cup {Live}]
             /\ pc' = "markersCheck"
             /\ UNCHANGED <<health, history>>
    <3> DEFINE secret == LiveKind = "secret"
    <3>1. /\ capture'.expected = capture.expected
          /\ capture'.seen = capture.seen \cup {Live}
          /\ capture'.formats = capture.formats
          /\ capture'.sensitive = secret
      <4>1. capture' = [capture EXCEPT !.sensitive = secret, !.seen = @ \cup {Live}]
        BY <2>4
      <4> HIDE DEF secret
      <4> QED
        BY <4>1 DEF TypeOK, Captures
    <3>2. Steady'
      BY <1>13, <2>1, <2>4, <3>1
         DEF ReadMarkers, Story, Steady, Bound, Marked, Read, Live, LiveKind
    <3>3. Whole'
      BY <2>4, <3>1 DEF Whole, Read
    <3> QED
      BY <2>1, <2>4, <3>1, <3>2, <3>3, ReadOn DEF Bound, health, history
  <2> QED
    BY <1>13, <2>2, <2>3, <2>4 DEF ReadMarkers
<1>14. CASE CheckMarkers
  <2>1. CASE Rebind
    BY <1>14, <2>1, RebindStory DEF CheckMarkers, Bound, CaptureOnly, environment
  <2>2. CASE Live = capture.expected /\ pc' = "supported" /\ UNCHANGED <<capture, health, history>>
    <3>1. pc \in Bound /\ pc' \in Bound
          /\ UNCHANGED <<copies, handled, queued, writtenOff, baseline>>
      BY <1>14, <2>2 DEF CheckMarkers, Bound, CaptureOnly, environment, health, history
    <3>2. Steady'
      BY <1>14, <2>2, <3>1 DEF CheckMarkers, Story, Steady, Bound, Marked, Read, Live, LiveKind
    <3>3. Whole'
      BY <1>14, <2>2, <3>1 DEF CheckMarkers, Story, Whole, Bound, Read
    <3> QED
      BY <2>2, <3>1, <3>2, <3>3, ReadOn
  <2>3. CASE /\ Live = capture.expected /\ FileOnly(capture.formats)
             /\ Note(capture.expected) /\ Return /\ UNCHANGED history
    <3>1. pc \in Bound \ {"formats"} /\ UNCHANGED copies
      BY <1>14 DEF CheckMarkers, Bound, CaptureOnly, environment
    <3>2. ~Readable(copies[capture.expected])
      BY <2>3, <3>1 DEF Story, Steady, FileOnly, Readable, LiveKind
    <3> QED
      BY <2>3, <3>1, <3>2, ReturnTypes, Settled DEF Note, history
  <2> QED
    BY <1>14, <2>1, <2>2, <2>3 DEF CheckMarkers
<1>15. CASE CheckSupported
  <2>1. /\ capture'.expected = capture.expected /\ capture'.seen = capture.seen
        /\ capture'.formats = capture.formats /\ capture'.sensitive = capture.sensitive
    BY <1>15 DEF CheckSupported, TypeOK, Captures
  <2>2. pc \in Bound /\ pc' \in Bound
        /\ UNCHANGED <<copies, handled, queued, writtenOff, baseline>>
    BY <1>15 DEF CheckSupported, Bound, CaptureOnly, ReadOnly, environment, health, history
  <2>3. capture'.verdict = "ignored"
    BY <1>15 DEF CheckSupported, TypeOK, Captures
  <2>4. Steady'
    BY <1>15, <2>1, <2>2, <2>3 DEF CheckSupported, Story, Steady, Bound, Marked, Read, Live,
       LiveKind, Supported, Readable
  <2>5. Whole'
    BY <1>15, <2>1, <2>2 DEF CheckSupported, Story, Whole, Bound, Read
  <2> QED
    BY <2>1, <2>2, <2>4, <2>5, ReadOn
<1>16. CASE GuardRead
  <2>1. CASE Rebind
    BY <1>16, <2>1, RebindStory DEF GuardRead, Bound, CaptureOnly, environment
  <2>2. CASE Live = capture.expected /\ pc' = "read" /\ UNCHANGED <<capture, health, history>>
    <3>1. pc \in Bound /\ pc' \in Bound
          /\ UNCHANGED <<copies, handled, queued, writtenOff, baseline>>
      BY <1>16, <2>2 DEF GuardRead, Bound, CaptureOnly, environment, health, history
    <3>2. Steady'
      BY <1>16, <2>2, <3>1 DEF GuardRead, Story, Steady, Bound, Marked, Read, Live, LiveKind
    <3>3. Whole'
      BY <1>16, <2>2, <3>1 DEF GuardRead, Story, Whole, Bound, Read
    <3> QED
      BY <2>2, <3>1, <3>2, <3>3, ReadOn
  <2> QED
    BY <1>16, <2>1, <2>2 DEF GuardRead
<1>17. CASE ReadFormat
  <2>1. /\ capture'.expected = capture.expected
        /\ capture'.seen = capture.seen \cup {Live}
        /\ capture'.formats = capture.formats /\ capture'.sensitive = capture.sensitive
    BY <1>17 DEF ReadFormat, TypeOK, Captures
  <2>2. pc \in Bound /\ pc' \in Bound
        /\ UNCHANGED <<copies, handled, queued, writtenOff, baseline>>
    BY <1>17 DEF ReadFormat, Bound, CaptureOnly, ReadOnly, environment, session, health, history
  <2>3. Steady'
    BY <1>17, <2>1, <2>2 DEF ReadFormat, Story, Steady, Bound, Marked, Read, Live, LiveKind
  <2>4. Whole'
    BY <1>17, <2>1, <2>2 DEF ReadFormat, Story, Whole, Bound, Read
  <2> QED
    BY <2>1, <2>2, <2>3, <2>4, ReadOn
<1>18. CASE FinishRead
  <2>1. /\ capture'.expected = capture.expected
        /\ capture'.seen = capture.seen \cup {Live}
        /\ capture'.formats = capture.formats /\ capture'.sensitive = capture.sensitive
        /\ capture'.verdict \in ReadOutcomes(LiveKind)
    BY <1>18 DEF FinishRead, TypeOK, Captures
  <2>2. pc \in Bound /\ pc' \in Bound
        /\ UNCHANGED <<copies, handled, queued, writtenOff, baseline>>
    BY <1>18 DEF FinishRead, Bound, CaptureOnly, ReadOnly, environment, session, health, history
  <2>3. Steady'
    BY <1>18, <2>1, <2>2 DEF FinishRead, Story, Steady, Bound, Marked, Read, Live, LiveKind,
       ReadOutcomes
  <2>4. Whole'
    BY <1>18, <2>1, <2>2 DEF FinishRead, Story, Whole, Bound, Read, ReadOutcomes
  <2> QED
    BY <2>1, <2>2, <2>3, <2>4, ReadOn
<1>19. CASE CheckRead
  <2>1. CASE Rebind
    BY <1>19, <2>1, RebindStory DEF CheckRead, Bound, CaptureOnly, environment
  <2>2. ASSUME UNCHANGED <<capture, health, history>>, pc' \in {"materialize", "settle"},
               pc' = "settle" => Live = capture.expected
        PROVE  Story'
    <3>1. pc \in Bound /\ pc = "readCheck" /\ pc' \in Bound
          /\ UNCHANGED <<copies, handled, queued, writtenOff, baseline, capture>>
      BY <1>19, <2>2 DEF CheckRead, Bound, CaptureOnly, environment, health, history
    <3>2. Steady'
      BY <2>2, <3>1 DEF Story, Steady, Bound, Marked, Read, Live, LiveKind
    <3>3. pc' = "settle" => OneCopy
      <4>1. SUFFICES ASSUME Live = capture.expected
                     PROVE  OneCopy
        BY <2>2
      <4>2. capture.seen = {capture.expected}
        BY <3>1, <4>1, LiveFacts DEF Story, Order, Whole, Bound
      <4>3. copies[capture.expected] = "secret" => capture.sensitive
        BY <3>1, <4>1 DEF Story, Steady, Marked, LiveKind
      <4> QED
        BY <4>2, <4>3 DEF OneCopy
    <3>4. Whole'
      BY <2>2, <3>1, <3>3 DEF Story, Whole, OneCopy, Bound, Read
    <3> QED
      BY <3>1, <3>2, <3>4, ReadOn
  <2>3. CASE pc' = "materialize" /\ UNCHANGED <<capture, health, history>>
    BY <2>2, <2>3
  <2>4. CASE Live = capture.expected /\ pc' = "settle" /\ UNCHANGED <<capture, health, history>>
    BY <2>2, <2>4
  <2> QED
    BY <1>19, <2>1, <2>3, <2>4 DEF CheckRead
<1>20. CASE QueueCapture
  <2>1. OneCopy
    BY <1>20 DEF QueueCapture, Story, Whole
  <2> QED
    BY <1>20, <2>1, ToSend DEF QueueCapture, Note, Bound, CaptureOnly, environment, history
<1>21. CASE Settle
  <2>1. PICK cleared \in IF LiveKind = "emptyText" THEN BOOLEAN ELSE {Blank(LiveKind)} :
          capture' =
            [capture EXCEPT !.verdict =
               IF @ = "unresponsive" \/ (@ = "transient" /\ capture.formats = "hybrid")
                 THEN @
               ELSE IF cleared THEN "cleared"
               ELSE IF @ = "transient" /\ Supported(LiveKind) THEN @
               ELSE "ignored"]
    BY <1>21 DEF Settle
  <2>2. /\ capture'.expected = capture.expected /\ capture'.seen = capture.seen
        /\ capture'.formats = capture.formats /\ capture'.sensitive = capture.sensitive
        /\ capture'.verdict =
             IF capture.verdict = "unresponsive"
                \/ (capture.verdict = "transient" /\ capture.formats = "hybrid")
               THEN capture.verdict
             ELSE IF cleared THEN "cleared"
             ELSE IF capture.verdict = "transient" /\ Supported(LiveKind) THEN capture.verdict
             ELSE "ignored"
    BY <2>1 DEF TypeOK, Captures
  <2>3. pc = "settle" /\ pc' = "confirm" /\ capture.verdict # "captured"
        /\ UNCHANGED <<copies, handled, queued, writtenOff, baseline>>
    BY <1>21 DEF Settle, CaptureOnly, ReadOnly, environment, health, history
  <2>4. capture.verdict \in {"transient", "unresponsive", "miss"}
    BY <2>3 DEF Story, Whole, Read
  <2>5. capture'.verdict = "cleared" => Blank(LiveKind)
    <3>1. CASE LiveKind = "emptyText"
      BY <3>1 DEF Blank
    <3>2. CASE LiveKind # "emptyText"
      <4>1. cleared = Blank(LiveKind)
        BY <3>2
      <4> HIDE DEF Blank
      <4> QED
        BY <2>2, <2>4, <4>1
    <3> QED
      BY <3>1, <3>2
  <2>6. capture'.verdict = "ignored" /\ capture.expected = Live => ~Readable(LiveKind)
    <3>1. capture.expected = Live => capture.verdict \in ReadOutcomes(LiveKind)
      BY <2>3 DEF Story, Steady, Read
    <3> QED
      BY <2>2, <2>3, <2>4, <3>1 DEF Readable, ReadOutcomes, Supported
  <2>7. Steady'
    BY <2>2, <2>3, <2>5, <2>6 DEF Story, Steady, Bound, Marked, Read, Live, LiveKind
  <2>8. Whole'
    BY <2>2, <2>3 DEF Story, Whole, Bound, Read
  <2> QED
    BY <2>2, <2>3, <2>7, <2>8, ReadOn DEF Bound
<1>22. CASE Confirm
  <2>1. pc \in Bound /\ pc = "confirm" /\ UNCHANGED copies
    BY <1>22 DEF Confirm, Bound, CaptureOnly, environment
  <2>2. CASE Rebind
    BY <2>1, <2>2, RebindStory
  <2>3. CASE /\ Live = capture.expected /\ capture.verdict = "cleared"
             /\ Note(capture.expected) /\ pc' = "send" /\ UNCHANGED <<history, capture>>
    <3>1. Blank(copies[capture.expected])
      BY <2>1, <2>3 DEF Story, Steady, LiveKind
    <3> QED
      BY <2>1, <2>3, <3>1, ToSend DEF Note, history
  <2>4. CASE /\ Live = capture.expected /\ capture.verdict = "ignored"
             /\ Note(capture.expected) /\ Return /\ UNCHANGED history
    <3>1. ~Readable(copies[capture.expected])
      BY <2>1, <2>4 DEF Story, Steady, LiveKind
    <3> QED
      BY <2>1, <2>4, <3>1, ReturnTypes, Settled DEF Note, history
  <2>5. CASE Report /\ Return
    BY <2>1, <2>5, ReportStory
  <2>6. CASE DeferOrExhaust /\ Return
    BY <2>1, <2>6, DeferStory
  <2> QED
    BY <1>22, <2>2, <2>3, <2>4, <2>5, <2>6 DEF Confirm
<1>23. CASE Send
  BY <1>23, SendStory
<1>24. CASE SendFails
  <2>1. pc = "send" /\ pc' = "stopped"
        /\ UNCHANGED <<copies, handled, queued, writtenOff, baseline, capture>>
    BY <1>24 DEF SendFails, environment, health, history
  <2>2. Order'
    BY <2>1 DEF Story, Order, Bound, Live
  <2>3. Steady' /\ Whole'
    BY <2>1 DEF Steady, Whole, Bound, Marked, Read
  <2>4. QueueFollowsTheClipboard'
    BY <2>1 DEF Story, QueueFollowsTheClipboard, OneCopyPerEvent, QueuedOnceInOrder
  <2>5. HandledMeansCaptured'
    BY <2>1 DEF Story, HandledMeansCaptured, Live
  <2> QED
    BY <2>2, <2>3, <2>4, <2>5 DEF Story
<1>25. CASE GoDeaf
  BY <1>25, SamePlace DEF GoDeaf, environment, session, health, history
<1>26. CASE Tick
  BY <1>26, SamePlace DEF Tick, environment, session, health, history
<1>27. CASE WatchdogDecides
  BY <1>27, SamePlace DEF WatchdogDecides, environment, session, health, history
<1>28. CASE WatchdogRequests
  BY <1>28, SamePlace DEF WatchdogRequests, environment, session, health, history
<1>29. ASSUME NEW kind \in Kinds, Copy(kind)
       PROVE  Story'
  BY <1>29, CopyStory
<1>30. CASE UNCHANGED vars
  BY <1>30, SamePlace DEF vars
<1> QED
  BY <1>1, <1>2, <1>3, <1>4, <1>5, <1>6, <1>7, <1>8, <1>9, <1>10, <1>11, <1>12, <1>13, <1>14,
     <1>15, <1>16, <1>17, <1>18, <1>19, <1>20, <1>21, <1>22, <1>23, <1>24, <1>25, <1>26, <1>27,
     <1>28, <1>29, <1>30 DEF Next, Supervisor, CaptureStep

----------------------------------------------------------------------------
(* The theorems.                                                           *)

\* The invariant holds at first.
LEMMA Initially == Init => IInv
<1> SUFFICES ASSUME Init
             PROVE  IInv
  OBVIOUS
<1>1. PICK k \in AllKinds : copies = <<k>>
  BY Limits DEF Init
<1>2. copies \in Seq(AllKinds) /\ Len(copies) = 1 /\ copies[1] = k
  BY <1>1
<1>3. TypeOK
  <2>1. Len(copies) \in Sequences /\ 0 \in 0 .. MaxCopies /\ 0 \in 0 .. MaxCopies + 1
        /\ 0 \in 0 .. MaxFailures /\ StaleAfter \in 0 .. StaleAfter
        /\ [sequence |-> 0, attempts |-> 0]
             \in [sequence : 0 .. MaxCopies + 1, attempts : 0 .. MaxDeferrals]
    BY <1>2, Limits DEF Sequences
  <2>2. queued \in Seq([sequence : Sequences, cleared : BOOLEAN,
                       sensitive : BOOLEAN, seen : SUBSET Sequences])
    BY DEF Init
  <2> QED
    BY <1>2, <2>1, <2>2, FreshCapture DEF TypeOK, Init, Pcs
<1>4. Budget
  BY <1>2, Limits DEF Init, Budget, Live
<1>5. Story
  BY <1>2 DEF Init, Story, Order, Steady, Whole, QueueFollowsTheClipboard, OneCopyPerEvent,
     QueuedOnceInOrder, HandledMeansCaptured, Live, Bound, Marked, Read
<1> QED
  BY <1>3, <1>4, <1>5 DEF IInv

\* And every step keeps it.
LEMMA Inductive == IInv /\ [Next]_vars => IInv'
BY TypeStep, BudgetStep, StoryStep DEF IInv, Story

\* The inductive invariant holds throughout (run_listener_session).
THEOREM Invariance == Spec => []IInv
BY Initially, Inductive, PTL DEF Spec

\* Attempts stay within their budgets (MAX_SEQUENCE_BIND_ATTEMPTS, the reads of
\* materialize_with_sequence_guard, MAX_DEFERRALS_PER_SEQUENCE), however copies,
\* failures and restarts fall.
THEOREM TypeCorrect == Spec => []TypeOK
BY Invariance, PTL DEF IInv

\* What run_listener_session queues tells the story of the clipboard: each event is of
\* one copy, with its markers, in the order of the copies and only once.
THEOREM AlwaysFollows == Spec => []QueueFollowsTheClipboard
<1>1. IInv => QueueFollowsTheClipboard
  BY DEF IInv, Story
<1> QED
  BY <1>1, Invariance, PTL

\* capture_clipboard_update marks no copy Cubby can read handled that it neither queued
\* nor wrote off.
THEOREM AlwaysCaptured == Spec => []HandledMeansCaptured
<1>1. IInv => HandledMeansCaptured
  BY DEF IInv, Story
<1> QED
  BY <1>1, Invariance, PTL
=============================================================================
