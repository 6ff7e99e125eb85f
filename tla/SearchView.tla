----------------------------- MODULE SearchView -----------------------------
(***************************************************************************)
(* What the in-memory search index promises, without saying how it is      *)
(* built: a view of the history that is either unavailable or complete.    *)
(*                                                                         *)
(* Writers change a row first and tell the view afterwards, so a row may   *)
(* be owed to the view.  A row two writers changed at once is contested:   *)
(* nobody orders their messages, and only the next fill settles it.  For   *)
(* every other row the view, when there is one, has the row as it is.      *)
(* What a deleted row leaves behind in the view is not promised: readers   *)
(* ask the database again (SearchIndex).                                   *)
(***************************************************************************)
CONSTANTS
    Clips,      \* clip uuids
    Docs        \* what a row says, as far as a search can tell

CONSTANTS
    Gone,       \* no visible row, not in Docs
    None        \* the view is not built, not a function

VARIABLES
    rows,       \* the visible rows of the history
    view,       \* None, or what a search sees
    owed,       \* clips changed since their last message to the view was sent
    contested   \* clips whose messages may have crossed

viewVars == <<rows, view, owed, contested>>

ViewTypeOK ==
    /\ rows \in [Clips -> Docs \cup {Gone}]
    /\ view \in [Clips -> Docs \cup {Gone}] \cup {None}
    /\ owed \subseteq Clips
    /\ contested \subseteq Clips

\* The promise: every row that nobody is busy with is in the view as it is.
Complete ==
    view # None =>
        \A c \in Clips \ (owed \cup contested) : rows[c] # Gone => view[c] = rows[c]

Init ==
    /\ rows \in [Clips -> Docs \cup {Gone}]
    /\ view = None
    /\ owed = {} /\ contested = {}

\* Rows change and their messages are owed; a row that was owed already, or that
\* comes back from a soft delete, is contested.
Change(S) ==
    /\ rows' \in [Clips -> Docs \cup {Gone}]
    /\ \A c \in Clips \ S : rows'[c] = rows[c]
    /\ owed' = owed \cup S
    /\ contested' \in SUBSET Clips
    /\ contested \subseteq contested'
    /\ contested' \subseteq contested \cup S
    /\ S \cap owed \subseteq contested'
    /\ UNCHANGED view

\* A message arrives.  An owed clip gets the row it was sent for; a contested one
\* any row.
Tell(c, more) ==
    /\ view' \in IF view = None THEN {None}
                 ELSE { [view EXCEPT ![c] = d] : d \in Docs \cup {Gone} }
    /\ owed' = IF more THEN owed ELSE owed \ {c}
    /\ c \notin owed' \cup contested /\ view # None /\ rows[c] # Gone
          => view'[c] = rows[c]
    /\ UNCHANGED <<rows, contested>>

\* A message that makes the view unavailable.
Drop(S) ==
    /\ view' = None
    /\ owed' \in SUBSET owed
    /\ owed \ owed' \subseteq S
    /\ UNCHANGED <<rows, contested>>

\* A change is given up before its message was sent: a new row is taken back, any
\* other is what it was.
GiveUp(c) ==
    /\ rows' \in {rows, [rows EXCEPT ![c] = Gone]}
    /\ owed' \in {owed, owed \ {c}}
    /\ c \notin owed' \cup contested /\ view # None /\ rows'[c] # Gone
          => view[c] = rows'[c]
    /\ UNCHANGED <<view, contested>>

\* The view is built in one step, complete but for the clips someone is busy with,
\* which settles what was contested.
Fill ==
    /\ view = None
    /\ view' \in [Clips -> Docs \cup {Gone}]
    /\ contested' \in SUBSET contested
    /\ \A c \in Clips \ (owed \cup contested') : rows[c] # Gone => view'[c] = rows[c]
    /\ UNCHANGED <<rows, owed>>

Next ==
    \/ \E S \in SUBSET Clips : Change(S) \/ Drop(S)
    \/ \E c \in Clips : GiveUp(c) \/ \E more \in BOOLEAN : Tell(c, more)
    \/ Fill

Spec == Init /\ [][Next]_viewVars
=============================================================================
