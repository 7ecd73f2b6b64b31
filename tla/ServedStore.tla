----------------------------- MODULE ServedStore ----------------------------
(***************************************************************************)
(* What the phased migration promises to the service: there is one store;  *)
(* at one moment it is handed over from SQLite to PostgreSQL, with all its *)
(* rows, but for the digits of a time that PostgreSQL does not keep.  The  *)
(* events may follow later: until the migration is complete, the service   *)
(* sees a part of the history and all events it has added since.           *)
(***************************************************************************)
EXTENDS Naturals

CONSTANTS
    Ids, Row, Absent, Tables, Content,
    Kept,       \* what PostgreSQL keeps of a request
    KeptSmall   \* and of another table

VARIABLES
    owner,      \* "sqlite" or "postgres"
    rows,       \* runner_requests
    small,      \* the other tables
    history,    \* ids of all events of runner_events, wherever they are
    shown,      \* those in the database of the owner
    complete    \* the migration says that nothing is missing

vars == <<owner, rows, small, history, shown, complete>>

Init ==
    /\ owner = "sqlite"
    /\ rows \in [Ids -> Row \cup {Absent}]
    /\ small \in [Tables -> Content]
    /\ history \subseteq Nat /\ shown = history
    /\ complete = FALSE

(* The service inserts, changes or deletes a request.                      *)
WriteRequest ==
    /\ \E id \in Ids, row \in Row \cup {Absent} : rows' = [rows EXCEPT ![id] = row]
    /\ UNCHANGED <<owner, small, history, shown, complete>>

(* The service changes another table.                                      *)
WriteSmall ==
    /\ \E t \in Tables, c \in Content : small' = [small EXCEPT ![t] = c]
    /\ UNCHANGED <<owner, rows, history, shown, complete>>

(* The service appends an event with an id above all others, also above    *)
(* those that it does not see yet.                                         *)
AppendEvent ==
    /\ \E e \in history' :
        /\ \A h \in history : h < e
        /\ history' = history \cup {e} /\ shown' = shown \cup {e}
    /\ UNCHANGED <<owner, rows, small, complete>>

(* PostgreSQL takes over, perhaps without some of the old events.          *)
HandOver ==
    /\ owner = "sqlite" /\ owner' = "postgres"
    /\ rows' = [id \in Ids |-> Kept[rows[id]]]
    /\ small' = [t \in Tables |-> KeptSmall[small[t]]]
    /\ shown' \subseteq shown
    /\ UNCHANGED <<history, complete>>

(* Old events come back; none goes, and none that never happened appears.  *)
Backfill ==
    /\ owner = "postgres"
    /\ shown \subseteq shown' /\ shown' \subseteq history
    /\ UNCHANGED <<owner, rows, small, history, complete>>

(* All of them are there.                                                  *)
Complete ==
    /\ owner = "postgres" /\ shown = history
    /\ complete' = TRUE
    /\ UNCHANGED <<owner, rows, small, history, shown>>

Next == WriteRequest \/ WriteSmall \/ AppendEvent \/ HandOver \/ Backfill \/ Complete

Spec == Init /\ [][Next]_vars
=============================================================================
