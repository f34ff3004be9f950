-------------------------------- MODULE SqlConn --------------------------------
(***************************************************************************)
(* The server's SQLite connections (src/sqliter.h and src/sqliter.cpp).    *)
(* Every member function of Sqlyte declares a guard, a Sqliter, which      *)
(* remembers the handle in _db, opens a new one into _db and, at its end,  *)
(* closes the one it remembered.                                           *)
(*                                                                         *)
(* Of SQLite (external) this uses that sqlite3_close leaves a connection   *)
(* open that has a statement which is not finalized, and that every open   *)
(* connection keeps a file open, of which a process may have so many.      *)
(* Values of handles are used again once they are closed.                  *)
(***************************************************************************)
EXTENDS Naturals, FiniteSets

CONSTANTS
    MaxHandles, \* the connections the process can have open
    None        \* a null handle

Handles == 1 .. MaxHandles

ASSUME HandleAssumption == MaxHandles \in Nat \ {0} /\ None \notin Handles

VARIABLES
    db,         \* _db of Sqlyte
    older,      \* _db of the guard: the handle it is going to close
    open,       \* the connections that are open
    pending,    \* those with a statement that is not finalized
    op,         \* the member function that runs, or ran last
    stage       \* what it does next; "out" when it has returned

vars == <<db, older, open, pending, op, stage>>

\* The constructor has run: _test nested in it closed the constructor's
\* connection, and the constructor's guard closed nothing.
Init ==
    /\ \E h \in Handles : db = h /\ open = {h}
    /\ older = None
    /\ pending = {}
    /\ op = "Sqlyte"
    /\ stage = "out"

\* The functions that leave a prepared statement behind, with a reset only.
Leavers == {"authorize", "store_peer", "get_pers"}

Selectors == Leavers \cup {"deny"}

\* The calls that u_server may make next: a datagram is authorized, by a
\* select that did work, before anything else is done with it; a sweep reads
\* the table and deletes from it.
Turn == {"authorize", "get_pers"}

Calls ==
    CASE op = "get_pers" -> {"del_oldies"}
      [] op = "authorize" /\ db \notin pending -> {"deny"}
      [] op = "authorize" /\ db \in pending ->
            Turn \cup {"deny", "store_peer", "remove_peer", "update_peer"}
      [] OTHER -> Turn

First(o) ==
    CASE o = "store_peer" -> "reopen"
      [] o \in Selectors -> "select"
      [] OTHER -> "change"

\* sqlite3_open(DB_FILE, &_db), or exit(1).
Open(h) ==
    /\ h \notin open
    /\ db' = h
    /\ open' = open \cup {h}

\* The guard's constructor.
Enter(o, h) ==
    /\ stage = "out"
    /\ o \in Calls
    /\ Open(h)
    /\ older' = db
    /\ op' = o
    /\ stage' = First(o)
    /\ UNCHANGED pending

\* store_peer opens one more; nobody remembers the guard's.
Reopen(h) ==
    /\ stage = "reopen"
    /\ Open(h)
    /\ stage' = "select"
    /\ UNCHANGED <<older, pending, op>>

Exit ==
    /\ stage \in {"out", "reopen"}
    /\ open = Handles
    /\ stage' = "exited"
    /\ UNCHANGED <<db, older, open, pending, op>>

\* After its select, store_peer inserts; deny and the readers are done with
\* changes of their own or none.
AfterSelect == IF op = "store_peer" THEN "insert" ELSE "leave"

\* A bug to find: every function finalizes its statement.
LeftByFinalizing == pending

\* The handles with a statement once the select is through: deny finalizes
\* its statement, the others reset theirs.
Left == IF op \in Leavers THEN pending \cup {db} ELSE pending

Select ==
    /\ stage = "select"
    /\ pending' = Left
    /\ stage' = AfterSelect
    /\ UNCHANGED <<db, older, open, op>>

\* The statement could not be prepared; there is none.
SelectFails ==
    /\ stage = "select"
    /\ stage' = AfterSelect
    /\ UNCHANGED <<db, older, open, pending, op>>

\* The INSERT of store_peer, which fails for a row that is there: then the
\* guard commits, on the handle it remembers.
Insert ==
    /\ stage = "insert"
    /\ stage' \in {"leave", "commit"}
    /\ UNCHANGED <<db, older, open, pending, op>>

Commit ==
    /\ stage = "commit"
    /\ stage' = "leave"
    /\ UNCHANGED <<db, older, open, pending, op>>

\* One DELETE or UPDATE.
Change ==
    /\ stage = "change"
    /\ stage' = "leave"
    /\ UNCHANGED <<db, older, open, pending, op>>

\* A bug to find: the guard closes what it opened.
CloseOwn == db

\* What the guard's destructor closes.
Closing == older

\* A bug to find: the connection goes away under its statements.
LeaveAtOnce ==
    /\ stage = "leave"
    /\ open' = open \ {Closing}
    /\ older' = None
    /\ stage' = "out"
    /\ UNCHANGED <<db, pending, op>>

\* The guard's destructor.
Leave ==
    /\ stage = "leave"
    /\ open' = IF Closing \in pending THEN open ELSE open \ {Closing}
    /\ older' = None
    /\ stage' = "out"
    /\ UNCHANGED <<db, pending, op>>

Next ==
    \/ \E h \in Handles : Reopen(h) \/ \E o \in Calls : Enter(o, h)
    \/ Exit
    \/ Select
    \/ SelectFails
    \/ Insert
    \/ Commit
    \/ Change
    \/ Leave

Spec == Init /\ [][Next]_vars

\* The server's loop goes on, since its sweep is due every TTLIVE seconds, and
\* SQLite does not refuse every select from some time on.
FairSpec == Spec /\ WF_vars(Next) /\ SF_vars(Select /\ op \in Leavers)

-----------------------------------------------------------------------------

SqlTypeOK ==
    /\ db \in Handles
    /\ older \in Handles \cup {None}
    /\ pending \subseteq open /\ open \subseteq Handles
    /\ op \in Selectors \cup {"Sqlyte", "del_oldies", "remove_peer", "update_peer"}
    /\ stage \in {"out", "reopen", "select", "insert", "commit", "change",
                  "leave", "exited"}

\* Though every guard closes another guard's handle, no statement runs on a
\* closed one, no handle is closed twice and none in use is closed: _db is
\* open all the time, and so is the different handle that a guard commits on
\* and closes (sqliter.h:17-26, sqliter.cpp:194-206).
HandlesInUseAreOpen ==
    /\ db \in open
    /\ older # None => older \in open \ {db}

\* A server that goes on working ends in exit(1): connections with a
\* statement that was reset and not finalized are never closed, and each turn
\* of the loop leaves one (sqliter.cpp:169, sqliter.cpp:259,
\* sqliter.cpp:292).
ExitsInTheEnd == <>(stage = "exited")
=============================================================================
