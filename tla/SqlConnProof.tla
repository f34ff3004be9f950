----------------------------- MODULE SqlConnProof -----------------------------
(***************************************************************************)
(* The handles in use are open, however many connections a process may     *)
(* have.                                                                   *)
(***************************************************************************)
EXTENDS SqlConn, TLAPS

\* The two parts need each other: an open handle that is opened once more
\* would break the second, and a closed one with a statement the first.
IInv == SqlTypeOK /\ HandlesInUseAreOpen

\* The constructor leaves one open handle.
LEMMA InitInv == Init => IInv
  BY DEF Init, IInv, SqlTypeOK, HandlesInUseAreOpen

\* What a guard opens is new, so that the handle it remembers is another one.
LEMMA OpenInv ==
    ASSUME IInv, NEW h \in Handles,
           Reopen(h) \/ \E o \in Calls : Enter(o, h)
    PROVE  IInv'
  <1> USE DEF IInv, SqlTypeOK, HandlesInUseAreOpen, Open
  <1>1. CASE Reopen(h)
    BY <1>1 DEF Reopen
  <1>2. ASSUME NEW o \in Calls, Enter(o, h)
        PROVE  IInv'
    <2>1. op' \in Selectors \cup {"del_oldies", "remove_peer", "update_peer"}
      BY <1>2 DEF Enter, Calls, Turn, Selectors, Leavers
    <2>2. stage' \in {"reopen", "select", "change"}
      BY <1>2 DEF Enter, First
    <2>3. db' = h /\ older' = db /\ open' = open \cup {h} /\ h \notin open
      BY <1>2 DEF Enter
    <2>4. pending' = pending
      BY <1>2 DEF Enter
    <2>5. HandlesInUseAreOpen'
      BY <2>3
    <2> QED
      BY <2>1, <2>2, <2>3, <2>4, <2>5
  <1> QED
    BY <1>1, <1>2

\* The statements of a call run on the handle in _db.
LEMMA StatementInv ==
    ASSUME IInv, Exit \/ Select \/ SelectFails \/ Insert \/ Commit \/ Change
    PROVE  IInv'
  BY DEF IInv, SqlTypeOK, HandlesInUseAreOpen, Exit, Select, SelectFails,
         AfterSelect, Left, Insert, Commit, Change

\* The handle a guard closes is not the one in _db.
LEMMA LeaveInv ==
    ASSUME IInv, Leave
    PROVE  IInv'
  <1> USE DEF IInv, SqlTypeOK, HandlesInUseAreOpen
  <1>1. older # db
    BY HandleAssumption
  <1>2. db \in open' /\ pending \subseteq open' /\ open' \subseteq open
    BY <1>1 DEF Leave, Closing
  <1> QED
    BY <1>2 DEF Leave

\* Every step keeps the invariant.
LEMMA NextInv ==
    ASSUME IInv, [Next]_vars
    PROVE  IInv'
  <1>1. CASE UNCHANGED vars
    BY <1>1 DEF vars, IInv, SqlTypeOK, HandlesInUseAreOpen
  <1> QED
    BY <1>1, OpenInv, StatementInv, LeaveInv DEF Next

\* The invariant holds in every reachable state.
THEOREM Invariant == Spec => []IInv
  BY InitInv, NextInv, PTL DEF Spec

\* The guards' handles keep their types, and every statement that was not
\* finalized is one of a connection that is open, which is why that one cannot
\* be closed (sqliter.h:17-26).
THEOREM SqlTypeCorrect == Spec => []SqlTypeOK
  <1>1. IInv => SqlTypeOK
    BY DEF IInv
  <1> QED
    BY <1>1, Invariant, PTL

\* No statement of the server runs on a closed connection and no connection
\* is closed twice, whatever the calls, their outcomes and the limit of open
\* files (sqliter.h:17-26).
THEOREM NoUseAfterClose == Spec => []HandlesInUseAreOpen
  <1>1. IInv => HandlesInUseAreOpen
    BY DEF IInv
  <1> QED
    BY <1>1, Invariant, PTL
=============================================================================
