----------------------------- MODULE RelayServer -----------------------------
(***************************************************************************)
(* The relay server (src/u_server.cpp) with its table of peers             *)
(* (src/sqliter.cpp).                                                      *)
(*                                                                         *)
(* One thread runs the loop of u_server::main: wait in select for at most  *)
(* 100 ms, handle at most one datagram, and then, when the table changed   *)
(* or TTLIVE seconds have passed, sweep: ping every row, introduce every   *)
(* provider to every consumer, and drop the rows that are too old.  spc    *)
(* tells the two places of the loop where other programs' steps can be     *)
(* seen apart: "select" and "sweep".                                       *)
(*                                                                         *)
(* Time is counted in seconds and saturates just past the limit that the   *)
(* code compares with.  The age of a row is abstracted to whether the next *)
(* sweep deletes it (stale): the delete compares a date and time with a    *)
(* bare date, so rows expire when a day turns, all those not refreshed     *)
(* since (DayTurns).                                                       *)
(***************************************************************************)
EXTENDS Network

CONSTANTS
    TTLIVE,     \* seconds between two sweeps when nothing changes
    DbFaults    \* may SQLite statements fail?

ASSUME SrvAssumption == TTLIVE \in Nat /\ DbFaults \in BOOLEAN

VARIABLES
    srvUp,      \* the process is running
    spc,        \* where its loop is
    rows,       \* the table pers
    stale,      \* the rows that the next sweep deletes
    prev,       \* _prev: the last registration payload handled
    dirty,      \* _dirty
    sweepAge    \* now - pingpers

srvVars == <<srvUp, spc, rows, stale, prev, dirty, sweepAge>>

\* The key of a row hashes the address, the id and the account's keys; the
\* id holds the role, and there is one account.
RowOf(src, payload) ==
    [addr |-> src, typ |-> payload.typ, group |-> payload.group]

\* A bug to find: one second too late.
SweepDueLate == sweepAge > TTLIVE + 1

SweepDue == sweepAge > TTLIVE

\* The end of the loop's first half, with the value dirty has by then.
LoopOn(isDirty) ==
    spc' = IF isDirty \/ SweepDue THEN "sweep" ELSE "select"

SrvInit ==
    /\ srvUp = TRUE
    /\ spc = "select"
    /\ rows = {}
    /\ stale = {}
    /\ prev = None
    /\ dirty = FALSE
    /\ sweepAge = TTLIVE + 1

Listening(d) ==
    /\ srvUp
    /\ spc = "select"
    /\ d.dst = SrvAddr

-----------------------------------------------------------------------------
(* u_server::_process, one action per verb.                                *)

\* _store_peer when the payload is the previous one, byte for byte.
Repeated(payload) == prev = payload

SrvRepeated(d) ==
    /\ Listening(d)
    /\ d.verb = "SRV_REGISTER"
    /\ Repeated(d.info)
    /\ Exchange(d, {})
    /\ LoopOn(dirty)
    /\ UNCHANGED <<srvUp, rows, stale, prev, dirty, sweepAge>>

\* A bug to find: a row that is there already is not refreshed.
StoreOnce(row) ==
    {[selected |-> TRUE, inserted |-> row \notin rows, updated |-> FALSE]}

\* What Sqlyte::store_peer's three statements can do: the SELECT, the INSERT
\* (a row with the same key makes it fail) and the UPDATE tried after it.
StoreOutcomes(row) ==
    IF DbFaults
    THEN {o \in [selected : BOOLEAN, inserted : BOOLEAN, updated : BOOLEAN] :
            o.inserted => row \notin rows}
    ELSE {[selected |-> TRUE, inserted |-> row \notin rows, updated |-> TRUE]}

\* Its result: was there anything to acknowledge?
StoreResult(o) == o.selected \/ o.inserted

SrvStore(d) ==
    /\ Listening(d)
    /\ d.verb = "SRV_REGISTER"
    /\ ~Repeated(d.info)
    /\ prev' = d.info
    /\ LET row == RowOf(d.src, d.info) IN
       \E o \in StoreOutcomes(row) :
          /\ rows' = IF o.inserted THEN rows \cup {row} ELSE rows
          /\ stale' = IF o.inserted \/ o.updated THEN stale \ {row} ELSE stale
          /\ dirty' = StoreResult(o)
          /\ Exchange(d, IF StoreResult(o)
                         THEN {FromSrv("SRV_REGISTERRED", d.src)} ELSE {})
    /\ LoopOn(dirty')
    /\ UNCHANGED <<srvUp, sweepAge>>

\* Does a statement succeed?  Each operation on the table opens a connection
\* of its own (Sqliter); one that cannot be opened ends the process.
Succeeds == IF DbFaults THEN BOOLEAN ELSE {TRUE}

\* What is stale after Sqlyte::update_peer refreshed the rows of an address.
StaleWithout(addr) == {r \in stale : r.addr # addr}

\* _update_client_time.
SrvUpdateTime(d) ==
    /\ Listening(d)
    /\ d.verb = "PER_AIH"
    /\ \E ok \in Succeeds : stale' = IF ok THEN StaleWithout(d.src) ELSE stale
    /\ Exchange(d, {})
    /\ LoopOn(dirty)
    /\ UNCHANGED <<srvUp, rows, prev, dirty, sweepAge>>

\* Sqlyte::remove_peer appends its key to the statement as one character, so
\* that it deletes nothing, and fails when the character is a quote.
RemoveResults == BOOLEAN

\* SRV_UNREGISTER: the reply leaves before the row is looked for, and
\* unsealed.
SrvUnregister(d) ==
    /\ Listening(d)
    /\ d.verb = "SRV_UNREGISTER"
    /\ Exchange(d, {FromSrv("CLEAR", d.src)})
    /\ dirty' \in RemoveResults
    /\ LoopOn(dirty')
    /\ UNCHANGED <<srvUp, rows, stale, prev, sweepAge>>

\* A datagram of another size, one that does not authenticate (_deny only
\* counts it), or a verb that is none of the server's.
Dropped(d) ==
    \/ d.verb \notin {"SRV_REGISTER", "PER_AIH", "SRV_UNREGISTER"}
    \/ DbFaults

SrvDrop(d) ==
    /\ Listening(d)
    /\ Dropped(d)
    /\ Exchange(d, {})
    /\ LoopOn(dirty)
    /\ UNCHANGED <<srvUp, rows, stale, prev, dirty, sweepAge>>

SrvReceive(d) ==
    \/ SrvRepeated(d)
    \/ SrvStore(d)
    \/ SrvUpdateTime(d)
    \/ SrvUnregister(d)
    \/ SrvDrop(d)

-----------------------------------------------------------------------------
(* The rest of the loop, and what happens to the process.                  *)

\* select returns with nothing to read and the sweep is due.
SrvTimeout ==
    /\ srvUp
    /\ spc = "select"
    /\ SweepDue
    /\ spc' = "sweep"
    /\ UNCHANGED <<srvUp, rows, stale, prev, dirty, sweepAge>>

\* Bugs to find: no look at the roles, or introductions to providers only.
PairedAny(r, s) == TRUE
PairedProviders(r, s) == r.typ /\ ~s.typ

\* The pairs of rows that are introduced to each other.
Paired(r, s) == r.typ # s.typ

\* _ping_pers over the rows that were read: pings, and for each ordered pair
\* one introduction each way.
Introductions(seen) ==
    {FromSrv("SRV_PING", r.addr) : r \in seen}
    \cup {SetPeer(rs[1].addr, rs[2].addr) :
            rs \in {xy \in seen \X seen : Paired(xy[1], xy[2])}}

\* A bug to find: the delete matches nothing.
FreshAll(R) == R

\* What is left of a set of rows after Sqlyte::del_oldies.
Fresh(R) == R \ stale

\* A bug to find: the delete comes first.
ReadableLate == {Fresh(rows)}

\* The rows that Sqlyte::get_pers may return: it reads before the delete.
Readable == IF DbFaults THEN SUBSET rows ELSE {rows}

\* A bug to find: no memset.
UnclearedPrev == prev

\* The memset of _prev.
ClearedPrev == None

SrvSweep ==
    /\ srvUp
    /\ spc = "sweep"
    /\ \E seen \in Readable : Put(Introductions(seen))
    /\ prev' = ClearedPrev
    /\ \E deleted \in Succeeds : rows' = IF deleted THEN Fresh(rows) ELSE rows
    /\ stale' = stale \cap rows'
    /\ dirty' = FALSE
    /\ sweepAge' = 0
    /\ spc' = "select"
    /\ UNCHANGED srvUp

SrvTick == sweepAge' = IF SweepDue THEN sweepAge ELSE sweepAge + 1

\* Midnight: the rows that were not refreshed since are to be deleted.
DayTurns ==
    /\ \E old \in SUBSET rows : stale' = stale \cup old
    /\ UNCHANGED <<srvUp, spc, rows, prev, dirty, sweepAge>>

SrvStop ==
    /\ srvUp
    /\ srvUp' = FALSE
    /\ UNCHANGED <<spc, rows, stale, prev, dirty, sweepAge>>

\* main() removes the database file before the server opens it and creates
\* its tables.
KeptRows == {}

SrvStart ==
    /\ ~srvUp
    /\ srvUp' = TRUE
    /\ spc' = "select"
    /\ rows' = KeptRows
    /\ stale' = {}
    /\ prev' = None
    /\ dirty' = FALSE
    /\ sweepAge' = TTLIVE + 1

-----------------------------------------------------------------------------

\* While the server waits in select nothing of the last datagram is left: a
\* change has been swept and, when SQLite works, no payload is remembered, so
\* that a second client with the same id is not taken for a repetition of
\* the first (u_server.cpp:85-92, u_server.cpp:115).
SelectClean ==
    srvUp /\ spc = "select" => ~dirty /\ (~DbFaults => prev = None)

\* What a step that acknowledges must have done: the address has a row in the
\* table which the next sweep will not delete.
AckStored ==
    \A a \in PeerAddr :
        FromSrv("SRV_REGISTERRED", a) \in net' \ net
            => \E r \in rows' \ stale' : r.addr = a

\* What a step that takes a row from a running server must do: ping its client
\* once more, and take no row that is not too old.  (A ping of an earlier sweep
\* that is still on its way is the same datagram and counts as well.)
PingedBefore ==
    srvUp /\ srvUp' =>
        \A r \in rows \ rows' :
            r \in stale /\ FromSrv("SRV_PING", r.addr) \in net'
=============================================================================
