------------------------------ MODULE PeerTable ------------------------------
(***************************************************************************)
(* The relay server with its table as SQLite keeps it (src/sqliter.cpp):   *)
(* rows with the time they were written at, one statement after the other, *)
(* and another process of the host that locks the database for a while - a *)
(* second server does, since every server opens the file by its name.      *)
(*                                                                         *)
(* A statement is prepared on a connection that was just opened and has no *)
(* busy timeout.  While the other process writes (lock is "exclusive")     *)
(* sqlite3_prepare fails, and a statement that was prepared before is      *)
(* stepped over and over, since the loops end on an error and at the last  *)
(* row only.  While it reads or is about to write ("shared"), reads        *)
(* succeed and changes fail.  The statements of one handler that do not    *)
(* wait are one step here, in which each may find another lock.            *)
(*                                                                         *)
(* Time is counted in seconds.  clock is the second of the day, and the    *)
(* age of a row saturates where every delete takes it.  A crash is left to *)
(* ServerAlone: a server that starts again is in an initial state.         *)
(***************************************************************************)
EXTENDS Network, Functions

CONSTANTS
    TTLIVE,     \* seconds between two sweeps when nothing changes
    DAY,        \* seconds in a day
    GRACE       \* the 30 seconds of del_oldies

ASSUME TableAssumption ==
    /\ TTLIVE \in Nat
    /\ DAY \in Nat /\ GRACE \in 1 .. DAY - 1

VARIABLES
    pc,         \* the statement it waits for, or the place in its loop
    age,        \* the table pers: for each row, the seconds since its D
    clock,      \* the second of the day
    lock,       \* the lock of another process on the database
    prev,       \* _prev
    dirty,      \* _dirty
    sweepAge,   \* now - pingpers
    late        \* time(0) - now: seconds since line 57 of the loop

tblVars == <<pc, age, clock, lock, prev, dirty, sweepAge, late>>

vars == <<netVars, tblVars>>

rows == DOMAIN age

Locks == {"none", "shared", "exclusive"}

-----------------------------------------------------------------------------
(* The age of a row.                                                       *)

\* Bugs to find: the bare date of now, or of now less a whole day.
LimitToday == clock
LimitYesterday == clock + DAY

\* D <= date('now', '-30 seconds') compares a date and time with a date, as
\* text: true of the rows written before that date began.
Limit == IF clock >= GRACE THEN clock ELSE clock + DAY

Deletable == {r \in rows : age[r] > Limit}

Older(a) == IF a = DAY + GRACE THEN a ELSE a + 1

-----------------------------------------------------------------------------
(* The server as its promises see it: a row is stale when the next delete  *)
(* takes it, and any statement may fail.                                   *)

Srv == INSTANCE ServerAlone WITH
    DbFaults <- TRUE,
    InTurn <- TRUE,
    srvUp <- TRUE,
    spc <- IF pc \in {"sweep", "read"} THEN "sweep" ELSE "select",
    rows <- rows,
    stale <- Deletable

Init ==
    /\ NetInit
    /\ pc = "select"
    /\ age = <<>>
    /\ clock \in 0 .. DAY - 1
    /\ lock = "none"
    /\ prev = None
    /\ dirty = FALSE
    /\ sweepAge = TTLIVE + 1
    /\ late = 0

\* A bug to find: after a match authorize goes on to the next account.
LoopStays(isDirty) ==
    pc' = IF isDirty \/ Srv!SweepDue THEN "sweep" ELSE pc

\* The end of the loop's first half.
LoopOn(isDirty) ==
    pc' = IF isDirty \/ Srv!SweepDue THEN "sweep" ELSE "select"

\* The table after an INSERT.
With(row) == [r \in rows \cup {row} |-> IF r = row THEN 0 ELSE age[r]]

\* A bug to find: the UPDATE has lost its WHERE.
RefreshedAll(R) == [r \in rows |-> 0]

\* The table after an UPDATE of the rows in R.
Refreshed(R) == [r \in rows |-> IF r \in R THEN 0 ELSE age[r]]

-----------------------------------------------------------------------------
(* One datagram.  It is taken off the network at the end of its handling;  *)
(* the clients send no other before.                                       *)

\* select and receive, and the prepare of authorize.
Accept(d) ==
    /\ pc = "select" /\ late = 0
    /\ d.dst = SrvAddr
    /\ d.verb # "LINE" /\ lock # "exclusive"
    /\ pc' = "authorize"
    /\ UNCHANGED <<netVars, age, clock, lock, prev, dirty, sweepAge, late>>

\* A datagram of another size, or authorize cannot prepare; _deny only counts.
Refuse(d) ==
    /\ pc = "select" /\ late = 0
    /\ d.dst = SrvAddr
    /\ d.verb = "LINE" \/ lock = "exclusive"
    /\ Exchange(d, {})
    /\ LoopOn(dirty)
    /\ UNCHANGED <<age, clock, lock, prev, dirty, sweepAge, late>>

\* A bug to find: the loop does not end at SQLITE_DONE.
StepsAgain == FALSE

\* The step of a prepared SELECT does not find the database busy.
Steps == lock # "exclusive"

\* The step of authorize ends and the handler of d goes on.
Authorized(d) ==
    /\ pc = "authorize" /\ Steps
    /\ d.dst = SrvAddr

\* No account's key deciphers it, or _process finds nothing to do.
Ignore(d) ==
    /\ Authorized(d)
    /\ \/ d.verb = "CLEAR"
       \/ d.verb = "SRV_REGISTER" /\ Srv!Repeated(d.info)
    /\ Exchange(d, {})
    /\ LoopOn(dirty)
    /\ UNCHANGED <<age, clock, lock, prev, dirty, sweepAge, late>>

\* update_peer: the rows of the address, whatever their role.
UpdateTime(d) ==
    /\ Authorized(d)
    /\ d.verb = "PER_AIH"
    /\ lock' \in Locks
    /\ age' = IF lock' = "none" THEN Refreshed({r \in rows : r.addr = d.src}) ELSE age
    /\ Exchange(d, {})
    /\ LoopOn(dirty)
    /\ UNCHANGED <<clock, prev, dirty, sweepAge, late>>

\* remove_peer, whose DELETE names a key that no row has.
Unregister(d) ==
    /\ Authorized(d)
    /\ d.verb = "SRV_UNREGISTER"
    /\ lock' \in Locks
    /\ dirty' \in Srv!RemoveResults
    /\ Exchange(d, {FromSrv("CLEAR", d.src)})
    /\ LoopOn(dirty')
    /\ UNCHANGED <<age, clock, prev, sweepAge, late>>

\* store_peer prepares its SELECT.
Find(d) ==
    /\ Authorized(d)
    /\ d.verb = "SRV_REGISTER" /\ ~Srv!Repeated(d.info)
    /\ lock' \in Locks \ {"exclusive"}
    /\ pc' = "find"
    /\ UNCHANGED <<netVars, age, clock, prev, dirty, sweepAge, late>>

\* The rest of store_peer: INSERT finds one lock and fails on a row that is
\* there; the UPDATE after it finds another, and changes that row if any.
Store(d, selected) ==
    LET row == Srv!RowOf(d.src, d.info) IN
    /\ prev' = d.info
    /\ lock' \in Locks
    /\ \/ /\ lock' = "none" /\ row \notin rows
          /\ age' = With(row)
          /\ dirty' = TRUE
       \/ /\ age' = IF lock' = "none" THEN Refreshed({row}) ELSE age
          /\ dirty' = selected
    /\ Exchange(d, IF dirty' THEN {FromSrv("SRV_REGISTERRED", d.src)} ELSE {})
    /\ LoopOn(dirty')
    /\ UNCHANGED <<clock, sweepAge, late>>

\* The SELECT cannot be prepared.
StoreUnfound(d) ==
    /\ Authorized(d)
    /\ d.verb = "SRV_REGISTER" /\ ~Srv!Repeated(d.info)
    /\ Store(d, FALSE)

\* The step of the SELECT ends; what it found only sets R, which nothing reads.
StoreFound(d) ==
    /\ pc = "find" /\ Steps
    /\ d.dst = SrvAddr
    /\ Store(d, TRUE)

Handle(d) ==
    Ignore(d) \/ UpdateTime(d) \/ Unregister(d) \/ Find(d) \/ StoreUnfound(d)

-----------------------------------------------------------------------------
(* The sweep.                                                              *)

Timeout ==
    /\ pc = "select" /\ late = 0
    /\ Srv!SweepDue
    /\ pc' = "sweep"
    /\ UNCHANGED <<netVars, age, clock, lock, prev, dirty, sweepAge, late>>

\* get_pers prepares its SELECT.
ReadPers ==
    /\ pc = "sweep"
    /\ lock # "exclusive"
    /\ pc' = "read"
    /\ UNCHANGED <<netVars, age, clock, lock, prev, dirty, sweepAge, late>>

\* The pings, the memset, del_oldies with the lock it finds, _dirty.
Sweep(seen) ==
    /\ Put(Srv!Introductions(seen))
    /\ prev' = Srv!ClearedPrev
    /\ lock' \in Locks
    /\ age' = IF lock' = "none" THEN Restrict(age, rows \ Deletable) ELSE age
    /\ dirty' = FALSE
    /\ sweepAge' = 0
    /\ pc' = "select"
    /\ UNCHANGED <<clock, late>>

SweepUnread == pc = "sweep" /\ lock = "exclusive" /\ Sweep({})

SweepRead == pc = "read" /\ Steps /\ Sweep(rows)

\* Line 57: the loop reads the clock, second by second.
ReadClock ==
    /\ pc = "select" /\ late > 0
    /\ late' = late - 1
    /\ Srv!SrvTick
    /\ UNCHANGED <<netVars, pc, age, clock, lock, prev, dirty>>

-----------------------------------------------------------------------------
(* The rest of the host, and the clients.                                  *)

Tick ==
    /\ clock' = IF clock + 1 = DAY THEN 0 ELSE clock + 1
    /\ age' = [r \in rows |-> Older(age[r])]
    /\ late' = IF late > TTLIVE THEN late ELSE late + 1
    /\ UNCHANGED <<netVars, pc, lock, prev, dirty, sweepAge>>

Lock ==
    /\ lock = "none"
    /\ lock' \in Locks \ {"none"}
    /\ UNCHANGED <<netVars, pc, age, clock, prev, dirty, sweepAge, late>>

Unlock ==
    /\ lock # "none"
    /\ lock' = "none"
    /\ UNCHANGED <<netVars, pc, age, clock, prev, dirty, sweepAge, late>>

\* Of what is no registration only the verb and the source are read.
Told == {d \in Srv!Requests : \/ d.verb = "SRV_REGISTER"
                             \/ d = CHOOSE e \in Srv!Requests :
                                       e.verb = d.verb /\ e.src = d.src}

ClientsStep ==
    /\ \/ \E d \in Told : net = {} /\ Put({d})
       \/ net' = net \cap Srv!Requests /\ UNCHANGED hole
    /\ UNCHANGED tblVars

Next ==
    \/ ClientsStep
    \/ \E d \in net : Accept(d) \/ Refuse(d) \/ Handle(d) \/ StoreFound(d)
    \/ Timeout \/ ReadPers \/ SweepUnread \/ SweepRead
    \/ ReadClock \/ Tick
    \/ Lock \/ Unlock

\* The loop goes on and time passes; the other process does not keep its
\* lock, and a step that is tried over and over meets a moment without it.
Fairness ==
    /\ SF_vars(Timeout)
    /\ WF_vars(ReadPers \/ SweepUnread)
    /\ WF_vars(ReadClock) /\ WF_vars(Tick)
    /\ WF_vars(Unlock)
    /\ SF_vars(\E d \in net : Handle(d) \/ StoreFound(d))
    /\ SF_vars(SweepRead)

Spec == Init /\ [][Next]_vars /\ Fairness

-----------------------------------------------------------------------------

\* The types; the server waits for a statement about a datagram only while it
\* has one in hand.
TableTypeOK ==
    /\ net \subseteq Srv!Wires
    /\ pc \in {"select", "authorize", "find", "sweep", "read"}
    /\ rows \subseteq Srv!AllRows
    /\ \A r \in rows : age[r] \in 0 .. DAY + GRACE
    /\ clock \in 0 .. DAY - 1
    /\ lock \in Locks
    /\ prev \in {None} \cup Srv!Payloads
    /\ dirty \in BOOLEAN
    /\ sweepAge \in 0 .. TTLIVE + 1
    /\ late \in 0 .. TTLIVE + 1
    /\ pc \in {"authorize", "find"} => \E d \in net : d.dst = SrvAddr

\* Though dates are compared as text, no row leaves the table
\* within GRACE seconds of being written, midnight or not (sqliter.cpp:65).
FreshKept ==
    [][\A r \in rows \ rows' : age[r] > GRACE]_vars

\* And a sweep whose delete succeeds leaves no row that was not written for a
\* day and GRACE seconds: a client that unregistered, or came back at its
\* address with the other role, is not introduced for ever (sqliter.cpp:65,
\* sqliter.cpp:112, u_server.cpp:120).
SweptWithinADay ==
    [][SweepUnread \/ SweepRead =>
          (lock' = "none" => \A r \in rows' : age'[r] < DAY + GRACE)]_vars

\* The table with its locks and dates does nothing that the server of
\* ServerAlone, where any statement may fail, does not do.
ImplementsServer == Srv!Spec

\* No client is shut out for good by a remembered payload: even when the
\* database is locked again and again, _prev is cleared within a turn or
\* TTLIVE (u_server.cpp:89, u_server.cpp:115).
SuppressionEnds == prev # None ~> prev = None

\* The server sweeps again and again, though its statements wait for another
\* process and no datagram arrives (u_server.cpp:85, sqliter.cpp:239).
SweepsRecur == []<>(pc = "sweep")
=============================================================================
