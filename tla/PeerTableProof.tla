---------------------------- MODULE PeerTableProof ----------------------------
(***************************************************************************)
(* Theorems about the server's table with its times and another process's  *)
(* locks, for any length of a day and any clients: what a sweep may delete *)
(* and must, and that the server with this table is the one of ServerAlone *)
(* whose statements may fail.                                              *)
(***************************************************************************)
EXTENDS PeerTable, TLAPS

-----------------------------------------------------------------------------
(* The datagrams.  Those of the module ServerAlone are the same as here.   *)

\* What is sent to the server is a request, with the fields of one.
LEMMA WireFields ==
    ASSUME NEW d \in Srv!Wires
    PROVE  /\ d.dst = SrvAddr => d \in Srv!Requests
           /\ d \in Srv!Requests => /\ d.src \in PeerAddr /\ d.info \in Srv!Payloads
                                   /\ d.dst = SrvAddr
  <1>1. ASSUME NEW v \in Srv!Verbs, NEW p \in Peers, d = Srv!FromPeer(v, p)
        PROVE  d.src \in PeerAddr /\ d.info \in Srv!Payloads /\ d.dst = SrvAddr
    BY <1>1 DEF Srv!FromPeer, Srv!Datagram, PeerAddr, Srv!Payloads
  <1>2. CASE d \in Srv!Requests
    BY <1>1, <1>2 DEF Srv!Requests
  <1>3. CASE d \in Srv!Replies
    <2>1. d.dst \in PeerAddr
      BY <1>3 DEF Srv!Replies, Srv!FromSrv, Srv!SetPeer, Srv!Datagram,
         Srv!PeerAddr, PeerAddr
    <2> QED
      BY <1>2, <2>1, PortAssumption
  <1> QED
    BY <1>2, <1>3 DEF Srv!Wires

\* What the server sends are replies, which the server does not receive.
LEMMA RepliesGoAway ==
    ASSUME NEW d \in Srv!Replies
    PROVE  d.dst # SrvAddr /\ d \in Srv!Wires
  <1>1. d.dst \in PeerAddr
    BY DEF Srv!Replies, Srv!FromSrv, Srv!SetPeer, Srv!Datagram, Srv!PeerAddr, PeerAddr
  <1> QED
    BY <1>1, PortAssumption DEF Srv!Wires

\* What the server sends are replies of ServerAlone.
LEMMA FromSrvReplies ==
    ASSUME NEW v \in {"SRV_REGISTERRED", "CLEAR"}, NEW a \in PeerAddr
    PROVE  FromSrv(v, a) = Srv!FromSrv(v, a) /\ FromSrv(v, a) \in Srv!Replies
  <1>1. FromSrv(v, a) = Srv!FromSrv(v, a)
    BY DEF Srv!FromSrv, FromSrv, Datagram, Srv!Datagram
  <1>2. a \in Srv!PeerAddr
    BY DEF Srv!PeerAddr, PeerAddr
  <1> QED
    BY <1>1, <1>2 DEF Srv!Replies

\* So is what a sweep sends.
LEMMA IntroductionsAreReplies ==
    ASSUME NEW seen \in SUBSET Srv!AllRows
    PROVE  Srv!Introductions(seen) \subseteq Srv!Replies
  <1>1. \A r \in seen : r.addr \in Srv!PeerAddr
    BY DEF Srv!AllRows, Srv!RowOf
  <1>2. ASSUME NEW r \in seen
        PROVE  Srv!FromSrv("SRV_PING", r.addr) \in Srv!Replies
    BY <1>1 DEF Srv!Replies
  <1>3. ASSUME NEW rs \in seen \X seen
        PROVE  Srv!SetPeer(rs[1].addr, rs[2].addr) \in Srv!Replies
    <2>1. rs[1].addr \in Srv!PeerAddr /\ rs[2].addr \in Srv!PeerAddr
      BY <1>1
    <2> QED
      BY <2>1 DEF Srv!Replies
  <1> QED
    BY <1>2, <1>3 DEF Srv!Introductions

\* A registration makes a row.
LEMMA RowType ==
    ASSUME NEW a \in PeerAddr, NEW m \in Srv!Payloads
    PROVE  Srv!RowOf(a, m) \in Srv!AllRows
  BY DEF Srv!AllRows, Srv!Payloads, Srv!PeerAddr, PeerAddr

\* The network is the same.
LEMMA ExchangeSame ==
    ASSUME NEW d, NEW out, Exchange(d, out)
    PROVE  Srv!Exchange(d, out)
  BY DEF Exchange, Srv!Exchange, Deliverable, Srv!Deliverable, Carried, Srv!Carried,
     Punched, Srv!Punched

\* Sending is the same in both.
LEMMA PutSame ==
    ASSUME NEW out, Put(out)
    PROVE  Srv!Put(out)
  BY DEF Put, Srv!Put, Carried, Srv!Carried, Punched, Srv!Punched

\* A server reads one request at a time: two of them are one.
OneRequest == \A d, e \in net : d.dst = SrvAddr /\ e.dst = SrvAddr => d = e

\* Handling a datagram leaves no other request.
LEMMA ExchangeSound ==
    ASSUME net \subseteq Srv!Wires, OneRequest,
           NEW d, NEW out \in SUBSET Srv!Replies, Exchange(d, out)
    PROVE  net' \subseteq Srv!Wires /\ d \in Srv!Wires /\ d \in net /\ OneRequest'
  <1>1. net' \subseteq net \cup out /\ d \in net
    BY DEF Exchange, Deliverable, Carried
  <1>2. \A e \in out : e.dst # SrvAddr /\ e \in Srv!Wires
    BY RepliesGoAway
  <1> QED
    BY <1>1, <1>2 DEF OneRequest

-----------------------------------------------------------------------------
(* Ages and the limit.                                                     *)

\* The types without those of the network.
TableTypes ==
    /\ pc \in {"select", "authorize", "find", "sweep", "read"}
    /\ rows \subseteq Srv!AllRows
    /\ \A r \in rows : age[r] \in 0 .. DAY + GRACE
    /\ clock \in 0 .. DAY - 1
    /\ lock \in Locks
    /\ prev \in {None} \cup Srv!Payloads
    /\ dirty \in BOOLEAN
    /\ sweepAge \in 0 .. TTLIVE + 1
    /\ late \in 0 .. TTLIVE + 1

InHand == pc \in {"authorize", "find"} => \E d \in net : d.dst = SrvAddr

\* What it waits to store is a registration that it has not just stored.
ToStore ==
    pc = "find" => \A d \in net :
        d.dst = SrvAddr => d.verb = "SRV_REGISTER" /\ ~Srv!Repeated(d.info)

TableInv ==
    net \subseteq Srv!Wires /\ TableTypes /\ OneRequest /\ InHand /\ ToStore

\* The limit is no less than GRACE and less than a day and GRACE.
LEMMA LimitRange ==
    ASSUME clock \in 0 .. DAY - 1
    PROVE  Limit \in Int /\ Limit >= GRACE /\ Limit < DAY + GRACE
  BY TableAssumption DEF Limit

\* A second later whatever was to be deleted still is, midnight or not.
LEMMA OlderStillDeletable ==
    ASSUME clock \in 0 .. DAY - 1, NEW a \in 0 .. DAY + GRACE, a > Limit,
           clock' = IF clock + 1 = DAY THEN 0 ELSE clock + 1
    PROVE  Older(a) > Limit'
  BY TableAssumption DEF Limit, Older

\* Ages stay in their range.
LEMMA OlderType ==
    ASSUME NEW a \in 0 .. DAY + GRACE
    PROVE  Older(a) \in 0 .. DAY + GRACE
  BY TableAssumption DEF Older

\* What the statements that change the table do to what is to be deleted.
LEMMA RefreshedFacts ==
    ASSUME TableTypes, NEW R, age' = Refreshed(R), clock' = clock
    PROVE  /\ rows' = rows /\ \A r \in rows' : age'[r] \in 0 .. DAY + GRACE
           /\ Deletable' = Deletable \ R
  <1>1. rows' = rows /\ \A r \in rows : age'[r] = IF r \in R THEN 0 ELSE age[r]
    BY DEF Refreshed, rows
  <1>2. Limit' = Limit /\ ~(0 > Limit)
    BY LimitRange, TableAssumption DEF Limit, TableTypes
  <1>3. \A r \in rows' : age'[r] \in 0 .. DAY + GRACE
    BY <1>1, TableAssumption DEF TableTypes
  <1> QED
    BY <1>1, <1>2, <1>3 DEF Deletable

\* An INSERT adds a row that is not to be deleted.
LEMMA WithFacts ==
    ASSUME TableTypes, NEW row \in Srv!AllRows, row \notin rows,
           age' = With(row), clock' = clock
    PROVE  /\ rows' = rows \cup {row}
           /\ rows' \subseteq Srv!AllRows /\ \A r \in rows' : age'[r] \in 0 .. DAY + GRACE
           /\ Deletable' = Deletable
  <1>1. /\ rows' = rows \cup {row}
        /\ \A r \in rows' : age'[r] = IF r = row THEN 0 ELSE age[r]
    BY DEF With, rows
  <1>2. Limit' = Limit /\ ~(0 > Limit)
    BY LimitRange, TableAssumption DEF Limit, TableTypes
  <1>3. \A r \in rows' : age'[r] \in 0 .. DAY + GRACE
    BY <1>1, TableAssumption DEF TableTypes
  <1>4. rows' \subseteq Srv!AllRows
    BY <1>1 DEF TableTypes
  <1> QED
    BY <1>1, <1>2, <1>3, <1>4 DEF Deletable

\* A DELETE takes the rows that are.
LEMMA RestrictFacts ==
    ASSUME TableTypes, age' = Restrict(age, rows \ Deletable), clock' = clock
    PROVE  /\ rows' = rows \ Deletable
           /\ \A r \in rows' : age'[r] = age[r] /\ ~(age[r] > Limit)
           /\ Deletable' = Deletable \cap rows'
  <1>1. rows' = rows \ Deletable /\ \A r \in rows' : age'[r] = age[r]
    BY DEF Restrict, rows
  <1>2. \A r \in rows' : ~(age[r] > Limit)
    BY <1>1 DEF Deletable
  <1>3. Limit' = Limit
    BY DEF Limit
  <1> QED
    BY <1>1, <1>2, <1>3 DEF Deletable

\* While the table stays, so do the rows and what is to be deleted.
LEMMA AgeSame ==
    ASSUME age' = age
    PROVE  /\ rows' = rows /\ \A r : age'[r] = age[r]
           /\ clock' = clock => Deletable' = Deletable
  BY DEF rows, Deletable, Limit

-----------------------------------------------------------------------------
(* Each step keeps the invariant and is a step, or none, of ServerAlone.   *)

Served == TableInv' /\ [Srv!Next]_(Srv!vars)

\* A step that touches nothing ServerAlone sees is a stutter.
LEMMA Stutters ==
    ASSUME UNCHANGED <<net, hole, age, clock, prev, dirty, sweepAge>>,
           pc' \in {"sweep", "read"} <=> pc \in {"sweep", "read"}
    PROVE  UNCHANGED Srv!vars
  BY AgeSame DEF Srv!vars, Srv!netVars, Srv!srvVars

\* The loop goes on to the same place.
LEMMA LoopOnSame ==
    ASSUME NEW b, LoopOn(b)
    PROVE  Srv!LoopOn(b) /\ pc' \in {"select", "sweep"}
  BY DEF LoopOn, Srv!LoopOn

\* The invariant after the handling of a datagram.
LEMMA HandledInv ==
    ASSUME TableInv, TableTypes', pc' \in {"select", "sweep"},
           NEW d, NEW out \in SUBSET Srv!Replies, Exchange(d, out)
    PROVE  TableInv'
  BY ExchangeSound DEF TableInv, InHand, ToStore

\* A datagram that changes nothing is one that ServerAlone drops.
LEMMA DroppedServed ==
    ASSUME TableInv, pc \in {"select", "authorize"}, NEW d, d.dst = SrvAddr,
           Exchange(d, {}), LoopOn(dirty),
           UNCHANGED <<age, clock, prev, dirty, sweepAge, lock, late>>
    PROVE  Served
  <1>1. pc' \in {"select", "sweep"} /\ Srv!LoopOn(dirty)
    BY LoopOnSame
  <1>2. rows' = rows /\ Deletable' = Deletable
    BY AgeSame
  <1>3. TableTypes'
    BY <1>1, AgeSame DEF TableInv, TableTypes
  <1>4. TableInv'
    BY <1>1, <1>3, HandledInv
  <1>5. Srv!SrvDrop(d)
    BY <1>1, <1>2, ExchangeSame DEF Srv!SrvDrop, Srv!Listening, Srv!Dropped
  <1>6. d \in net
    BY DEF Exchange, Deliverable
  <1> QED
    BY <1>4, <1>5, <1>6 DEF Served, Srv!Next, Srv!ServerReceives, Srv!SrvReceive

\* A keepalive is handled as ServerAlone handles it,
LEMMA UpdateTimeServed ==
    ASSUME TableInv, NEW d, UpdateTime(d)
    PROVE  Served
  <1>1. pc' \in {"select", "sweep"} /\ Srv!LoopOn(dirty)
    BY LoopOnSame DEF UpdateTime
  <1>2. TableTypes
    BY DEF TableInv
  <1> DEFINE R == {r \in rows : r.addr = d.src}
  <1>3. age' = IF lock' = "none" THEN Refreshed(R) ELSE age
    BY DEF UpdateTime
  <1> HIDE DEF R
  <1>4. /\ clock' = clock /\ lock' \in Locks /\ Exchange(d, {})
        /\ UNCHANGED <<prev, dirty, sweepAge, late>>
    BY DEF UpdateTime
  <1>5. /\ rows' = rows /\ \A r \in rows' : age'[r] \in 0 .. DAY + GRACE
        /\ Deletable' = IF lock' = "none" THEN Deletable \ R ELSE Deletable
    <2>1. CASE lock' = "none"
      BY <1>2, <1>3, <1>4, <2>1, RefreshedFacts
    <2>2. CASE lock' # "none"
      BY <1>2, <1>3, <1>4, <2>2, AgeSame DEF TableTypes
    <2> QED
      BY <2>1, <2>2
  <1>6. TableTypes'
    BY <1>1, <1>2, <1>4, <1>5 DEF TableTypes
  <1>7. TableInv'
    BY <1>1, <1>4, <1>6, HandledInv
  <1>8. Srv!SrvUpdateTime(d)
    <2>1. Deletable \ R = Srv!StaleWithout(d.src)
      BY DEF R, Srv!StaleWithout, Deletable
    <2>2. \E ok \in Srv!Succeeds :
              Deletable' = IF ok THEN Srv!StaleWithout(d.src) ELSE Deletable
      BY <1>5, <2>1 DEF Srv!Succeeds
    <2>3. Srv!Listening(d) /\ d.verb = "PER_AIH"
      BY DEF UpdateTime, Authorized, Srv!Listening
    <2> QED
      BY <1>1, <1>4, <1>5, <2>2, <2>3, ExchangeSame DEF Srv!SrvUpdateTime
  <1>9. d \in net
    BY <1>4 DEF Exchange, Deliverable
  <1> QED
    BY <1>7, <1>8, <1>9 DEF Served, Srv!Next, Srv!ServerReceives, Srv!SrvReceive

\* and so is an unregistration.
LEMMA UnregisterServed ==
    ASSUME TableInv, NEW d, Unregister(d)
    PROVE  Served
  <1>1. pc' \in {"select", "sweep"} /\ Srv!LoopOn(dirty')
    BY LoopOnSame DEF Unregister
  <1>2. /\ UNCHANGED <<age, clock, prev, sweepAge, late>> /\ lock' \in Locks
        /\ dirty' \in BOOLEAN /\ Exchange(d, {FromSrv("CLEAR", d.src)})
    BY DEF Unregister, Srv!RemoveResults
  <1>3. d \in net /\ d.dst = SrvAddr /\ d.verb = "SRV_UNREGISTER"
    BY DEF Unregister, Authorized, Exchange, Deliverable
  <1>4. d.src \in PeerAddr
    BY <1>3, WireFields DEF TableInv
  <1>5. rows' = rows /\ Deletable' = Deletable
    BY <1>2, AgeSame
  <1>6. TableTypes'
    <2>1. \A r \in rows' : age'[r] \in 0 .. DAY + GRACE
      BY <1>2, <1>5 DEF TableInv, TableTypes
    <2> QED
      BY <1>1, <1>2, <1>5, <2>1, Zenon DEF TableInv, TableTypes
  <1>7. TableInv'
    BY <1>1, <1>2, <1>4, <1>6, FromSrvReplies, HandledInv
  <1>8. Srv!SrvUnregister(d)
    <2>1. Srv!Exchange(d, {Srv!FromSrv("CLEAR", d.src)})
      BY <1>2, <1>4, FromSrvReplies, ExchangeSame
    <2>2. Srv!Listening(d) /\ dirty' \in Srv!RemoveResults
      BY DEF Unregister, Authorized, Srv!Listening
    <2> QED
      BY <1>1, <1>2, <1>3, <1>5, <2>1, <2>2 DEF Srv!SrvUnregister
  <1> QED
    BY <1>3, <1>7, <1>8 DEF Served, Srv!Next, Srv!ServerReceives, Srv!SrvReceive

\* store_peer: a row that is inserted, or one that is there or is not and
\* that the UPDATE changes or does not.
LEMMA StoreServed ==
    ASSUME TableInv, NEW d, NEW selected \in BOOLEAN, Store(d, selected),
           pc \in {"authorize", "find"}, d.dst = SrvAddr,
           d.verb = "SRV_REGISTER", ~Srv!Repeated(d.info)
    PROVE  Served
  <1> DEFINE row == Srv!RowOf(d.src, d.info)
             out == IF dirty' THEN {FromSrv("SRV_REGISTERRED", d.src)} ELSE {}
  <1>1. /\ prev' = d.info /\ lock' \in Locks /\ UNCHANGED <<clock, sweepAge, late>>
        /\ Exchange(d, out) /\ pc' \in {"select", "sweep"} /\ Srv!LoopOn(dirty')
        /\ \/ lock' = "none" /\ row \notin rows /\ age' = With(row) /\ dirty' = TRUE
           \/ /\ age' = IF lock' = "none" THEN Refreshed({row}) ELSE age
              /\ dirty' = selected
    BY LoopOnSame DEF Store
  <1>2. d \in net /\ d.src \in PeerAddr /\ d.info \in Srv!Payloads
    BY <1>1, WireFields DEF TableInv, Exchange, Deliverable
  <1>3. row \in Srv!AllRows /\ TableTypes
    BY <1>2, RowType DEF TableInv
  <1>4. out \subseteq Srv!Replies
    BY <1>2, FromSrvReplies
  <1>5. Srv!Exchange(d, IF dirty' THEN {Srv!FromSrv("SRV_REGISTERRED", d.src)} ELSE {})
    BY <1>1, <1>2, FromSrvReplies, ExchangeSame
  <1> HIDE DEF row, out
  <1>6. \E o \in Srv!StoreOutcomes(row) :
            /\ rows' = IF o.inserted THEN rows \cup {row} ELSE rows
            /\ Deletable' = IF o.inserted \/ o.updated THEN Deletable \ {row}
                            ELSE Deletable
            /\ dirty' = Srv!StoreResult(o)
            /\ rows' \subseteq Srv!AllRows /\ dirty' \in BOOLEAN
            /\ \A r \in rows' : age'[r] \in 0 .. DAY + GRACE
    <2>1. CASE lock' = "none" /\ row \notin rows /\ age' = With(row) /\ dirty' = TRUE
      <3> DEFINE o == [selected |-> TRUE, inserted |-> TRUE, updated |-> FALSE]
      <3>1. o \in Srv!StoreOutcomes(row) /\ Srv!StoreResult(o) = TRUE
        BY <2>1 DEF Srv!StoreOutcomes, Srv!StoreResult
      <3>2. Deletable \ {row} = Deletable
        BY <2>1 DEF Deletable
      <3> QED
        BY <1>1, <1>3, <2>1, <3>1, <3>2, WithFacts
    <2>2. CASE /\ age' = IF lock' = "none" THEN Refreshed({row}) ELSE age
               /\ dirty' = selected
      <3>1. PICK updated \in BOOLEAN : updated <=> lock' = "none"
        OBVIOUS
      <3> DEFINE o == [selected |-> selected, inserted |-> FALSE, updated |-> updated]
      <3>2. o \in Srv!StoreOutcomes(row) /\ Srv!StoreResult(o) = selected
        BY DEF Srv!StoreOutcomes, Srv!StoreResult
      <3>3. /\ rows' = rows /\ \A r \in rows' : age'[r] \in 0 .. DAY + GRACE
            /\ Deletable' = IF updated THEN Deletable \ {row} ELSE Deletable
        <4>1. CASE updated
          BY <1>1, <1>3, <2>2, <3>1, <4>1, RefreshedFacts
        <4>2. CASE ~updated
          BY <1>1, <1>3, <2>2, <3>1, <4>2, AgeSame DEF TableTypes
        <4> QED
          BY <4>1, <4>2
      <3>4. rows' \subseteq Srv!AllRows
        BY <1>3, <3>3 DEF TableTypes
      <3> QED
        BY <2>2, <3>2, <3>3, <3>4
    <2> QED
      BY <1>1, <2>1, <2>2
  <1>7. PICK o \in Srv!StoreOutcomes(row) :
            /\ rows' = IF o.inserted THEN rows \cup {row} ELSE rows
            /\ Deletable' = IF o.inserted \/ o.updated THEN Deletable \ {row}
                            ELSE Deletable
            /\ dirty' = Srv!StoreResult(o)
            /\ rows' \subseteq Srv!AllRows /\ dirty' \in BOOLEAN
            /\ \A r \in rows' : age'[r] \in 0 .. DAY + GRACE
    BY <1>6
  <1>8. TableTypes'
    <2>1. prev' \in {None} \cup Srv!Payloads
      BY <1>1, <1>2
    <2>2. UNCHANGED <<clock, sweepAge, late>> /\ lock' \in Locks
          /\ pc' \in {"select", "sweep"}
      BY <1>1
    <2>3. /\ clock \in 0 .. DAY - 1 /\ sweepAge \in 0 .. TTLIVE + 1
          /\ late \in 0 .. TTLIVE + 1
      BY <1>3 DEF TableTypes
    <2> QED
      BY <1>7, <2>1, <2>2, <2>3, Zenon DEF TableTypes
  <1>9. TableInv'
    BY <1>1, <1>4, <1>8, HandledInv
  <1>10. Srv!SrvStore(d)
    <2>1. Srv!Listening(d)
      BY DEF Srv!Listening
    <2>2. Srv!Exchange(d, IF Srv!StoreResult(o)
                          THEN {Srv!FromSrv("SRV_REGISTERRED", d.src)} ELSE {})
      BY <1>5, <1>7
    <2> QED
      BY <1>1, <1>7, <2>1, <2>2 DEF Srv!SrvStore, row
  <1> QED
    BY <1>2, <1>9, <1>10 DEF Served, Srv!Next, Srv!ServerReceives, Srv!SrvReceive

\* A statement that is waited for is no step of ServerAlone.
LEMMA WaitServed ==
    ASSUME TableInv, NEW d \in net, Accept(d) \/ Find(d)
    PROVE  Served
  <1>1. /\ UNCHANGED <<net, hole, age, clock, prev, dirty, sweepAge, late>>
        /\ lock' \in Locks /\ d.dst = SrvAddr
        /\ pc \in {"select", "authorize"} /\ pc' \in {"authorize", "find"}
        /\ pc' = "find" => /\ d.verb = "SRV_REGISTER" /\ ~Srv!Repeated(d.info)
    BY DEF Accept, Find, Authorized, netVars, TableInv, TableTypes
  <1>2. TableTypes'
    BY <1>1, AgeSame DEF TableInv, TableTypes
  <1>3. TableInv'
    BY <1>1, <1>2 DEF TableInv, OneRequest, InHand, ToStore, Srv!Repeated
  <1> QED
    BY <1>1, <1>3, Stutters DEF Served

\* Whatever is read is handled as ServerAlone does.
LEMMA ReceiveServed ==
    ASSUME TableInv, NEW d \in net, Refuse(d) \/ Handle(d) \/ StoreFound(d)
    PROVE  Served
  <1>1. CASE Refuse(d)
    BY <1>1, DroppedServed DEF Refuse
  <1>2. CASE Ignore(d)
    BY <1>2, DroppedServed DEF Ignore, Authorized
  <1>3. CASE StoreUnfound(d)
    BY <1>3, StoreServed DEF StoreUnfound, Authorized
  <1>4. CASE StoreFound(d)
    <2>1. pc = "find" /\ d.dst = SrvAddr /\ Store(d, TRUE)
      BY <1>4 DEF StoreFound
    <2>2. d.verb = "SRV_REGISTER" /\ ~Srv!Repeated(d.info)
      BY <2>1 DEF TableInv, ToStore
    <2> QED
      BY <2>1, <2>2, StoreServed
  <1> QED
    BY <1>1, <1>2, <1>3, <1>4, UpdateTimeServed, UnregisterServed, WaitServed DEF Handle

\* The sweep, with the rows that were read and the delete that is done or not.
LEMMA SweepServed ==
    ASSUME TableInv, SweepUnread \/ SweepRead
    PROVE  Served
  <1>1. PICK seen \in SUBSET rows : pc \in {"sweep", "read"} /\ Sweep(seen)
    BY DEF SweepUnread, SweepRead
  <1>2. TableTypes /\ seen \in SUBSET Srv!AllRows
    BY DEF TableInv, TableTypes
  <1>3. /\ Put(Srv!Introductions(seen)) /\ prev' = None /\ lock' \in Locks
        /\ age' = IF lock' = "none" THEN Restrict(age, rows \ Deletable) ELSE age
        /\ dirty' = FALSE /\ sweepAge' = 0 /\ pc' = "select"
        /\ UNCHANGED <<clock, late>>
    BY <1>1 DEF Sweep, Srv!ClearedPrev
  <1>4. /\ rows' = IF lock' = "none" THEN rows \ Deletable ELSE rows
        /\ \A r \in rows' : age'[r] = age[r]
        /\ Deletable' = Deletable \cap rows'
    <2>1. CASE lock' = "none"
      BY <1>2, <1>3, <2>1, RestrictFacts
    <2>2. CASE lock' # "none"
      <3>1. rows' = rows /\ Deletable' = Deletable /\ \A r : age'[r] = age[r]
        BY <1>3, <2>2, AgeSame
      <3> QED
        BY <2>2, <3>1 DEF Deletable
    <2> QED
      BY <2>1, <2>2
  <1>5. net' \subseteq Srv!Wires /\ OneRequest'
    <2>1. net' \subseteq net \cup Srv!Introductions(seen)
      BY <1>3 DEF Put, Carried
    <2>2. \A e \in Srv!Introductions(seen) : e.dst # SrvAddr /\ e \in Srv!Wires
      BY <1>2, IntroductionsAreReplies, RepliesGoAway
    <2> QED
      BY <2>1, <2>2 DEF TableInv, OneRequest
  <1>6. TableTypes'
    <2>1. rows' \subseteq Srv!AllRows /\ \A r \in rows' : age'[r] \in 0 .. DAY + GRACE
      <3>1. rows' \subseteq rows
        BY <1>4
      <3> QED
        BY <1>2, <1>4, <3>1 DEF TableTypes
    <2>2. 0 \in 0 .. TTLIVE + 1
      BY TableAssumption
    <2> QED
      BY <1>2, <1>3, <2>1, <2>2, Zenon DEF TableTypes
  <1>7. TableInv'
    BY <1>3, <1>5, <1>6 DEF TableInv, InHand, ToStore
  <1>8. Srv!SrvSweep
    <2>1. seen \in Srv!Readable
      BY DEF Srv!Readable
    <2>2. \E deleted \in Srv!Succeeds :
              rows' = IF deleted THEN Srv!Fresh(rows) ELSE rows
      BY <1>4 DEF Srv!Succeeds, Srv!Fresh
    <2>3. Srv!Put(Srv!Introductions(seen))
      BY <1>3, PutSame
    <2> QED
      BY <1>1, <1>3, <1>4, <2>1, <2>2, <2>3 DEF Srv!SrvSweep, Srv!ClearedPrev
  <1> QED
    BY <1>7, <1>8 DEF Served, Srv!Next

\* The other places of the loop, and the locks of the other process.
LEMMA LoopServed ==
    ASSUME TableInv, Timeout \/ ReadPers \/ ReadClock \/ Lock \/ Unlock
    PROVE  Served
  <1>1. /\ UNCHANGED <<net, hole, age, clock, prev, dirty>> /\ lock' \in Locks
        /\ pc' \in {"select", "sweep", "read"} \/ pc' = pc
        /\ late' \in 0 .. TTLIVE + 1 /\ sweepAge' \in 0 .. TTLIVE + 1
    <2>1. late \in 0 .. TTLIVE + 1 /\ sweepAge \in 0 .. TTLIVE + 1 /\ lock \in Locks
      BY DEF TableInv, TableTypes
    <2>2. CASE ReadClock
      BY <2>1, <2>2, TableAssumption DEF ReadClock, Srv!SrvTick, Srv!SweepDue, netVars
    <2> QED
      BY <2>1, <2>2 DEF Timeout, ReadPers, Lock, Unlock, Locks, netVars
  <1>2. TableTypes'
    BY <1>1, AgeSame DEF TableInv, TableTypes
  <1>3. TableInv'
    BY <1>1, <1>2 DEF TableInv, OneRequest, InHand, ToStore, Srv!Repeated
  <1>4. rows' = rows /\ Deletable' = Deletable
    BY <1>1, AgeSame
  <1>5. CASE Timeout
    <2>1. Srv!ServerTimeout
      BY <1>1, <1>4, <1>5 DEF Timeout, Srv!ServerTimeout, Srv!SrvTimeout, Srv!netVars
    <2> QED
      BY <1>3, <2>1 DEF Served, Srv!Next
  <1>6. CASE ReadClock
    <2>1. Srv!ServerTick
      BY <1>1, <1>4, <1>6 DEF ReadClock, Srv!ServerTick, Srv!netVars
    <2> QED
      BY <1>3, <2>1 DEF Served, Srv!Next
  <1>7. CASE ReadPers \/ Lock \/ Unlock
    <2>1. UNCHANGED sweepAge /\ (pc' \in {"sweep", "read"} <=> pc \in {"sweep", "read"})
      BY <1>7 DEF ReadPers, Lock, Unlock
    <2> QED
      BY <1>1, <1>3, <2>1, Stutters DEF Served
  <1> QED
    BY <1>5, <1>6, <1>7

\* A second passes: what is to be deleted grows, as when a day turns.
LEMMA TickServed ==
    ASSUME TableInv, Tick
    PROVE  Served
  <1>1. /\ clock' = IF clock + 1 = DAY THEN 0 ELSE clock + 1
        /\ age' = [r \in rows |-> Older(age[r])]
        /\ late' = IF late > TTLIVE THEN late ELSE late + 1
        /\ UNCHANGED <<net, hole, pc, lock, prev, dirty, sweepAge>>
    BY DEF Tick, netVars
  <1>2. TableTypes
    BY DEF TableInv
  <1>3. rows' = rows /\ \A r \in rows : age'[r] = Older(age[r])
    BY <1>1 DEF rows
  <1>4. TableTypes'
    <2>1. clock' \in 0 .. DAY - 1 /\ late' \in 0 .. TTLIVE + 1
      BY <1>1, <1>2, TableAssumption DEF TableTypes
    <2>2. \A r \in rows' : age'[r] \in 0 .. DAY + GRACE
      BY <1>2, <1>3, OlderType DEF TableTypes
    <2> QED
      BY <1>1, <1>2, <1>3, <2>1, <2>2 DEF TableTypes
  <1>5. TableInv'
    BY <1>1, <1>4 DEF TableInv, OneRequest, InHand, ToStore, Srv!Repeated
  <1>6. Deletable \subseteq Deletable' /\ Deletable' \subseteq rows
    BY <1>1, <1>2, <1>3, OlderStillDeletable DEF Deletable, TableTypes
  <1>7. Srv!DayTurns
    <2>1. Deletable' = Deletable \cup (Deletable' \ Deletable)
          /\ Deletable' \ Deletable \in SUBSET rows
      BY <1>6
    <2> QED
      BY <1>1, <1>3, <2>1 DEF Srv!DayTurns
  <1> QED
    BY <1>1, <1>5, <1>7 DEF Served, Srv!Next, Srv!Process, Srv!netVars

\* The clients do what they do there.
LEMMA ClientsServed ==
    ASSUME TableInv, ClientsStep
    PROVE  Served
  <1>1. UNCHANGED <<pc, age, clock, lock, prev, dirty, sweepAge, late>>
    BY DEF ClientsStep, tblVars
  <1>2. TableTypes'
    BY <1>1, AgeSame DEF TableInv, TableTypes
  <1>3. UNCHANGED Srv!srvVars
    BY <1>1, AgeSame DEF Srv!srvVars
  <1>4. ASSUME NEW d \in Told, net = {}, Put({d})
        PROVE  Served
    <2>1. d \in Srv!Requests
      BY DEF Told
    <2>2. Srv!ClientsSend(d)
      BY <1>3, <1>4, PutSame DEF Srv!ClientsSend
    <2>3. net' \subseteq {d} /\ d \in Srv!Wires /\ pc \notin {"authorize", "find"}
      BY <1>4, <2>1 DEF Put, Carried, Srv!Wires, TableInv, InHand
    <2>4. TableInv'
      BY <1>1, <1>2, <2>3 DEF TableInv, OneRequest, InHand, ToStore
    <2> QED
      BY <2>1, <2>2, <2>4 DEF Served, Srv!Next
  <1>5. CASE net' = net \cap Srv!Requests /\ UNCHANGED hole
    <2>1. Srv!ClientsRead
      <3>1. net' = net \ (net \ Srv!Requests)
        BY <1>5
      <3> QED
        BY <1>3, <1>5, <3>1 DEF Srv!ClientsRead, Srv!srvVars
    <2>2. \A d \in net : d.dst = SrvAddr => d \in net'
      BY <1>5, WireFields DEF TableInv
    <2>3. TableInv'
      BY <1>1, <1>2, <1>5, <2>2 DEF TableInv, OneRequest, InHand, ToStore, Srv!Repeated
    <2> QED
      BY <2>1, <2>3 DEF Served, Srv!Next
  <1> QED
    BY <1>4, <1>5 DEF ClientsStep

\* Every step is one of the server there, or a stutter.
LEMMA StepServed ==
    ASSUME TableInv, [Next]_vars
    PROVE  Served
  <1>1. CASE UNCHANGED vars
    <2>1. UNCHANGED <<net, hole, pc, age, clock, lock, prev, dirty, sweepAge, late>>
      BY <1>1 DEF vars, netVars, tblVars
    <2>2. TableTypes'
      BY <2>1, AgeSame DEF TableInv, TableTypes
    <2>3. TableInv'
      BY <2>1, <2>2 DEF TableInv, OneRequest, InHand, ToStore, Srv!Repeated
    <2> QED
      BY <2>1, <2>3, Stutters DEF Served
  <1> QED
    BY <1>1, ClientsServed, WaitServed, ReceiveServed, LoopServed, SweepServed, TickServed
    DEF Next

\* The two begin alike.
LEMMA InitServed ==
    ASSUME Init
    PROVE  TableInv /\ Srv!Init
  <1>1. rows = {} /\ Deletable = {}
    BY DEF Init, rows, Deletable
  <1>2. TableTypes
    <2>1. TTLIVE + 1 \in 0 .. TTLIVE + 1 /\ 0 \in 0 .. TTLIVE + 1
      BY TableAssumption
    <2> QED
      BY <1>1, <2>1 DEF Init, TableTypes, Locks
  <1>3. TableInv
    BY <1>2 DEF Init, NetInit, TableInv, OneRequest, InHand, ToStore
  <1>4. Srv!Init
    BY <1>1 DEF Init, NetInit, Srv!Init, Srv!NetInit, Srv!SrvInit
  <1> QED
    BY <1>3, <1>4

-----------------------------------------------------------------------------
(* The theorems.                                                           *)

\* With any locks at any time the state keeps its types, and a statement is
\* waited for only while a datagram is in hand (sqliter.cpp:236-247).
THEOREM TableTypeCorrect == Spec => []TableTypeOK
  <1>1. TableInv => TableTypeOK
    BY DEF TableInv, TableTypes, TableTypeOK, InHand
  <1>2. TableInv /\ [Next]_vars => TableInv'
    BY StepServed DEF Served
  <1> QED
    BY <1>1, <1>2, InitServed, PTL DEF Spec

\* The table with its dates and locks implements the server whose statements
\* may fail, so that what is proved of that one, DbFaults TRUE, is true of
\* this one (sqliter.cpp:36-151, u_server.cpp:43-93).
THEOREM TableImplementsServer == Spec => ImplementsServer
  <1>1. Init => TableInv /\ Srv!Init
    BY InitServed
  <1>2. TableInv /\ [Next]_vars => TableInv' /\ [Srv!Next]_(Srv!vars)
    BY StepServed DEF Served
  <1> QED
    BY <1>1, <1>2, PTL DEF Spec, ImplementsServer, Srv!Spec

\* A row leaves the table in a sweep only, and only when it is above the limit.
LEMMA LeavesAbove ==
    ASSUME TableInv, [Next]_vars, NEW r \in rows \ rows'
    PROVE  age[r] > GRACE
  <1>1. clock \in 0 .. DAY - 1 /\ age[r] \in 0 .. DAY + GRACE
    BY DEF TableInv, TableTypes
  <1>2. age' # age
    BY DEF rows
  <1>3. CASE SweepUnread \/ SweepRead
    <2>1. age' = Restrict(age, rows \ Deletable)
      BY <1>2, <1>3 DEF SweepUnread, SweepRead, Sweep
    <2>2. r \in Deletable
      BY <2>1 DEF Restrict, rows
    <2> QED
      BY <1>1, <2>2, LimitRange, TableAssumption DEF Deletable
  <1>4. \A R : age' # Refreshed(R)
    BY DEF Refreshed, rows
  <1>5. \A row : age' # With(row)
    BY DEF With, rows
  <1>6. ASSUME NEW d \in net, Accept(d) \/ Refuse(d) \/ Handle(d) \/ StoreFound(d)
        PROVE  FALSE
    BY <1>2, <1>4, <1>5, <1>6 DEF Accept, Refuse, Handle, Ignore, UpdateTime, Unregister,
       Find, StoreUnfound, StoreFound, Store
  <1>7. CASE Tick
    <2>1. rows' = rows
      BY <1>7 DEF Tick, rows
    <2> QED
      BY <2>1
  <1>8. CASE ClientsStep \/ Timeout \/ ReadPers \/ ReadClock \/ Lock \/ Unlock
             \/ UNCHANGED vars
    BY <1>2, <1>8 DEF ClientsStep, Timeout, ReadPers, ReadClock, Lock, Unlock, tblVars, vars
  <1> QED
    BY <1>3, <1>6, <1>7, <1>8 DEF Next

\* Whatever the time of day, no row is deleted within GRACE seconds of being
\* written, though its date is compared with a bare date (sqliter.cpp:65).
THEOREM FreshRowsKept == Spec => FreshKept
  <1>1. TableInv /\ [Next]_vars => TableInv'
    BY StepServed DEF Served
  <1>2. TableInv /\ [Next]_vars => [\A r \in rows \ rows' : age[r] > GRACE]_vars
    BY LeavesAbove
  <1> QED
    BY <1>1, <1>2, InitServed, PTL DEF Spec, FreshKept

\* A sweep whose delete is done leaves nothing that is a day and GRACE seconds
\* old.
LEMMA SweepLeavesYoung ==
    ASSUME TableInv, SweepUnread \/ SweepRead, lock' = "none", NEW r \in rows'
    PROVE  age'[r] < DAY + GRACE
  <1>1. TableTypes /\ age' = Restrict(age, rows \ Deletable) /\ clock' = clock
    BY DEF SweepUnread, SweepRead, Sweep, TableInv
  <1>2. age'[r] = age[r] /\ ~(age[r] > Limit) /\ r \in rows
    BY <1>1, RestrictFacts
  <1>3. age[r] \in 0 .. DAY + GRACE /\ clock \in 0 .. DAY - 1
    BY <1>1, <1>2 DEF TableTypes
  <1> QED
    BY <1>2, <1>3, LimitRange, TableAssumption

\* What no delete names goes with a delete of old rows: a client that is gone
\* is not introduced for longer than a day and GRACE seconds after its last
\* word, if the deletes succeed (sqliter.cpp:65, sqliter.cpp:112).
THEOREM OldRowsSwept == Spec => SweptWithinADay
  <1>1. TableInv /\ [Next]_vars => TableInv'
    BY StepServed DEF Served
  <1>2. TableInv /\ [Next]_vars =>
            [SweepUnread \/ SweepRead =>
                (lock' = "none" => \A r \in rows' : age'[r] < DAY + GRACE)]_vars
    BY SweepLeavesYoung
  <1> QED
    BY <1>1, <1>2, InitServed, PTL DEF Spec, SweptWithinADay
=============================================================================
