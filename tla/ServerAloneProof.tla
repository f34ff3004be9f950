--------------------------- MODULE ServerAloneProof ---------------------------
(***************************************************************************)
(* Theorems about the relay server against clients that send anything, for *)
(* any addresses, roles, groups, limits and NATs.                          *)
(***************************************************************************)
EXTENDS ServerAlone, TLAPS

-----------------------------------------------------------------------------
(* The datagrams.                                                          *)

\* A datagram that a client can have sent comes from a client's address with
\* that client's payload; a reply has a verb that clients do not send.
LEMMA WireFields ==
    ASSUME NEW d \in Wires
    PROVE  /\ d \in Requests => d.src \in PeerAddr /\ d.info \in Payloads
           /\ d.verb \in {"SRV_REGISTER", "PER_AIH", "SRV_UNREGISTER"}
                 => d \in Requests
  <1>1. ASSUME NEW v \in Verbs, NEW p \in Peers, d = FromPeer(v, p)
        PROVE  d.src \in PeerAddr /\ d.info \in Payloads
    BY <1>1 DEF FromPeer, Datagram, PeerAddr, Payloads
  <1>2. CASE d \in Requests
    BY <1>1, <1>2 DEF Requests
  <1>3. CASE d \in Replies
    <2>1. d.verb \in {"SRV_REGISTERRED", "SRV_PING", "CLEAR", "SRV_SET_PEER"}
      BY <1>3 DEF Replies, FromSrv, SetPeer, Datagram
    <2> QED
      BY <1>2, <2>1
  <1> QED
    BY <1>2, <1>3 DEF Wires

\* What a sweep sends to rows of clients are replies.
LEMMA IntroductionsAreReplies ==
    ASSUME NEW seen \in SUBSET AllRows
    PROVE  Introductions(seen) \subseteq Replies
  <1>1. \A r \in seen : r.addr \in PeerAddr
    BY DEF AllRows, RowOf
  <1>2. ASSUME NEW r \in seen
        PROVE  FromSrv("SRV_PING", r.addr) \in Replies
    BY <1>1 DEF Replies
  <1>3. ASSUME NEW rs \in seen \X seen
        PROVE  SetPeer(rs[1].addr, rs[2].addr) \in Replies
    <2>1. rs[1].addr \in PeerAddr /\ rs[2].addr \in PeerAddr
      BY <1>1
    <2> QED
      BY <2>1 DEF Replies
  <1> QED
    BY <1>2, <1>3 DEF Introductions

\* A datagram is received and nothing but replies leaves.
LEMMA ExchangeSound ==
    ASSUME net \subseteq Wires, NEW d, NEW out \in SUBSET Replies, Exchange(d, out)
    PROVE  net' \subseteq Wires /\ d \in Wires
  BY DEF Exchange, Deliverable, Carried, Wires

\* The loop goes on at one of its two places.
LEMMA LoopOnType ==
    ASSUME NEW b, LoopOn(b)
    PROVE  spc' \in {"select", "sweep"}
  BY DEF LoopOn

-----------------------------------------------------------------------------
(* The types.                                                              *)

\* Whatever the server receives, its state keeps its types: one step per verb.
LEMMA ReceiveType ==
    ASSUME SrvTypeOK, NEW d, SrvReceive(d)
    PROVE  SrvTypeOK'
  <1>1. net \subseteq Wires
    BY DEF SrvTypeOK
  <1>2. CASE SrvRepeated(d)
    <2>1. net' \subseteq Wires /\ spc' \in {"select", "sweep"}
      BY <1>1, <1>2, ExchangeSound, LoopOnType DEF SrvRepeated
    <2> QED
      BY <1>2, <2>1 DEF SrvRepeated, SrvTypeOK
  <1>3. CASE SrvStore(d)
    <2> DEFINE row == RowOf(d.src, d.info)
    <2>1. PICK o \in StoreOutcomes(row) :
              /\ rows' = IF o.inserted THEN rows \cup {row} ELSE rows
              /\ stale' = IF o.inserted \/ o.updated THEN stale \ {row} ELSE stale
              /\ dirty' = StoreResult(o)
              /\ Exchange(d, IF StoreResult(o)
                             THEN {FromSrv("SRV_REGISTERRED", d.src)} ELSE {})
      BY <1>3 DEF SrvStore
    <2>2. d \in Wires /\ d.verb = "SRV_REGISTER"
      BY <1>1, <1>3, <2>1 DEF SrvStore, Exchange, Deliverable
    <2>3. d.src \in PeerAddr /\ d.info \in Payloads
      BY <2>2, WireFields
    <2>4. FromSrv("SRV_REGISTERRED", d.src) \in Replies
      BY <2>3 DEF Replies
    <2>5. row \in AllRows
      BY <2>3 DEF AllRows, Payloads
    <2> HIDE DEF row
    <2>6. net' \subseteq Wires
      <3> DEFINE out == IF StoreResult(o)
                        THEN {FromSrv("SRV_REGISTERRED", d.src)} ELSE {}
      <3>1. out \subseteq Replies /\ Exchange(d, out)
        BY <2>1, <2>4
      <3> HIDE DEF out
      <3> QED
        BY <1>1, <3>1, ExchangeSound
    <2>7. rows' \subseteq AllRows /\ stale' \subseteq rows'
      BY <2>1, <2>5 DEF SrvTypeOK, AllRows
    <2>8. dirty' \in BOOLEAN /\ prev' \in {None} \cup Payloads
      BY <1>3, <2>1, <2>3 DEF SrvStore, StoreResult
    <2>9. spc' \in {"select", "sweep"} /\ UNCHANGED <<srvUp, sweepAge>>
      BY <1>3, LoopOnType DEF SrvStore
    <2> QED
      BY <2>6, <2>7, <2>8, <2>9, Zenon DEF SrvTypeOK
  <1>4. CASE SrvUpdateTime(d)
    <2>1. net' \subseteq Wires /\ spc' \in {"select", "sweep"}
      BY <1>1, <1>4, ExchangeSound, LoopOnType DEF SrvUpdateTime
    <2>2. stale' \subseteq stale
      BY <1>4 DEF SrvUpdateTime, StaleWithout
    <2> QED
      BY <1>4, <2>1, <2>2 DEF SrvUpdateTime, SrvTypeOK
  <1>5. CASE SrvUnregister(d)
    <2>1. d \in Wires /\ d.verb = "SRV_UNREGISTER"
      BY <1>1, <1>5 DEF SrvUnregister, Exchange, Deliverable
    <2>2. FromSrv("CLEAR", d.src) \in Replies
      BY <2>1, WireFields DEF Replies
    <2>3. net' \subseteq Wires
      BY <1>1, <1>5, <2>2, ExchangeSound DEF SrvUnregister
    <2>4. dirty' \in BOOLEAN /\ spc' \in {"select", "sweep"}
      BY <1>5, LoopOnType DEF SrvUnregister, RemoveResults
    <2>5. UNCHANGED <<srvUp, rows, stale, prev, sweepAge>>
      BY <1>5 DEF SrvUnregister
    <2> QED
      BY <2>3, <2>4, <2>5, Zenon DEF SrvTypeOK
  <1>6. CASE SrvDrop(d)
    <2>1. net' \subseteq Wires /\ spc' \in {"select", "sweep"}
      BY <1>1, <1>6, ExchangeSound, LoopOnType DEF SrvDrop
    <2> QED
      BY <1>6, <2>1 DEF SrvDrop, SrvTypeOK
  <1> QED
    BY <1>2, <1>3, <1>4, <1>5, <1>6 DEF SrvReceive

\* A sweep adds no row, and what it leaves stale is in the table.
LEMMA SweepType ==
    ASSUME SrvTypeOK, SrvSweep
    PROVE  SrvTypeOK'
  <1>1. PICK seen \in Readable : Put(Introductions(seen))
    BY DEF SrvSweep
  <1>2. seen \in SUBSET AllRows
    BY DEF Readable, SrvTypeOK, AllRows
  <1>3. net' \subseteq Wires
    BY <1>1, <1>2, IntroductionsAreReplies DEF Put, Carried, SrvTypeOK, Wires
  <1>4. rows' \subseteq rows /\ stale' \subseteq rows'
    BY DEF SrvSweep, Fresh
  <1>5. 0 \in 0 .. TTLIVE + 1
    BY SrvAssumption DEF SrvAssumption
  <1>6. rows' \subseteq AllRows
    BY <1>4 DEF SrvTypeOK, AllRows
  <1> QED
    BY <1>3, <1>4, <1>5, <1>6, Zenon
    DEF SrvSweep, ClearedPrev, SrvTypeOK

\* What happens to the process, and midnight.
LEMMA ProcessType ==
    ASSUME SrvTypeOK, Process
    PROVE  SrvTypeOK'
  <1>1. UNCHANGED net
    BY DEF Process, netVars
  <1>2. CASE SrvStop
    <2>1. srvUp' = FALSE /\ UNCHANGED <<spc, rows, stale, prev, dirty, sweepAge>>
      BY <1>2 DEF SrvStop
    <2> QED
      BY <1>1, <2>1, Zenon DEF SrvTypeOK
  <1>3. CASE SrvStart
    <2>1. TTLIVE + 1 \in 0 .. TTLIVE + 1
      BY SrvAssumption DEF SrvAssumption
    <2> QED
      BY <1>1, <1>3, <2>1, Zenon DEF SrvStart, KeptRows, SrvTypeOK
  <1>4. CASE DayTurns
    BY <1>1, <1>4 DEF DayTurns, SrvTypeOK
  <1> QED
    BY <1>2, <1>3, <1>4 DEF Process

\* Every step keeps the types: one step per action.
LEMMA TypeStep ==
    ASSUME SrvTypeOK, [Next]_vars
    PROVE  SrvTypeOK'
  <1>1. ASSUME NEW d \in Requests, ClientsSend(d)
        PROVE  SrvTypeOK'
    <2>1. net' \subseteq Wires
      BY <1>1 DEF ClientsSend, Put, Carried, SrvTypeOK, Wires
    <2> QED
      BY <1>1, <2>1 DEF ClientsSend, SrvTypeOK, srvVars
  <1>2. CASE ClientsRead
    BY <1>2 DEF ClientsRead, SrvTypeOK, srvVars
  <1>3. CASE ServerReceives
    BY <1>3, ReceiveType DEF ServerReceives
  <1>4. CASE ServerTimeout
    BY <1>4 DEF ServerTimeout, SrvTimeout, SrvTypeOK, netVars
  <1>5. CASE SrvSweep
    BY <1>5, SweepType
  <1>6. CASE ServerTick
    <2>1. sweepAge' \in 0 .. TTLIVE + 1
      BY <1>6, SrvAssumption
      DEF ServerTick, SrvTick, SweepDue, SrvTypeOK, SrvAssumption
    <2> QED
      BY <1>6, <2>1 DEF ServerTick, SrvTypeOK, netVars
  <1>7. CASE Process
    BY <1>7, ProcessType
  <1>8. CASE UNCHANGED vars
    BY <1>8 DEF vars, netVars, srvVars, SrvTypeOK
  <1> QED
    BY <1>1, <1>2, <1>3, <1>4, <1>5, <1>6, <1>7, <1>8 DEF Next

\* The server's variables keep their types whatever it is sent and whichever
\* statements fail, and what is to be deleted is in the table
\* (u_server.cpp:43-93).
THEOREM ServerTypeCorrect == Spec => []SrvTypeOK
  <1>1. Init => SrvTypeOK
    <2>1. TTLIVE + 1 \in 0 .. TTLIVE + 1
      BY SrvAssumption DEF SrvAssumption
    <2> QED
      BY <2>1 DEF Init, NetInit, SrvInit, SrvTypeOK
  <1> QED
    BY <1>1, TypeStep, PTL DEF Spec

-----------------------------------------------------------------------------
(* What a step may do, while SQLite works.                                 *)

\* Only a stored registration is acknowledged, and its row is there and fresh.
LEMMA AckStep ==
    ASSUME ~DbFaults, [Next]_vars, NEW a \in PeerAddr,
           FromSrv("SRV_REGISTERRED", a) \in net' \ net
    PROVE  \E r \in rows' \ stale' : r.addr = a
  <1> DEFINE ack == FromSrv("SRV_REGISTERRED", a)
  <1>1. ack.verb = "SRV_REGISTERRED" /\ ack.dst = a
    BY DEF FromSrv, Datagram
  <1> HIDE DEF ack
  <1>2. ack \in net' /\ ack \notin net
    BY DEF ack
  <1>3. ASSUME NEW d, SrvStore(d)
        PROVE  \E r \in rows' \ stale' : r.addr = a
    <2> DEFINE row == RowOf(d.src, d.info)
    <2>1. PICK o \in StoreOutcomes(row) :
              /\ rows' = IF o.inserted THEN rows \cup {row} ELSE rows
              /\ stale' = IF o.inserted \/ o.updated THEN stale \ {row} ELSE stale
              /\ Exchange(d, IF StoreResult(o)
                             THEN {FromSrv("SRV_REGISTERRED", d.src)} ELSE {})
      BY <1>3 DEF SrvStore
    <2>2. o.updated /\ o.inserted = (row \notin rows)
      BY DEF StoreOutcomes
    <2>3. row.addr = d.src
      BY DEF RowOf
    <2> HIDE DEF row
    <2>4. row \in rows' \ stale'
      BY <2>1, <2>2
    <2>5. ack = FromSrv("SRV_REGISTERRED", d.src)
      BY <1>2, <2>1 DEF Exchange, Carried
    <2>6. d.src = a
      BY <1>1, <2>5 DEF FromSrv, Datagram
    <2> QED
      BY <2>3, <2>4, <2>6
  <1>4. ASSUME NEW d, Exchange(d, {})
        PROVE  FALSE
    BY <1>2, <1>4 DEF Exchange, Carried
  <1>5. ASSUME NEW d, SrvUnregister(d)
        PROVE  FALSE
    <2>1. ack = FromSrv("CLEAR", d.src)
      BY <1>2, <1>5 DEF SrvUnregister, Exchange, Carried
    <2> QED
      BY <1>1, <2>1 DEF FromSrv, Datagram
  <1>6. ASSUME NEW d \in Requests, ClientsSend(d)
        PROVE  FALSE
    <2>1. ack = d
      BY <1>2, <1>6 DEF ClientsSend, Put, Carried
    <2>2. PICK v \in Verbs, p \in Peers : d = FromPeer(v, p)
      BY DEF Requests
    <2>3. d.verb \in Verbs
      BY <2>2 DEF FromPeer, Datagram
    <2> QED
      BY <1>1, <2>1, <2>3 DEF Verbs
  <1>7. ASSUME SrvSweep
        PROVE  FALSE
    <2>1. PICK seen \in Readable : Put(Introductions(seen))
      BY <1>7 DEF SrvSweep
    <2>2. ack \in Introductions(seen)
      BY <1>2, <2>1 DEF Put, Carried
    <2>3. ack.verb \in {"SRV_PING", "SRV_SET_PEER"}
      BY <2>2 DEF Introductions, FromSrv, SetPeer, Datagram
    <2> QED
      BY <1>1, <2>3
  <1>8. net' \subseteq net => FALSE
    BY <1>2
  <1>9. CASE ServerReceives
    <2>1. PICK d \in net : SrvReceive(d)
      BY <1>9 DEF ServerReceives
    <2>2. SrvStore(d) \/ SrvUnregister(d) \/ Exchange(d, {})
      BY <2>1 DEF SrvReceive, SrvRepeated, SrvUpdateTime, SrvDrop
    <2> QED
      BY <1>3, <1>4, <1>5, <2>2
  <1>10. CASE ClientsRead \/ ServerTimeout \/ ServerTick \/ Process \/ UNCHANGED vars
    BY <1>8, <1>10 DEF ClientsRead, ServerTimeout, ServerTick, Process, netVars, vars
  <1> QED
    BY <1>6, <1>7, <1>9, <1>10 DEF Next

\* While SQLite works, a client is acknowledged only when its row is in the
\* table and the next sweep does not delete it (u_server.cpp:124-129).
THEOREM AcknowledgedIsStored ==
    ASSUME ~DbFaults
    PROVE  Spec => AckedIsStored
  <1>1. [Next]_vars => [AckStored]_vars
    BY AckStep DEF AckStored
  <1> QED
    BY <1>1, PTL DEF Spec, AckedIsStored

\* Rows go in a sweep only, which has read and pinged them, or with the
\* process.
LEMMA PingStep ==
    ASSUME ~DbFaults, "SRV_PING" \notin Unheard, [Next]_vars,
           srvUp, srvUp', NEW r \in rows \ rows'
    PROVE  r \in stale /\ FromSrv("SRV_PING", r.addr) \in net'
  <1>1. CASE SrvSweep
    <2>1. Put(Introductions(rows)) /\ rows' = rows \ stale
      BY <1>1 DEF SrvSweep, Readable, Succeeds, Fresh
    <2>2. FromSrv("SRV_PING", r.addr) \in Introductions(rows)
      BY DEF Introductions
    <2>3. FromSrv("SRV_PING", r.addr).verb = "SRV_PING"
      BY DEF FromSrv, Datagram
    <2> QED
      BY <2>1, <2>2, <2>3 DEF Put, Carried
  <1>2. CASE ServerReceives
    <2>1. PICK d \in net : SrvReceive(d)
      BY <1>2 DEF ServerReceives
    <2>2. rows \subseteq rows'
      BY <2>1 DEF SrvReceive, SrvRepeated, SrvStore, SrvUpdateTime,
                  SrvUnregister, SrvDrop
    <2> QED
      BY <2>2
  <1>3. CASE Process
    <2>1. CASE SrvStop
      BY <2>1 DEF SrvStop
    <2>2. CASE SrvStart
      BY <2>2 DEF SrvStart
    <2>3. CASE DayTurns
      BY <2>3 DEF DayTurns
    <2> QED
      BY <1>3, <2>1, <2>2, <2>3 DEF Process
  <1>4. CASE \/ \E d \in Requests : ClientsSend(d)
             \/ ClientsRead \/ ServerTimeout \/ ServerTick \/ UNCHANGED vars
    BY <1>4 DEF ClientsSend, ClientsRead, ServerTimeout, SrvTimeout, ServerTick,
                srvVars, vars
  <1> QED
    BY <1>1, <1>2, <1>3, <1>4 DEF Next

\* While SQLite works and pings arrive, a running server drops only rows that
\* are too old, and each after a last ping (u_server.cpp:88-90).
THEOREM LastPingFirst ==
    ASSUME ~DbFaults, "SRV_PING" \notin Unheard
    PROVE  Spec => LastPing
  <1>1. [Next]_vars => [PingedBefore]_vars
    BY PingStep DEF PingedBefore
  <1> QED
    BY <1>1, PTL DEF Spec, LastPing

-----------------------------------------------------------------------------
(* Between two datagrams.                                                  *)

\* Whenever the server is back in select, what changed was swept and, SQLite
\* working, no payload is remembered, though clients send anything
\* (u_server.cpp:85-92, u_server.cpp:115).
THEOREM SelectIsCleanAlone == Spec => []SelectClean
  <1>1. Init => SelectClean
    BY DEF Init, SrvInit, SelectClean
  <1>2. ASSUME SelectClean, NEW d, SrvReceive(d)
        PROVE  SelectClean'
    <2>1. srvUp /\ spc = "select" /\ srvUp' = srvUp
      BY <1>2 DEF SrvReceive, SrvRepeated, SrvStore, SrvUpdateTime,
                  SrvUnregister, SrvDrop, Listening
    <2>2. CASE SrvStore(d)
      <3>1. PICK o \in StoreOutcomes(RowOf(d.src, d.info)) : dirty' = StoreResult(o)
        BY <2>2 DEF SrvStore
      <3>2. ~DbFaults => StoreResult(o)
        BY DEF StoreOutcomes, StoreResult
      <3> QED
        BY <2>2, <3>1, <3>2 DEF SrvStore, LoopOn, SelectClean
    <2>3. CASE SrvUnregister(d)
      BY <1>2, <2>1, <2>3 DEF SrvUnregister, LoopOn, SelectClean
    <2>4. CASE SrvRepeated(d) \/ SrvUpdateTime(d) \/ SrvDrop(d)
      BY <1>2, <2>1, <2>4 DEF SrvRepeated, SrvUpdateTime, SrvDrop, LoopOn, SelectClean
    <2> QED
      BY <1>2, <2>2, <2>3, <2>4 DEF SrvReceive
  <1>3. ASSUME SelectClean, [Next]_vars
        PROVE  SelectClean'
    <2>1. CASE ServerReceives
      BY <1>2, <1>3, <2>1 DEF ServerReceives
    <2>2. CASE SrvSweep
      BY <2>2 DEF SrvSweep, ClearedPrev, SelectClean
    <2>3. CASE ServerTimeout
      BY <2>3 DEF ServerTimeout, SrvTimeout, SelectClean
    <2>4. CASE Process
      BY <1>3, <2>4 DEF Process, SrvStop, SrvStart, DayTurns, SelectClean
    <2>5. CASE \/ \E d \in Requests : ClientsSend(d)
               \/ ClientsRead \/ ServerTick \/ UNCHANGED vars
      BY <1>3, <2>5 DEF ClientsSend, ClientsRead, ServerTick, srvVars, vars, SelectClean
    <2> QED
      BY <1>3, <2>1, <2>2, <2>3, <2>4, <2>5 DEF Next
  <1> QED
    BY <1>1, <1>3, PTL DEF Spec
=============================================================================
