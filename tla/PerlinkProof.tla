----------------------------- MODULE PerlinkProof -----------------------------
(***************************************************************************)
(* Theorems about the running system, for any clients, addresses, groups,  *)
(* limits and faults.                                                      *)
(***************************************************************************)
EXTENDS Perlink, TLAPS

-----------------------------------------------------------------------------
(* The datagrams.                                                          *)

\* A pair of opposite addresses, by its two peers.
LEMMA OppositeAddrsIs ==
    ASSUME NEW S, NEW a, NEW b
    PROVE  <<a, b>> \in OppositeAddrs(S)
               <=> \E p, q \in S : a = AddrOf[p] /\ b = AddrOf[q] /\ Opposite(p, q)
  <1>1. ASSUME <<a, b>> \in OppositeAddrs(S)
        PROVE  \E p, q \in S : a = AddrOf[p] /\ b = AddrOf[q] /\ Opposite(p, q)
    <2>1. PICK pq \in OppositePairs(S) : <<a, b>> = <<AddrOf[pq[1]], AddrOf[pq[2]]>>
      BY <1>1 DEF OppositeAddrs
    <2>2. pq[1] \in S /\ pq[2] \in S /\ Opposite(pq[1], pq[2])
      BY DEF OppositePairs
    <2>3. a = AddrOf[pq[1]] /\ b = AddrOf[pq[2]]
      BY <2>1
    <2> QED
      BY <2>2, <2>3
  <1>2. ASSUME NEW p \in S, NEW q \in S,
               a = AddrOf[p], b = AddrOf[q], Opposite(p, q)
        PROVE  <<a, b>> \in OppositeAddrs(S)
    <2>1. <<p, q>> \in OppositePairs(S)
      BY <1>2 DEF OppositePairs
    <2> QED
      BY <1>2, <2>1 DEF OppositeAddrs
  <1> QED
    BY <1>1, <1>2

\* Opposite addresses are so either way round.
LEMMA OppositeAddrsSymmetric ==
    ASSUME NEW S, NEW a, NEW b, <<a, b>> \in OppositeAddrs(S)
    PROVE  <<b, a>> \in OppositeAddrs(S)
  BY OppositeAddrsIs DEF Opposite

\* What is known of the pairs in S is known of a larger set.
LEMMA OppositeAddrsGrow ==
    ASSUME NEW S, NEW T, S \subseteq T, NEW a, NEW b, <<a, b>> \in OppositeAddrs(S)
    PROVE  <<a, b>> \in OppositeAddrs(T)
  BY OppositeAddrsIs

\* A datagram on the wire is a registration, a notice of the server, an
\* introduction or a direct datagram, with the addresses that go with it.
LEMMA WireCases ==
    ASSUME NEW S, NEW d
    PROVE  d \in WireAmong(S) <=>
             \/ \E p \in S : d = FromPeer("SRV_REGISTER", p)
             \/ \E p \in S : \E v \in {"SRV_REGISTERRED", "SRV_PING"} :
                    d = FromSrv(v, AddrOf[p])
             \/ \E a, b : <<a, b>> \in OppositeAddrs(S) /\ d = SetPeer(a, b)
             \/ \E a, b : \E v \in DirectVerbs :
                    <<a, b>> \in OppositeAddrs(S) /\ d = Direct(v, a, b)
  <1> DEFINE pairs == OppositeAddrs(S)
  <1>1. \A ab \in pairs : ab = <<ab[1], ab[2]>>
    BY DEF OppositeAddrs
  <1>2. d \in {SetPeer(ab[1], ab[2]) : ab \in pairs}
            <=> \E a, b : <<a, b>> \in pairs /\ d = SetPeer(a, b)
    <2>1. ASSUME NEW ab \in pairs, d = SetPeer(ab[1], ab[2])
          PROVE  \E a, b : <<a, b>> \in pairs /\ d = SetPeer(a, b)
      <3>1. <<ab[1], ab[2]>> \in pairs
        BY <1>1
      <3> QED
        BY <2>1, <3>1
    <2>2. ASSUME NEW a, NEW b, <<a, b>> \in pairs, d = SetPeer(a, b)
          PROVE  \E ab \in pairs : d = SetPeer(ab[1], ab[2])
      <3>1. d = SetPeer(<<a, b>>[1], <<a, b>>[2])
        BY <2>2
      <3> QED
        BY <2>2, <3>1
    <2> QED
      BY <2>1, <2>2
  <1> DEFINE direct == {Direct(v, ab[1], ab[2]) : v \in DirectVerbs, ab \in pairs}
  <1>3. d \in direct
            <=> \E a, b : \E v \in DirectVerbs :
                    <<a, b>> \in pairs /\ d = Direct(v, a, b)
    <2>1. ASSUME NEW v \in DirectVerbs, NEW ab \in pairs, d = Direct(v, ab[1], ab[2])
          PROVE  \E a, b : \E w \in DirectVerbs :
                    <<a, b>> \in pairs /\ d = Direct(w, a, b)
      <3>1. <<ab[1], ab[2]>> \in pairs
        BY <1>1
      <3> QED
        BY <2>1, <3>1
    <2>2. ASSUME NEW a, NEW b, NEW v \in DirectVerbs,
                 <<a, b>> \in pairs, d = Direct(v, a, b)
          PROVE  \E w \in DirectVerbs : \E ab \in pairs : d = Direct(w, ab[1], ab[2])
      <3>1. d = Direct(v, <<a, b>>[1], <<a, b>>[2])
        BY <2>2
      <3> QED
        BY <2>2, <3>1
    <2>3. d \in direct
              <=> \E v \in DirectVerbs : \E ab \in pairs : d = Direct(v, ab[1], ab[2])
      OBVIOUS
    <2> HIDE DEF pairs, direct
    <2> QED
      BY <2>1, <2>2, <2>3
  <1>4. d \in {FromSrv(v, AddrOf[p]) : v \in {"SRV_REGISTERRED", "SRV_PING"}, p \in S}
            <=> \E p \in S : \E v \in {"SRV_REGISTERRED", "SRV_PING"} :
                    d = FromSrv(v, AddrOf[p])
    OBVIOUS
  <1> QED
    BY <1>2, <1>3, <1>4 DEF WireAmong

\* Read the other way: what the verb of a datagram on the wire says of its
\* fields.
LEMMA WireFields ==
    ASSUME NEW S \in SUBSET Peers, NEW d \in WireAmong(S)
    PROVE  /\ d.verb \in {"SRV_REGISTER", "SRV_REGISTERRED", "SRV_PING",
                          "SRV_SET_PEER"} \cup DirectVerbs
           /\ d.src \in Addr /\ d.dst \in Addr
           /\ d.dst = SrvAddr => d.verb = "SRV_REGISTER"
           /\ d.verb = "SRV_REGISTER" =>
                 \E p \in S : d.src = AddrOf[p] /\ d.info = Payload(p)
           /\ d.verb = "SRV_SET_PEER" => <<d.dst, d.info>> \in OppositeAddrs(S)
           /\ d.verb \in DirectVerbs => <<d.src, d.dst>> \in OppositeAddrs(S)
  <1>1. \A p \in S : AddrOf[p] \in PeerAddr
    BY DEF PeerAddr
  <1>2. \A a, b : <<a, b>> \in OppositeAddrs(S) => a \in PeerAddr /\ b \in PeerAddr
    BY <1>1, OppositeAddrsIs
  <1>3. SrvAddr \notin PeerAddr
    BY PortAssumption
  <1>4. CASE \E p \in S : d = FromPeer("SRV_REGISTER", p)
    BY <1>4, <1>1 DEF FromPeer, Datagram, DirectVerbs, Addr
  <1>5. CASE \E p \in S : \E v \in {"SRV_REGISTERRED", "SRV_PING"} :
                 d = FromSrv(v, AddrOf[p])
    BY <1>5, <1>1, <1>3 DEF FromSrv, Datagram, DirectVerbs, Addr
  <1>6. CASE \E a, b : <<a, b>> \in OppositeAddrs(S) /\ d = SetPeer(a, b)
    BY <1>6, <1>2, <1>3 DEF SetPeer, Datagram, DirectVerbs, Addr
  <1>7. CASE \E a, b : \E v \in DirectVerbs :
                 <<a, b>> \in OppositeAddrs(S) /\ d = Direct(v, a, b)
    BY <1>7, <1>2, <1>3 DEF Direct, Datagram, DirectVerbs, Addr
  <1> QED
    BY <1>4, <1>5, <1>6, <1>7, WireCases

\* What is on the wire among S is on the wire among a larger set.
LEMMA WireGrows ==
    ASSUME NEW S, NEW T, S \subseteq T
    PROVE  WireAmong(S) \subseteq WireAmong(T)
  <1>1. ASSUME NEW d \in WireAmong(S)
        PROVE  d \in WireAmong(T)
    <2>1. \A a, b : <<a, b>> \in OppositeAddrs(S) => <<a, b>> \in OppositeAddrs(T)
      BY OppositeAddrsGrow
    <2>2. CASE \E p \in S : d = FromPeer("SRV_REGISTER", p)
      BY <2>2, WireCases
    <2>3. CASE \E p \in S : \E v \in {"SRV_REGISTERRED", "SRV_PING"} :
                   d = FromSrv(v, AddrOf[p])
      BY <2>3, WireCases
    <2>4. CASE \E a, b : <<a, b>> \in OppositeAddrs(S) /\ d = SetPeer(a, b)
      BY <2>4, <2>1, WireCases
    <2>5. CASE \E a, b : \E v \in DirectVerbs :
                   <<a, b>> \in OppositeAddrs(S) /\ d = Direct(v, a, b)
      BY <2>5, <2>1, WireCases
    <2> QED
      BY <2>2, <2>3, <2>4, <2>5, WireCases
  <1> QED
    BY <1>1

-----------------------------------------------------------------------------
(* The invariant, by the part of the state it is about.                    *)

NetInv == NetSound /\ HoleTypeOK

SrvInv == SrvTypeOK /\ RowsSound

PeerInv == PeerTypeOK /\ PersSound /\ ShownSound

IInv == NetInv /\ SrvInv /\ PeerInv /\ SpentTypeOK

\* Sending keeps the network's part: what is sent has to be on the wire.
LEMMA PutSound ==
    ASSUME NetInv, announced \subseteq Peers,
           NEW out, out \subseteq WireAmong(announced), Put(out)
    PROVE  net' \subseteq WireAmong(announced) /\ HoleTypeOK'
  <1>1. net' \subseteq WireAmong(announced)
    BY DEF Put, NetInv, NetSound, Carried
  <1>2. \A d \in out : d.dst \in Addr
    BY WireFields
  <1>3. hole' = [a \in Natted |-> hole[a] \cup {d.dst : d \in {e \in out : e.src = a}}]
    BY DEF Put, Punched
  <1>4. ASSUME NEW a \in Natted
        PROVE  hole[a] \cup {d.dst : d \in {e \in out : e.src = a}} \in SUBSET Addr
    BY <1>2 DEF NetInv, HoleTypeOK
  <1> QED
    BY <1>1, <1>3, <1>4 DEF HoleTypeOK

\* So does receiving, with what is sent in reply.
LEMMA ExchangeSound ==
    ASSUME NetInv, announced \subseteq Peers,
           NEW out, out \subseteq WireAmong(announced), NEW d, Exchange(d, out)
    PROVE  /\ net' \subseteq WireAmong(announced) /\ HoleTypeOK'
           /\ d \in WireAmong(announced)
  <1>1. net' \subseteq WireAmong(announced) /\ d \in WireAmong(announced)
    BY DEF Exchange, Deliverable, NetInv, NetSound, Carried
  <1>2. \A e \in out : e.dst \in Addr
    BY WireFields
  <1>3. hole' = [a \in Natted |-> hole[a] \cup {e.dst : e \in {f \in out : f.src = a}}]
    BY DEF Exchange, Punched
  <1>4. ASSUME NEW a \in Natted
        PROVE  hole[a] \cup {e.dst : e \in {f \in out : f.src = a}} \in SUBSET Addr
    BY <1>2 DEF NetInv, HoleTypeOK
  <1> QED
    BY <1>1, <1>3, <1>4 DEF HoleTypeOK

\* The parts that a step leaves alone.
LEMMA NetUnchanged ==
    ASSUME NetInv, UNCHANGED <<netVars, announced>>
    PROVE  NetInv'
  BY DEF NetInv, NetSound, HoleTypeOK, netVars

\* The server and its table, in a step of somebody else.
LEMMA SrvUnchanged ==
    ASSUME SrvInv, UNCHANGED <<srvVars, announced>>
    PROVE  SrvInv'
  BY DEF SrvInv, SrvTypeOK, RowsSound, srvVars

\* The clients, in a step of somebody else.
LEMMA PeerUnchanged ==
    ASSUME PeerInv, UNCHANGED peerVars
    PROVE  PeerInv'
  BY DEF PeerInv, PeerTypeOK, PersSound, ShownSound, peerVars

\* The invariant holds at the start: nobody runs and the table is empty.
LEMMA InitInv == Init => IInv
  <1> SUFFICES ASSUME Init PROVE IInv
    OBVIOUS
  <1> USE DEF Init
  <1>1. NetInv
    BY DEF NetInit, NetInv, NetSound, HoleTypeOK
  <1>2. SrvInv
    <2>1. TTLIVE + 1 \in 0 .. TTLIVE + 1
      BY SrvAssumption DEF SrvAssumption
    <2> QED
      BY <2>1, Zenon DEF SrvInit, SrvInv, SrvTypeOK, RowsSound
  <1>3. PeerInv
    BY PeerAssumption DEF PeerInit, PeerInv, PeerTypeOK, PersSound, ShownSound, Statuses
  <1>4. SpentTypeOK
    BY DEF SpentTypeOK
  <1> QED
    BY <1>1, <1>2, <1>3, <1>4 DEF IInv

-----------------------------------------------------------------------------
(* The clients' steps keep the invariant.                                  *)

\* A new process has no members.
LEMMA StartInv ==
    ASSUME IInv, NEW p \in Peers, Start(p)
    PROVE  IInv'
  <1> USE DEF IInv, Start, StartPeer
  <1>1. NetInv'
    BY NetUnchanged
  <1>2. SrvInv'
    BY SrvUnchanged
  <1>3. REG_TICK + 1 \in 0 .. REG_TICK + 1
    BY PeerAssumption DEF PeerAssumption
  <1>4. PeerTypeOK'
    BY <1>3, Zenon DEF PeerInv, PeerTypeOK, Statuses
  <1>5. PersSound' /\ ShownSound'
    BY DEF PeerInv, PeerTypeOK, PersSound, ShownSound
  <1> QED
    BY <1>1, <1>2, <1>4, <1>5 DEF PeerInv, SpentTypeOK

\* A process that ends has no members left; what it sent stays sent.
LEMMA StopInv ==
    ASSUME IInv, NEW p \in Peers, Stop(p)
    PROVE  IInv'
  <1> USE DEF IInv, Stop, StopPeer
  <1>1. NetInv'
    BY NetUnchanged
  <1>2. SrvInv'
    BY SrvUnchanged
  <1>3. REG_TICK + 1 \in 0 .. REG_TICK + 1
    BY PeerAssumption DEF PeerAssumption
  <1>4. PeerTypeOK'
    BY <1>3, Zenon DEF PeerInv, PeerTypeOK, Statuses
  <1>5. PersSound' /\ ShownSound'
    BY DEF PeerInv, PeerTypeOK, PersSound, ShownSound
  <1>6. SpentTypeOK'
    BY DEF Spend, SpentTypeOK, Faults
  <1> QED
    BY <1>1, <1>2, <1>4, <1>5, <1>6 DEF PeerInv

\* Registering, the peer is announced: what was on the wire still is.
LEMMA RegisterInv ==
    ASSUME IInv, NEW p \in Peers, PeerRegisters(p)
    PROVE  IInv'
  <1> USE DEF IInv, PeerRegisters, Register
  <1> DEFINE known == announced \cup {p}
  <1>1. announced' = known /\ announced \subseteq known /\ known \subseteq Peers
    BY DEF PeerInv, PeerTypeOK
  <1>2. net' \subseteq WireAmong(known)
    <2>1. WireAmong(announced) \subseteq WireAmong(known)
      BY <1>1, WireGrows
    <2>2. FromPeer("SRV_REGISTER", p) \in WireAmong(known)
      BY WireCases
    <2> QED
      BY <2>1, <2>2 DEF NetInv, NetSound, Put, Carried
  <1>3. HoleTypeOK'
    <2>1. hole' = [a \in Natted |->
                      hole[a] \cup {d.dst : d \in {e \in {FromPeer("SRV_REGISTER", p)} : e.src = a}}]
      BY DEF Put, Punched
    <2>2. FromPeer("SRV_REGISTER", p).dst \in Addr
      BY DEF FromPeer, Datagram, Addr
    <2> QED
      BY <2>1, <2>2 DEF NetInv, HoleTypeOK
  <1>4. SrvInv'
    <2>1. RowsOf(announced) \subseteq RowsOf(known)
      BY DEF RowsOf
    <2>2. SrvTypeOK'
      BY DEF SrvInv, SrvTypeOK, srvVars
    <2> QED
      BY <1>1, <2>1, <2>2 DEF SrvInv, RowsSound, srvVars
  <1>5. PeerTypeOK'
    <2>1. 0 \in 0 .. REG_TICK + 1
      BY PeerAssumption DEF PeerAssumption
    <2>2. regAge' \in [Peers -> 0 .. REG_TICK + 1]
      BY <2>1 DEF PeerInv, PeerTypeOK
    <2> QED
      BY <1>1, <2>2, Zenon DEF PeerInv, PeerTypeOK
  <1>6. PersSound' /\ ShownSound'
    BY <1>1, OppositeAddrsGrow DEF PeerInv, PersSound, ShownSound
  <1>7. SpentTypeOK'
    BY DEF SpentTypeOK
  <1> QED
    BY <1>1, <1>2, <1>3, <1>4, <1>5, <1>6, <1>7 DEF NetInv, NetSound, PeerInv

\* A line goes from a client to a member, a pair of opposite addresses.
LEMMA SendInv ==
    ASSUME IInv, NEW p \in Peers, PeerSends(p)
    PROVE  IInv'
  <1> USE DEF IInv
  <1>1. PICK line \in Lines : SendLine(p, line)
    BY DEF PeerSends
  <1> DEFINE out == {Direct(line, AddrOf[p], a) : a \in pers[p]}
  <1>2. out \subseteq WireAmong(announced)
    <2>1. line \in DirectVerbs
      BY PeerAssumption DEF PeerAssumption, DirectVerbs
    <2>2. \A a \in pers[p] : <<AddrOf[p], a>> \in OppositeAddrs(announced)
      BY DEF PeerInv, PersSound
    <2> QED
      BY <2>1, <2>2, WireCases
  <1>3. Put(out) /\ UNCHANGED peerVars /\ UNCHANGED <<srvVars, spent>>
    BY <1>1 DEF SendLine, PeerSends
  <1> HIDE DEF out
  <1>4. NetInv'
    BY <1>2, <1>3, PutSound DEF NetInv, NetSound, PeerInv, PeerTypeOK, peerVars
  <1>5. PeerInv'
    BY <1>3, PeerUnchanged
  <1>6. SrvInv'
    BY <1>3, SrvUnchanged DEF peerVars
  <1> QED
    BY <1>3, <1>4, <1>5, <1>6 DEF SpentTypeOK

\* Receiving without an answer.
LEMMA QuietExchange ==
    ASSUME IInv, NEW d, Exchange(d, {}), UNCHANGED announced
    PROVE  NetInv' /\ d \in WireAmong(announced)
  BY ExchangeSound DEF IInv, NetInv, NetSound, PeerInv, PeerTypeOK

\* A client never takes the status that an acknowledgement tests for.
LEMMA RegisterredIsIdentity ==
    ASSUME NEW s \in Statuses
    PROVE  Registerred(s) = s
  BY DEF Registerred, Statuses

\* A new member is one that was there or the one that is inserted.
LEMMA InsertIs ==
    ASSUME NEW S, NEW a
    PROVE  /\ Insert(S, a) \subseteq S \cup {a}
           /\ S \subseteq Insert(S, a)
           /\ Insert(S, a) # {}
  BY DEF Insert, SameAddr

\* What is shown, if it is, is an introducible client's.
LEMMA ShowsSound ==
    ASSUME PeerInv, announced \subseteq Peers, UNCHANGED announced,
           NEW p \in Peers, NEW a, <<AddrOf[p], a>> \in OppositeAddrs(announced),
           DataIn(p, a) \/ UNCHANGED shown
    PROVE  shown' \in [Peers -> SUBSET PeerAddr] /\ ShownSound'
  <1>1. a \in PeerAddr
    BY OppositeAddrsIs DEF PeerAddr
  <1> QED
    BY <1>1 DEF DataIn, PeerInv, PeerTypeOK, ShownSound

\* Whatever a client receives, it keeps the invariant: one step per handler.
LEMMA PeerGetsInv ==
    ASSUME IInv, NEW p \in Peers, NEW d, PeerGets(p, d)
    PROVE  IInv'
  <1> USE DEF IInv
  <1>1. UNCHANGED <<srvVars, spent>>
    BY DEF PeerGets
  <1>2. UNCHANGED announced /\ UNCHANGED up
    BY DEF PeerGets, PeerReceive, RecvRegisterred, RecvSetPeer, RecvUnregistered,
           RecvSrvPing, RecvPing, RecvPong, RecvLine, RecvData, RecvInvalid, peerVars
  <1>3. SrvInv' /\ SpentTypeOK'
    BY <1>1, <1>2, SrvUnchanged DEF SpentTypeOK
  <1>4. announced \subseteq Peers
    BY DEF PeerInv, PeerTypeOK
  <1>5. 0 \in 0 .. REG_TICK + 1
    BY PeerAssumption DEF PeerAssumption
  <1>6. SUFFICES NetInv' /\ PeerInv'
    BY <1>3
  <1>7. CASE RecvRegisterred(p, d)
    <2>1. NetInv'
      BY <1>7, QuietExchange DEF RecvRegisterred
    <2>2. status' = status
      BY <1>7, RegisterredIsIdentity DEF RecvRegisterred, PeerInv, PeerTypeOK
    <2>3. regAge' \in [Peers -> 0 .. REG_TICK + 1]
      BY <1>5, <1>7 DEF RecvRegisterred, PeerInv, PeerTypeOK
    <2>4. PeerInv'
      BY <1>7, <2>2, <2>3 DEF RecvRegisterred, PeerInv, PeerTypeOK, PersSound, ShownSound
    <2> QED
      BY <2>1, <2>4
  <1>8. CASE RecvSetPeer(p, d)
    <2>1. Exchange(d, {Direct("PER_PING", AddrOf[p], d.info)})
      BY <1>8 DEF RecvSetPeer
    <2>2. d \in WireAmong(announced)
      BY <2>1 DEF Exchange, Deliverable, NetInv, NetSound
    <2>3. <<AddrOf[p], d.info>> \in OppositeAddrs(announced)
      BY <1>4, <1>8, <2>2, WireFields DEF RecvSetPeer, FromSrvTo, Receives
    <2>4. {Direct("PER_PING", AddrOf[p], d.info)} \subseteq WireAmong(announced)
      BY <2>3, WireCases DEF DirectVerbs
    <2>5. NetInv'
      BY <1>2, <1>4, <2>1, <2>4, ExchangeSound DEF NetInv, NetSound
    <2>6. PeerInv'
      BY <1>8, PeerUnchanged DEF RecvSetPeer
    <2> QED
      BY <2>5, <2>6
  <1>9. CASE RecvUnregistered(p, d)
    <2>1. NetInv'
      BY <1>9, QuietExchange DEF RecvUnregistered
    <2>2. status' \in [Peers -> Statuses]
      BY <1>9 DEF RecvUnregistered, PeerInv, PeerTypeOK, Statuses
    <2>3. PeerInv'
      BY <1>9, <2>2 DEF RecvUnregistered, PeerInv, PeerTypeOK, PersSound, ShownSound
    <2> QED
      BY <2>1, <2>3
  <1>10. CASE RecvSrvPing(p, d)
    <2>1. NetInv'
      BY <1>10, QuietExchange DEF RecvSrvPing
    <2>2. status' = status
      BY <1>10, RegisterredIsIdentity DEF RecvSrvPing, PeerInv, PeerTypeOK
    <2>3. PeerInv'
      BY <1>10, <2>2 DEF RecvSrvPing, PeerInv, PeerTypeOK, PersSound, ShownSound
    <2> QED
      BY <2>1, <2>3
  <1>11. CASE RecvPing(p, d)
    <2>1. Exchange(d, {Direct("PER_PONG", AddrOf[p], d.src)})
      BY <1>11 DEF RecvPing
    <2>2. d \in WireAmong(announced)
      BY <2>1 DEF Exchange, Deliverable, NetInv, NetSound
    <2>3. d.verb \in DirectVerbs /\ d.dst = AddrOf[p]
      BY <1>11 DEF RecvPing, FromPeerTo, Receives, Reads, DirectVerbs
    <2>4. <<AddrOf[p], d.src>> \in OppositeAddrs(announced)
      BY <1>4, <2>2, <2>3, WireFields, OppositeAddrsSymmetric
    <2>5. {Direct("PER_PONG", AddrOf[p], d.src)} \subseteq WireAmong(announced)
      BY <2>4, WireCases DEF DirectVerbs
    <2>6. NetInv'
      BY <1>2, <1>4, <2>1, <2>5, ExchangeSound DEF NetInv, NetSound
    <2>7. PeerInv'
      BY <1>11, PeerUnchanged DEF RecvPing
    <2> QED
      BY <2>6, <2>7
  <1>12. CASE RecvPong(p, d)
    <2>1. NetInv' /\ d \in WireAmong(announced)
      BY <1>12, QuietExchange DEF RecvPong
    <2>2. d.verb \in DirectVerbs /\ d.dst = AddrOf[p]
      BY <1>12 DEF RecvPong, FromPeerTo, Receives, Reads, DirectVerbs
    <2>3. <<AddrOf[p], d.src>> \in OppositeAddrs(announced)
      BY <1>4, <2>1, <2>2, WireFields, OppositeAddrsSymmetric
    <2>4. d.src \in PeerAddr
      BY <1>4, <2>3, OppositeAddrsIs DEF PeerAddr
    <2>5. pers' = [pers EXCEPT ![p] = Insert(@, d.src)]
      BY <1>12 DEF RecvPong
    <2>6. PersSound'
      BY <1>2, <2>3, <2>5, InsertIs DEF PeerInv, PeerTypeOK, PersSound
    <2>7. pers' \in [Peers -> SUBSET PeerAddr]
      BY <2>4, <2>5, InsertIs DEF PeerInv, PeerTypeOK
    <2>8. status' \in [Peers -> Statuses]
      BY <1>12 DEF RecvPong, PeerInv, PeerTypeOK, Statuses
    <2>9. PeerTypeOK'
      BY <1>12, <2>7, <2>8 DEF RecvPong, PeerInv, PeerTypeOK
    <2>10. ShownSound'
      BY <1>12 DEF RecvPong, PeerInv, ShownSound
    <2> QED
      BY <2>1, <2>6, <2>9, <2>10 DEF PeerInv
  <1>13. CASE RecvLine(p, d)
    <2>1. NetInv' /\ d \in WireAmong(announced)
      BY <1>13, QuietExchange DEF RecvLine
    <2>2. <<AddrOf[p], d.src>> \in OppositeAddrs(announced)
      BY <1>4, <1>13, <2>1, WireFields, OppositeAddrsSymmetric
      DEF RecvLine, Receives, DirectVerbs
    <2>3. shown' \in [Peers -> SUBSET PeerAddr] /\ ShownSound'
      BY <1>2, <1>4, <1>13, <2>2, ShowsSound DEF RecvLine
    <2>4. PeerInv'
      BY <1>13, <2>3 DEF RecvLine, PeerInv, PeerTypeOK, PersSound
    <2> QED
      BY <2>1, <2>4
  <1>14. CASE RecvData(p, d)
    <2>1. NetInv' /\ d \in WireAmong(announced)
      BY <1>14, QuietExchange DEF RecvData
    <2>2. <<AddrOf[p], d.src>> \in OppositeAddrs(announced)
      <3>1. d.verb \in DirectVerbs /\ d.dst = AddrOf[p]
        BY <1>4, <1>14, <2>1, WireFields
        DEF RecvData, FromPeerTo, Receives, Reads, DirectVerbs
      <3> QED
        BY <1>4, <2>1, <3>1, WireFields, OppositeAddrsSymmetric
    <2>3. shown' \in [Peers -> SUBSET PeerAddr] /\ ShownSound'
      BY <1>2, <1>4, <1>14, <2>2, ShowsSound DEF RecvData
    <2>4. status' \in [Peers -> Statuses]
      BY <1>14 DEF RecvData, PeerInv, PeerTypeOK, Statuses
    <2>5. PeerInv'
      BY <1>14, <2>3, <2>4 DEF RecvData, PeerInv, PeerTypeOK, PersSound
    <2> QED
      BY <2>1, <2>5
  <1>15. CASE RecvInvalid(p, d)
    <2>1. NetInv'
      BY <1>2, <1>15, QuietExchange DEF RecvInvalid
    <2>2. PeerInv'
      BY <1>15, PeerUnchanged DEF RecvInvalid
    <2> QED
      BY <2>1, <2>2
  <1> QED
    BY <1>7, <1>8, <1>9, <1>10, <1>11, <1>12, <1>13, <1>14, <1>15
    DEF PeerGets, PeerReceive

-----------------------------------------------------------------------------
(* The server's steps keep the invariant.                                  *)

\* A registration on the wire is an announced client's, and so is its row.
LEMMA RegistrationRow ==
    ASSUME NEW S \in SUBSET Peers, NEW d \in WireAmong(S), d.verb = "SRV_REGISTER"
    PROVE  /\ RowOf(d.src, d.info) \in RowsOf(S)
           /\ d.info \in Payloads
           /\ FromSrv("SRV_REGISTERRED", d.src) \in WireAmong(S)
  <1>1. PICK p \in S : d.src = AddrOf[p] /\ d.info = Payload(p)
    BY WireFields
  <1>2. RowOf(d.src, d.info) \in RowsOf(S) /\ d.info \in Payloads
    BY <1>1 DEF RowsOf, Payloads
  <1>3. FromSrv("SRV_REGISTERRED", d.src) \in WireAmong(S)
    BY <1>1, WireCases
  <1> QED
    BY <1>2, <1>3

\* Rows sent for one another and the pings of a sweep are on the wire.
LEMMA IntroductionsOnWire ==
    ASSUME NEW S \in SUBSET Peers, NEW seen \in SUBSET RowsOf(S)
    PROVE  Introductions(seen) \subseteq WireAmong(S)
  <1>1. ASSUME NEW r \in seen
        PROVE  FromSrv("SRV_PING", r.addr) \in WireAmong(S)
    <2>1. PICK p \in S : r = RowOf(AddrOf[p], Payload(p))
      BY DEF RowsOf
    <2>2. r.addr = AddrOf[p]
      BY <2>1 DEF RowOf
    <2> QED
      BY <2>2, WireCases
  <1>2. ASSUME NEW r \in seen, NEW t \in seen, Paired(r, t)
        PROVE  SetPeer(r.addr, t.addr) \in WireAmong(S)
    <2>1. PICK p \in S : r = RowOf(AddrOf[p], Payload(p))
      BY DEF RowsOf
    <2>2. PICK q \in S : t = RowOf(AddrOf[q], Payload(q))
      BY DEF RowsOf
    <2>3. r.addr = AddrOf[p] /\ t.addr = AddrOf[q] /\ Opposite(p, q)
      BY <1>2, <2>1, <2>2 DEF RowOf, Payload, Paired, Opposite
    <2>4. <<r.addr, t.addr>> \in OppositeAddrs(S)
      BY <2>3, OppositeAddrsIs
    <2> QED
      BY <2>4, WireCases
  <1>3. ASSUME NEW d \in Introductions(seen)
        PROVE  d \in WireAmong(S)
    <2>1. CASE d \in {FromSrv("SRV_PING", r.addr) : r \in seen}
      BY <1>1, <2>1
    <2>2. CASE d \in {SetPeer(rs[1].addr, rs[2].addr) :
                         rs \in {xy \in seen \X seen : Paired(xy[1], xy[2])}}
      <3>1. PICK rs \in {xy \in seen \X seen : Paired(xy[1], xy[2])} :
                d = SetPeer(rs[1].addr, rs[2].addr)
        BY <2>2
      <3>2. rs[1] \in seen /\ rs[2] \in seen /\ Paired(rs[1], rs[2])
        OBVIOUS
      <3> QED
        BY <1>2, <3>1, <3>2
    <2> QED
      BY <2>1, <2>2 DEF Introductions
  <1> QED
    BY <1>3

\* Whatever the loop decides, it goes on to one of its two places.
LEMMA LoopOnType ==
    ASSUME NEW b, LoopOn(b)
    PROVE  spc' \in {"select", "sweep"}
  BY DEF LoopOn

\* A datagram that changes no row and is answered by nothing.
LEMMA SrvQuiet ==
    ASSUME IInv, NEW d, Exchange(d, {}), UNCHANGED <<peerVars, spent>>,
           spc' \in {"select", "sweep"}, stale' \subseteq stale,
           UNCHANGED <<srvUp, rows, prev, dirty, sweepAge>>
    PROVE  IInv'
  <1>1. NetInv'
    BY QuietExchange DEF peerVars
  <1>2. PeerInv' /\ SpentTypeOK'
    BY PeerUnchanged DEF IInv, SpentTypeOK
  <1>3. SrvTypeOK' /\ RowsSound'
    BY DEF IInv, SrvInv, SrvTypeOK, RowsSound, peerVars
  <1> QED
    BY <1>1, <1>2, <1>3 DEF IInv, SrvInv

\* The row that is stored is an announced client's, like its datagram.
LEMMA SrvStoreInv ==
    ASSUME IInv, NEW d, SrvStore(d), UNCHANGED <<peerVars, spent>>
    PROVE  IInv'
  <1> USE DEF IInv
  <1> DEFINE row == RowOf(d.src, d.info)
  <1>1. PICK o \in StoreOutcomes(row) :
            /\ rows' = IF o.inserted THEN rows \cup {row} ELSE rows
            /\ stale' = IF o.inserted \/ o.updated THEN stale \ {row} ELSE stale
            /\ dirty' = StoreResult(o)
            /\ Exchange(d, IF StoreResult(o)
                           THEN {FromSrv("SRV_REGISTERRED", d.src)} ELSE {})
    BY DEF SrvStore
  <1>2. announced \in SUBSET Peers /\ announced' = announced
    BY DEF PeerInv, PeerTypeOK, peerVars
  <1>3. d \in WireAmong(announced) /\ d.verb = "SRV_REGISTER"
    BY <1>1 DEF SrvStore, Exchange, Deliverable, NetInv, NetSound
  <1>4. /\ row \in RowsOf(announced)
        /\ d.info \in Payloads
        /\ FromSrv("SRV_REGISTERRED", d.src) \in WireAmong(announced)
    BY <1>2, <1>3, RegistrationRow
  <1> HIDE DEF row
  <1>5. NetInv'
    <2> DEFINE out == IF StoreResult(o)
                      THEN {FromSrv("SRV_REGISTERRED", d.src)} ELSE {}
    <2>1. out \subseteq WireAmong(announced)
      BY <1>4
    <2>2. Exchange(d, out)
      BY <1>1
    <2> HIDE DEF out
    <2> QED
      BY <1>2, <2>1, <2>2, ExchangeSound DEF NetInv, NetSound
  <1>6. RowsOf(announced) \subseteq RowsOf(Peers)
    BY <1>2 DEF RowsOf
  <1>7. rows' \subseteq RowsOf(announced) /\ stale' \subseteq rows'
    BY <1>1, <1>4 DEF SrvInv, SrvTypeOK, RowsSound
  <1>8. spc' \in {"select", "sweep"}
    BY LoopOnType DEF SrvStore
  <1>9. dirty' \in BOOLEAN
    BY <1>1 DEF StoreResult
  <1>10. prev' = d.info /\ UNCHANGED <<srvUp, sweepAge>>
    BY DEF SrvStore
  <1>11. rows' \subseteq RowsOf(Peers)
    BY <1>6, <1>7
  <1>12. prev' \in {None} \cup Payloads
    BY <1>4, <1>10
  <1>13. SrvTypeOK'
    BY <1>7, <1>8, <1>9, <1>10, <1>11, <1>12, Zenon DEF SrvInv, SrvTypeOK
  <1>14. PeerInv' /\ SpentTypeOK'
    BY PeerUnchanged DEF SpentTypeOK
  <1> QED
    BY <1>2, <1>5, <1>7, <1>13, <1>14 DEF SrvInv, RowsSound

\* Whatever the server receives, it keeps the invariant: one step per verb.
LEMMA ServerGetsInv ==
    ASSUME IInv, NEW d, ServerGets(d)
    PROVE  IInv'
  <1>1. UNCHANGED <<peerVars, spent>>
    BY DEF ServerGets
  <1>2. CASE SrvRepeated(d)
    BY <1>1, <1>2, LoopOnType, SrvQuiet DEF SrvRepeated
  <1>3. CASE SrvStore(d)
    BY <1>1, <1>3, SrvStoreInv
  <1>4. CASE SrvUpdateTime(d)
    <2>1. stale' \subseteq stale
      BY <1>4 DEF SrvUpdateTime, StaleWithout
    <2> QED
      BY <1>1, <1>4, <2>1, LoopOnType, SrvQuiet DEF SrvUpdateTime
  <1>5. CASE SrvUnregister(d)
    <2>1. d \in WireAmong(announced) /\ d.verb = "SRV_UNREGISTER"
      BY <1>5 DEF SrvUnregister, Exchange, Deliverable, IInv, NetInv, NetSound
    <2>2. announced \in SUBSET Peers
      BY DEF IInv, PeerInv, PeerTypeOK
    <2>3. FALSE
      BY <2>1, <2>2, WireFields DEF DirectVerbs
    <2> QED
      BY <2>3
  <1>6. CASE SrvDrop(d)
    BY <1>1, <1>6, LoopOnType, SrvQuiet DEF SrvDrop
  <1> QED
    BY <1>2, <1>3, <1>4, <1>5, <1>6 DEF ServerGets, SrvReceive

\* A sweep introduces only rows of the table and adds none to it.
LEMMA ServerSweepsInv ==
    ASSUME IInv, ServerSweeps
    PROVE  IInv'
  <1> USE DEF IInv
  <1>1. UNCHANGED <<peerVars, spent>> /\ SrvSweep
    BY DEF ServerSweeps
  <1>2. announced \in SUBSET Peers /\ announced' = announced
    BY <1>1 DEF PeerInv, PeerTypeOK, peerVars
  <1>3. PICK seen \in Readable : Put(Introductions(seen))
    BY <1>1 DEF SrvSweep
  <1>4. seen \in SUBSET RowsOf(announced)
    BY DEF Readable, SrvInv, RowsSound
  <1>5. NetInv'
    BY <1>2, <1>3, <1>4, IntroductionsOnWire, PutSound DEF NetInv, NetSound
  <1>6. /\ rows' \subseteq rows
        /\ stale' \subseteq rows'
    BY <1>1 DEF SrvSweep, Fresh, SrvInv, SrvTypeOK
  <1>7. 0 \in 0 .. TTLIVE + 1
    BY SrvAssumption DEF SrvAssumption
  <1>8. rows' \subseteq RowsOf(Peers)
    BY <1>6 DEF SrvInv, SrvTypeOK
  <1>9. SrvTypeOK'
    BY <1>1, <1>6, <1>7, <1>8, Zenon DEF SrvSweep, ClearedPrev, SrvInv, SrvTypeOK
  <1>10. RowsSound'
    BY <1>2, <1>6 DEF SrvInv, RowsSound
  <1>11. PeerInv' /\ SpentTypeOK'
    BY <1>1, PeerUnchanged DEF SpentTypeOK
  <1> QED
    BY <1>5, <1>9, <1>10, <1>11 DEF SrvInv

\* A server that starts has an empty table.
LEMMA ServerStartInv ==
    ASSUME IInv, ServerStart
    PROVE  IInv'
  <1> USE DEF IInv
  <1>1. UNCHANGED <<netVars, peerVars, spent>> /\ SrvStart
    BY DEF ServerStart
  <1>2. NetInv' /\ PeerInv' /\ SpentTypeOK'
    BY <1>1, NetUnchanged, PeerUnchanged DEF SpentTypeOK, peerVars
  <1>3. TTLIVE + 1 \in 0 .. TTLIVE + 1
    BY SrvAssumption DEF SrvAssumption
  <1>4. SrvInv'
    BY <1>1, <1>3, Zenon DEF SrvStart, KeptRows, SrvInv, SrvTypeOK, RowsSound
  <1> QED
    BY <1>2, <1>4

\* The steps of the server and its host that touch few of its variables.
LEMMA ServerOtherInv ==
    ASSUME IInv, ServerTimeout \/ ServerCrash \/ Midnight
    PROVE  IInv'
  <1> USE DEF IInv
  <1>1. UNCHANGED <<netVars, peerVars>>
    BY DEF ServerTimeout, ServerCrash, Midnight
  <1>2. NetInv' /\ PeerInv'
    BY <1>1, NetUnchanged, PeerUnchanged DEF peerVars
  <1>3. UNCHANGED announced
    BY <1>1 DEF peerVars
  <1>4. SrvInv'
    <2>1. CASE ServerTimeout
      BY <1>3, <2>1 DEF ServerTimeout, SrvTimeout, SrvInv, SrvTypeOK, RowsSound
    <2>2. CASE ServerCrash
      <3>1. srvUp' = FALSE /\ UNCHANGED <<spc, rows, stale, prev, dirty, sweepAge>>
        BY <2>2 DEF ServerCrash, SrvStop
      <3> QED
        BY <1>3, <3>1, Zenon DEF SrvInv, SrvTypeOK, RowsSound
    <2>3. CASE Midnight
      BY <1>3, <2>3 DEF Midnight, DayTurns, SrvInv, SrvTypeOK, RowsSound
    <2> QED
      BY <2>1, <2>2, <2>3
  <1>5. SpentTypeOK'
    BY DEF ServerTimeout, ServerCrash, Midnight, Spend, SpentTypeOK, Faults
  <1> QED
    BY <1>2, <1>4, <1>5

\* Ages saturate just past the limits they are compared with.
LEMMA TickInv ==
    ASSUME IInv, Tick
    PROVE  IInv'
  <1> USE DEF IInv, Tick
  <1>1. NetInv'
    BY NetUnchanged
  <1>2. sweepAge' \in 0 .. TTLIVE + 1
    BY SrvAssumption DEF SrvAssumption, SrvTick, SweepDue, SrvInv, SrvTypeOK
  <1>3. SrvInv'
    BY <1>2 DEF SrvInv, SrvTypeOK, RowsSound
  <1>4. regAge' \in [Peers -> 0 .. REG_TICK + 1]
    BY PeerAssumption DEF PeerAssumption, PeerTick, PeerInv, PeerTypeOK
  <1>5. PeerInv'
    BY <1>4 DEF PeerInv, PeerTypeOK, PersSound, ShownSound
  <1> QED
    BY <1>1, <1>3, <1>5 DEF SpentTypeOK

\* A lost datagram takes nothing else with it.
LEMMA LostInv ==
    ASSUME IInv, NEW d, Lost(d)
    PROVE  IInv'
  <1> USE DEF IInv
  <1>1. UNCHANGED <<srvVars, peerVars>> /\ Lose(d) /\ Spend("loss")
    BY DEF Lost
  <1>2. NetInv'
    BY <1>1 DEF Lose, NetInv, NetSound, HoleTypeOK, peerVars
  <1>3. SrvInv' /\ PeerInv'
    BY <1>1, SrvUnchanged, PeerUnchanged DEF peerVars
  <1>4. SpentTypeOK'
    BY <1>1 DEF Spend, SpentTypeOK, Faults
  <1> QED
    BY <1>2, <1>3, <1>4

-----------------------------------------------------------------------------
(* The theorems.                                                           *)

\* The invariant is inductive: one step per kind of step of the system.
LEMMA NextInv ==
    ASSUME IInv, [Next]_vars
    PROVE  IInv'
  <1>1. CASE \E p \in Peers : PeerStep(p)
    BY <1>1, StartInv, StopInv, RegisterInv, SendInv DEF PeerStep
  <1>2. CASE ServerStep
    BY <1>2, ServerOtherInv, ServerSweepsInv, ServerStartInv DEF ServerStep
  <1>3. CASE NetworkStep
    <2>1. PICK d \in net : Delivered(d) \/ Lost(d)
      BY <1>3 DEF NetworkStep
    <2> QED
      BY <2>1, ServerGetsInv, PeerGetsInv, LostInv DEF Delivered
  <1>4. CASE Midnight
    BY <1>4, ServerOtherInv
  <1>5. CASE Tick
    BY <1>5, TickInv
  <1>6. CASE UNCHANGED vars
    BY <1>6, NetUnchanged, SrvUnchanged, PeerUnchanged
    DEF IInv, SpentTypeOK, vars, peerVars
  <1> QED
    BY <1>1, <1>2, <1>3, <1>4, <1>5, <1>6 DEF Next

\* The invariant holds in every reachable state of the system.
THEOREM Invariant == Spec => []IInv
  <1>1. Init => IInv
    BY InitInv
  <1>2. IInv /\ [Next]_vars => IInv'
    BY NextInv
  <1> QED
    BY <1>1, <1>2, PTL DEF Spec

\* Type correctness: whatever is sent, lost or repeated, whoever restarts,
\* and even when SQLite fails, every variable keeps its type; in particular
\* every datagram is one of the protocol's (a_peer.cpp:85-100,
\* u_server.cpp:53-93).
THEOREM TypeCorrect == Spec => []TypeOK
  <1>1. IInv => TypeOK
    <2> SUFFICES ASSUME IInv PROVE TypeOK
      OBVIOUS
    <2>1. WireAmong(announced) \subseteq Wire
      BY WireGrows DEF IInv, PeerInv, PeerTypeOK, Wire
    <2> QED
      BY <2>1 DEF IInv, NetInv, NetSound, SrvInv, PeerInv, TypeOK
  <1> QED
    BY <1>1, Invariant, PTL

\* Every datagram in flight, every row of the server's table, every member of
\* a client and everybody whose data it has shown can be accounted for by the
\* clients that have registered so far - long lines and failing statements
\* included (u_server.cpp:134-164, a_peer.cpp:241-287).
THEOREM AllIntroduced == Spec => []Introduced
  <1>1. IInv => Introduced
    BY DEF IInv, NetInv, SrvInv, PeerInv, Introduced
  <1> QED
    BY <1>1, Invariant, PTL

-----------------------------------------------------------------------------
(* What is left over when the server goes back to select.                  *)

\* Whether or not a datagram changes the table, the server that goes on to
\* select has nothing to sweep; and the payload it remembers by then, if
\* SQLite works, is one that it remembered before.
LEMMA SelectCleanGets ==
    ASSUME SelectClean, NEW d, SrvReceive(d)
    PROVE  SelectClean'
  <1>1. srvUp /\ spc = "select"
    BY DEF SrvReceive, SrvRepeated, SrvStore, SrvUpdateTime, SrvUnregister,
           SrvDrop, Listening
  <1>2. ~dirty /\ (~DbFaults => prev = None)
    BY <1>1 DEF SelectClean
  <1>3. CASE SrvStore(d)
    <2>1. PICK o \in StoreOutcomes(RowOf(d.src, d.info)) : dirty' = StoreResult(o)
      BY <1>3 DEF SrvStore
    <2>2. LoopOn(dirty')
      BY <1>3 DEF SrvStore
    <2>3. ~DbFaults => o.selected = TRUE
      BY DEF StoreOutcomes
    <2>4. ~DbFaults => dirty'
      BY <2>1, <2>3, Zenon DEF StoreResult
    <2> QED
      BY <2>2, <2>4 DEF LoopOn, SelectClean
  <1>4. CASE SrvUnregister(d)
    <2>1. LoopOn(dirty') /\ prev' = prev
      BY <1>4 DEF SrvUnregister
    <2> QED
      BY <1>2, <2>1 DEF LoopOn, SelectClean
  <1>5. CASE SrvRepeated(d) \/ SrvUpdateTime(d) \/ SrvDrop(d)
    <2>1. dirty' = dirty /\ prev' = prev
      BY <1>5 DEF SrvRepeated, SrvUpdateTime, SrvDrop
    <2> QED
      BY <1>2, <2>1 DEF SelectClean
  <1> QED
    BY <1>3, <1>4, <1>5 DEF SrvReceive

\* Back in select, the server has swept every change of its table and, when
\* SQLite works, remembers no payload: two clients with the same id can both
\* register (u_server.cpp:85-92, u_server.cpp:115).
THEOREM SelectIsClean == Spec => []SelectClean
  <1>1. Init => SelectClean
    BY DEF Init, SrvInit, SelectClean
  <1>2. SelectClean /\ [Next]_vars => SelectClean'
    <2> SUFFICES ASSUME SelectClean, [Next]_vars
                 PROVE  SelectClean'
      OBVIOUS
    <2>1. CASE UNCHANGED srvVars
      BY <2>1 DEF srvVars, SelectClean
    <2>2. ASSUME NEW d, ServerGets(d) PROVE SelectClean'
      BY <2>2, SelectCleanGets DEF ServerGets
    <2>3. CASE ServerTimeout
      BY <2>3 DEF ServerTimeout, SrvTimeout, SelectClean
    <2>4. CASE ServerSweeps
      BY <2>4 DEF ServerSweeps, SrvSweep, ClearedPrev, SelectClean
    <2>5. CASE ServerCrash
      BY <2>5 DEF ServerCrash, SrvStop, SelectClean
    <2>6. CASE ServerStart
      BY <2>6 DEF ServerStart, SrvStart, SelectClean
    <2>7. CASE Midnight
      BY <2>7 DEF Midnight, DayTurns, SelectClean
    <2>8. CASE Tick
      BY <2>8 DEF Tick, SelectClean
    <2>9. CASE \E p \in Peers : PeerStep(p)
      BY <2>9, <2>1 DEF PeerStep, Start, Stop, PeerRegisters, PeerSends
    <2>10. CASE NetworkStep
      <3>1. PICK d \in net : Delivered(d) \/ Lost(d)
        BY <2>10 DEF NetworkStep
      <3>2. CASE Lost(d)
        BY <3>2, <2>1 DEF Lost
      <3>3. CASE \E p \in Peers : PeerGets(p, d)
        BY <3>3, <2>1 DEF PeerGets
      <3> QED
        BY <3>1, <3>2, <3>3, <2>2 DEF Delivered
    <2>11. CASE UNCHANGED vars
      BY <2>11, <2>1 DEF vars
    <2> QED
      BY <2>3, <2>4, <2>5, <2>6, <2>7, <2>8, <2>9, <2>10, <2>11
      DEF Next, ServerStep
  <1> QED
    BY <1>1, <1>2, PTL DEF Spec

-----------------------------------------------------------------------------
(* What a step of the system may do, while SQLite works.                   *)

\* What clients send is no acknowledgement, since it comes from them.
LEMMA ClientsDoNotAck ==
    ASSUME NEW p \in Peers,
           PeerStep(p) \/ \E d : PeerGets(p, d),
           NEW e \in net' \ net
    PROVE  e.src = AddrOf[p]
  <1>1. ASSUME NEW out, \A f \in out : f.src = AddrOf[p], Put(out)
        PROVE  e.src = AddrOf[p]
    BY <1>1 DEF Put, Carried
  <1>2. ASSUME NEW d, NEW out, \A f \in out : f.src = AddrOf[p], Exchange(d, out)
        PROVE  e.src = AddrOf[p]
    BY <1>2 DEF Exchange, Carried
  <1>3. \A v, b : Direct(v, AddrOf[p], b).src = AddrOf[p]
    BY DEF Direct, Datagram
  <1>4. CASE Start(p) \/ Stop(p)
    BY <1>4 DEF Start, Stop, netVars
  <1>5. CASE PeerRegisters(p)
    <2>1. Put({FromPeer("SRV_REGISTER", p)})
      BY <1>5 DEF PeerRegisters, Register
    <2>2. FromPeer("SRV_REGISTER", p).src = AddrOf[p]
      BY DEF FromPeer, Datagram
    <2> QED
      BY <1>1, <2>1, <2>2
  <1>6. CASE PeerSends(p)
    <2>1. PICK line \in Lines : Put({Direct(line, AddrOf[p], b) : b \in pers[p]})
      BY <1>6 DEF PeerSends, SendLine
    <2>2. \A f \in {Direct(line, AddrOf[p], b) : b \in pers[p]} : f.src = AddrOf[p]
      BY <1>3
    <2> QED
      BY <1>1, <2>1, <2>2
  <1>7. ASSUME NEW d, PeerGets(p, d)
        PROVE  e.src = AddrOf[p]
    <2>1. \/ Exchange(d, {})
          \/ Exchange(d, {Direct("PER_PING", AddrOf[p], d.info)})
          \/ Exchange(d, {Direct("PER_PONG", AddrOf[p], d.src)})
      BY <1>7 DEF PeerGets, PeerReceive, RecvRegisterred, RecvSetPeer, RecvUnregistered,
         RecvSrvPing, RecvPing, RecvPong, RecvLine, RecvData, RecvInvalid
    <2> QED
      BY <1>2, <1>3, <2>1
  <1> QED
    BY <1>4, <1>5, <1>6, <1>7 DEF PeerStep

\* A registration that is stored leaves its row in the table, and fresh.
LEMMA StoredIsFresh ==
    ASSUME ~DbFaults, NEW d, SrvStore(d), NEW e \in net' \ net
    PROVE  \E r \in rows' \ stale' : r.addr = e.dst
  <1> DEFINE row == RowOf(d.src, d.info)
  <1>1. PICK o \in StoreOutcomes(row) :
            /\ rows' = IF o.inserted THEN rows \cup {row} ELSE rows
            /\ stale' = IF o.inserted \/ o.updated THEN stale \ {row} ELSE stale
            /\ Exchange(d, IF StoreResult(o)
                           THEN {FromSrv("SRV_REGISTERRED", d.src)} ELSE {})
    BY DEF SrvStore
  <1>2. o.updated /\ o.inserted = (row \notin rows)
    BY DEF StoreOutcomes
  <1>3. row.addr = d.src
    BY DEF RowOf
  <1> HIDE DEF row
  <1>4. row \in rows' \ stale'
    BY <1>1, <1>2
  <1>5. e = FromSrv("SRV_REGISTERRED", d.src)
    BY <1>1 DEF Exchange, Carried
  <1>6. e.dst = d.src
    BY <1>5 DEF FromSrv, Datagram
  <1> QED
    BY <1>3, <1>4, <1>6

\* Only such a registration is acknowledged: nothing else that the server or
\* anybody sends is an acknowledgement.
LEMMA SystemAckStep ==
    ASSUME ~DbFaults, [Next]_vars
    PROVE  AckStored
  <1> SUFFICES ASSUME NEW a \in PeerAddr, NEW ack,
                      ack = FromSrv("SRV_REGISTERRED", a), ack \in net' \ net
               PROVE  \E r \in rows' \ stale' : r.addr = a
    BY DEF AckStored
  <1>1. ack.verb = "SRV_REGISTERRED" /\ ack.src = SrvAddr /\ ack.dst = a
    BY DEF FromSrv, Datagram
  <1>2. \A p \in Peers : AddrOf[p] # SrvAddr
    BY PortAssumption DEF PeerAddr
  <1>3. ASSUME NEW d, ServerGets(d)
        PROVE  \E r \in rows' \ stale' : r.addr = a
    <2>1. CASE SrvStore(d)
      BY <1>1, <2>1, StoredIsFresh
    <2>2. CASE SrvUnregister(d)
      <3>1. ack = FromSrv("CLEAR", d.src)
        BY <2>2 DEF SrvUnregister, Exchange, Carried
      <3> QED
        BY <1>1, <3>1 DEF FromSrv, Datagram
    <2>3. CASE Exchange(d, {})
      BY <2>3 DEF Exchange, Carried
    <2> QED
      BY <1>3, <2>1, <2>2, <2>3
      DEF ServerGets, SrvReceive, SrvRepeated, SrvUpdateTime, SrvDrop
  <1>4. CASE ServerSweeps
    <2>1. PICK seen \in Readable : Put(Introductions(seen))
      BY <1>4 DEF ServerSweeps, SrvSweep
    <2>2. ack \in Introductions(seen)
      BY <2>1 DEF Put, Carried
    <2>3. ack.verb \in {"SRV_PING", "SRV_SET_PEER"}
      BY <2>2 DEF Introductions, FromSrv, SetPeer, Datagram
    <2> QED
      BY <1>1, <2>3
  <1>5. ~(net' \subseteq net)
    OBVIOUS
  <1>6. ~ServerTimeout /\ ~ServerCrash /\ ~ServerStart /\ ~Midnight /\ ~Tick
    BY <1>5 DEF ServerTimeout, ServerCrash, ServerStart, Midnight, Tick, netVars
  <1>7. ~(UNCHANGED vars) /\ \A d : ~Lost(d)
    BY <1>5 DEF vars, netVars, Lost, Lose
  <1>8. \A p \in Peers : ~PeerStep(p) /\ \A d : ~PeerGets(p, d)
    BY <1>1, <1>2, ClientsDoNotAck
  <1>9. (\E d \in net : ServerGets(d)) \/ ServerSweeps
    BY <1>6, <1>7, <1>8 DEF Next, ServerStep, NetworkStep, Delivered
  <1> QED
    BY <1>3, <1>4, <1>9

\* In the running system a client is acknowledged only with its row in the
\* table, and one that the next sweep keeps: no old, repeated or crossing
\* datagram makes it believe more (u_server.cpp:124-129).
THEOREM SystemAcknowledges ==
    ASSUME ~DbFaults
    PROVE  Spec => [][AckStored]_vars
  <1>1. [Next]_vars => [AckStored]_vars
    BY SystemAckStep
  <1> QED
    BY <1>1, PTL DEF Spec

\* Only a sweep takes a row from a running server.
LEMMA SystemPingStep ==
    ASSUME ~DbFaults, "SRV_PING" \notin Unheard, [Next]_vars
    PROVE  PingedBefore
  <1> SUFFICES ASSUME srvUp, srvUp', NEW r \in rows \ rows'
               PROVE  r \in stale /\ FromSrv("SRV_PING", r.addr) \in net'
    BY DEF PingedBefore
  <1>1. CASE ServerSweeps
    <2>1. Put(Introductions(rows)) /\ rows' = rows \ stale
      BY <1>1 DEF ServerSweeps, SrvSweep, Readable, Succeeds, Fresh
    <2>2. FromSrv("SRV_PING", r.addr) \in Introductions(rows)
      BY DEF Introductions
    <2>3. FromSrv("SRV_PING", r.addr).verb = "SRV_PING"
      BY DEF FromSrv, Datagram
    <2> QED
      BY <2>1, <2>2, <2>3 DEF Put, Carried
  <1>2. ~(rows \subseteq rows')
    OBVIOUS
  <1>3. \A d : ~ServerGets(d)
    BY <1>2 DEF ServerGets, SrvReceive, SrvRepeated, SrvStore, SrvUpdateTime,
                SrvUnregister, SrvDrop
  <1>4. ~ServerTimeout /\ ~ServerCrash /\ ~ServerStart /\ ~Midnight /\ ~Tick
    BY <1>2 DEF ServerTimeout, SrvTimeout, ServerCrash, SrvStop, ServerStart, SrvStart,
                Midnight, DayTurns, Tick
  <1>5. \A p \in Peers : ~PeerStep(p) /\ \A d : ~PeerGets(p, d)
    BY <1>2 DEF PeerStep, Start, Stop, PeerRegisters, PeerSends, PeerGets, srvVars
  <1>6. ~(UNCHANGED vars) /\ \A d : ~Lost(d)
    BY <1>2 DEF vars, srvVars, Lost
  <1> QED
    BY <1>1, <1>3, <1>4, <1>5, <1>6 DEF Next, ServerStep, NetworkStep, Delivered

\* In the running system a running server drops only rows that are too old,
\* and each after a last ping (u_server.cpp:88-90).
THEOREM SystemPingsFirst ==
    ASSUME ~DbFaults, "SRV_PING" \notin Unheard
    PROVE  Spec => [][PingedBefore]_vars
  <1>1. [Next]_vars => [PingedBefore]_vars
    BY SystemPingStep
  <1> QED
    BY <1>1, PTL DEF Spec

-----------------------------------------------------------------------------
(* The server of the system is the one of ServerAlone.                     *)

\* The operators of the module ServerAlone that datagrams are made with are
\* the same as here.
LEMMA SrvSame ==
    /\ Srv!PeerAddr = PeerAddr
    /\ \A v, a : Srv!FromSrv(v, a) = FromSrv(v, a)
    /\ \A v, p : Srv!FromPeer(v, p) = FromPeer(v, p)
    /\ \A a, m : Srv!RowOf(a, m) = RowOf(a, m)
    /\ \A seen : Srv!Introductions(seen) = Introductions(seen)
  <1>1. /\ \A v, s, d, i : Srv!Datagram(v, s, d, i) = Datagram(v, s, d, i)
        /\ Srv!PeerAddr = PeerAddr
    BY DEF Srv!Datagram, Datagram, Srv!PeerAddr, PeerAddr
  <1>2. /\ \A v, a : Srv!FromSrv(v, a) = FromSrv(v, a)
        /\ \A a, b : Srv!SetPeer(a, b) = SetPeer(a, b)
    BY <1>1 DEF Srv!FromSrv, FromSrv, Srv!SetPeer, SetPeer
  <1>3. \A v, p : Srv!FromPeer(v, p) = FromPeer(v, p)
    BY <1>1 DEF Srv!FromPeer, FromPeer, Srv!Payload, Payload
  <1>4. \A a, m : Srv!RowOf(a, m) = RowOf(a, m)
    BY DEF Srv!RowOf, RowOf
  <1>5. \A seen : Srv!Introductions(seen) = Introductions(seen)
    BY <1>2, Zenon DEF Srv!Introductions, Introductions, Srv!Paired, Paired
  <1> QED
    BY <1>1, <1>2, <1>3, <1>4, <1>5

\* Datagrams that the server sends or is sent, and datagrams that it never
\* sees.
WithServer(out) == \A e \in out : SrvAddr \in {e.src, e.dst}

Aside(out) == \A e \in out : SrvAddr \notin {e.src, e.dst}

\* Sending is sending, as far as the server is concerned.
LEMMA PutWithServer ==
    ASSUME NEW out, WithServer(out), Put(out)
    PROVE  Srv!Put(out)
  <1>1. SrvAddr \notin Natted
    BY NetAssumption, PortAssumption
  <1>2. SrvNet' = SrvNet \cup Srv!Carried(out)
    BY DEF Put, Carried, Srv!Carried, SrvNet, WithServer
  <1>3. ASSUME NEW a \in Natted
        PROVE  SrvHole'[a] = SrvHole[a] \cup {d.dst : d \in {e \in out : e.src = a}}
    <2>1. hole'[a] = hole[a] \cup {d.dst : d \in {e \in out : e.src = a}}
      BY DEF Put, Punched
    <2>2. {d.dst : d \in {e \in out : e.src = a}} \subseteq {SrvAddr}
      BY <1>1 DEF WithServer
    <2> QED
      BY <2>1, <2>2 DEF SrvHole
  <1>4. SrvHole' = Srv!Punched(out)
    BY <1>3 DEF SrvHole, Srv!Punched
  <1> QED
    BY <1>2, <1>4 DEF Srv!Put

\* So is receiving, for the server.
LEMMA ExchangeWithServer ==
    ASSUME NEW d, d.dst = SrvAddr, NEW out, WithServer(out), Exchange(d, out)
    PROVE  Srv!Exchange(d, out)
  <1>1. SrvAddr \notin Natted
    BY NetAssumption, PortAssumption
  <1>2. d \in net /\ hole' = Punched(out)
    BY DEF Exchange, Deliverable
  <1>3. d \in SrvNet /\ Srv!Deliverable(d)
    BY <1>1, <1>2 DEF SrvNet, Srv!Deliverable
  <1>4. PICK keep \in KeepChoices :
            net' = (IF keep THEN net ELSE net \ {d}) \cup Carried(out)
    BY DEF Exchange
  <1>5. SrvNet' = (IF keep THEN SrvNet ELSE SrvNet \ {d}) \cup Srv!Carried(out)
    BY <1>4 DEF Carried, Srv!Carried, SrvNet, WithServer
  <1>6. ASSUME NEW a \in Natted
        PROVE  SrvHole'[a] = SrvHole[a] \cup {f.dst : f \in {e \in out : e.src = a}}
    <2>1. hole'[a] = hole[a] \cup {f.dst : f \in {e \in out : e.src = a}}
      BY <1>2 DEF Punched
    <2>2. {f.dst : f \in {e \in out : e.src = a}} \subseteq {SrvAddr}
      BY <1>1 DEF WithServer
    <2> QED
      BY <2>1, <2>2 DEF SrvHole
  <1>7. SrvHole' = Srv!Punched(out)
    BY <1>6 DEF SrvHole, Srv!Punched
  <1> QED
    BY <1>3, <1>5, <1>7 DEF Srv!Exchange

\* What clients send each other leaves the server's traffic alone.
LEMMA HoleAside ==
    ASSUME NEW out, Aside(out), hole' = Punched(out)
    PROVE  UNCHANGED SrvHole
  <1>1. ASSUME NEW a \in Natted
        PROVE  hole'[a] \cap {SrvAddr} = hole[a] \cap {SrvAddr}
    <2>1. hole'[a] = hole[a] \cup {d.dst : d \in {e \in out : e.src = a}}
      BY DEF Punched
    <2>2. SrvAddr \notin {d.dst : d \in {e \in out : e.src = a}}
      BY DEF Aside
    <2> QED
      BY <2>1, <2>2
  <1> QED
    BY <1>1 DEF SrvHole

\* A datagram that goes at most loses the server's traffic one.
LEMMA ReadAside ==
    ASSUME UNCHANGED <<SrvHole, srvVars>>, SrvNet' \subseteq SrvNet
    PROVE  Srv!Next
  <1>1. SrvNet' = SrvNet \ (SrvNet \ SrvNet')
    OBVIOUS
  <1>2. Srv!ClientsRead
    BY <1>1 DEF Srv!ClientsRead, Srv!srvVars, srvVars
  <1> QED
    BY <1>2 DEF Srv!Next

\* So does a datagram that a client receives and answers another client.
LEMMA ExchangeAside ==
    ASSUME NEW d, NEW out, Aside(out), Exchange(d, out), UNCHANGED srvVars
    PROVE  Srv!Next
  <1>1. UNCHANGED SrvHole
    BY HoleAside DEF Exchange
  <1>2. SrvNet' \subseteq SrvNet
    BY DEF Exchange, Carried, SrvNet, Aside
  <1> QED
    BY <1>1, <1>2, ReadAside

\* A client's steps: one that registers sends the server a request, and one
\* that types sends none.
LEMMA PeerStepServed ==
    ASSUME IInv, NEW p \in Peers, PeerStep(p)
    PROVE  [Srv!Next]_(Srv!vars)
  <1>1. AddrOf[p] # SrvAddr /\ \A a \in PeerAddr : a # SrvAddr
    BY PortAssumption DEF PeerAddr
  <1>2. CASE Start(p) \/ Stop(p)
    BY <1>2 DEF Start, Stop, Srv!vars, Srv!netVars, Srv!srvVars, netVars, srvVars,
                SrvNet, SrvHole
  <1>3. CASE PeerRegisters(p)
    <2> DEFINE d == FromPeer("SRV_REGISTER", p)
    <2>1. Put({d}) /\ UNCHANGED srvVars
      BY <1>3 DEF PeerRegisters, Register
    <2>2. d.dst = SrvAddr
      BY DEF FromPeer, Datagram
    <2>3. d \in Srv!Requests
      BY SrvSame DEF Srv!Requests, Srv!Verbs
    <2> HIDE DEF d
    <2>4. Srv!Put({d})
      BY <2>1, <2>2, PutWithServer DEF WithServer
    <2>5. Srv!ClientsSend(d)
      BY <2>1, <2>4 DEF Srv!ClientsSend, Srv!srvVars, srvVars
    <2> QED
      BY <2>3, <2>5 DEF Srv!Next
  <1>4. CASE PeerSends(p)
    <2>1. PICK line \in Lines : Put({Direct(line, AddrOf[p], a) : a \in pers[p]})
      BY <1>4 DEF PeerSends, SendLine
    <2> DEFINE out == {Direct(line, AddrOf[p], a) : a \in pers[p]}
    <2>2. pers[p] \subseteq PeerAddr
      BY DEF IInv, PeerInv, PeerTypeOK
    <2>3. Aside(out)
      BY <1>1, <2>2 DEF Aside, Direct, Datagram
    <2> HIDE DEF out
    <2>4. UNCHANGED SrvHole
      BY <2>1, <2>3, HoleAside DEF Put, out
    <2>5. SrvNet' = SrvNet
      BY <2>1, <2>3 DEF Put, Carried, SrvNet, Aside, out
    <2> QED
      BY <1>4, <2>4, <2>5 DEF PeerSends, Srv!vars, Srv!netVars, Srv!srvVars, srvVars
  <1> QED
    BY <1>2, <1>3, <1>4 DEF PeerStep

\* What a client receives it answers to another client, or not at all.
LEMMA PeerGetsServed ==
    ASSUME IInv, NEW p \in Peers, NEW d, PeerGets(p, d)
    PROVE  Srv!Next
  <1>1. announced \in SUBSET Peers /\ UNCHANGED srvVars /\ PeerReceive(p, d)
    BY DEF PeerGets, IInv, PeerInv, PeerTypeOK
  <1>2. AddrOf[p] # SrvAddr /\ \A a \in PeerAddr : a # SrvAddr
    BY PortAssumption DEF PeerAddr
  <1>3. \A a, b : <<a, b>> \in OppositeAddrs(announced) => a \in PeerAddr /\ b \in PeerAddr
    BY <1>1, OppositeAddrsIs DEF PeerAddr
  <1>4. CASE RecvSetPeer(p, d)
    <2>1. d \in WireAmong(announced) /\ d.verb = "SRV_SET_PEER"
      BY <1>4 DEF RecvSetPeer, Exchange, Deliverable, IInv, NetInv, NetSound
    <2>2. d.info \in PeerAddr
      BY <1>1, <1>3, <2>1, WireFields
    <2>3. Aside({Direct("PER_PING", AddrOf[p], d.info)})
      BY <1>2, <2>2 DEF Aside, Direct, Datagram
    <2> QED
      BY <1>1, <1>4, <2>3, ExchangeAside DEF RecvSetPeer
  <1>5. CASE RecvPing(p, d)
    <2>1. d \in WireAmong(announced) /\ d.verb \in DirectVerbs
      BY <1>5 DEF RecvPing, Exchange, Deliverable, IInv, NetInv, NetSound, Reads,
                  DirectVerbs
    <2>2. d.src \in PeerAddr
      BY <1>1, <1>3, <2>1, WireFields
    <2>3. Aside({Direct("PER_PONG", AddrOf[p], d.src)})
      BY <1>2, <2>2 DEF Aside, Direct, Datagram
    <2> QED
      BY <1>1, <1>5, <2>3, ExchangeAside DEF RecvPing
  <1>6. CASE Exchange(d, {})
    BY <1>1, <1>6, ExchangeAside DEF Aside
  <1> QED
    BY <1>1, <1>4, <1>5, <1>6
    DEF PeerReceive, RecvRegisterred, RecvUnregistered, RecvSrvPing,
        RecvPong, RecvLine, RecvData, RecvInvalid

\* What the server receives it handles alike: one step per verb.
LEMMA ServerGetsServed ==
    ASSUME NEW d, ServerGets(d)
    PROVE  Srv!Next
  <1>1. /\ d.dst = SrvAddr /\ srvUp /\ spc = "select"
        /\ d \in net
    BY DEF ServerGets, SrvReceive, SrvRepeated, SrvStore, SrvUpdateTime,
           SrvUnregister, SrvDrop, Listening, Exchange, Deliverable
  <1>2. Srv!Listening(d) /\ d \in SrvNet
    BY <1>1 DEF Srv!Listening, SrvNet
  <1>3. \A v : WithServer({FromSrv(v, d.src)}) /\ WithServer({})
    BY DEF WithServer, FromSrv, Datagram
  <1>4. ASSUME Srv!SrvReceive(d)
        PROVE  Srv!Next
    BY <1>2, <1>4 DEF Srv!ServerReceives, Srv!Next
  <1>5. \A b : LoopOn(b) => Srv!LoopOn(b)
    BY DEF LoopOn, Srv!LoopOn, SweepDue, Srv!SweepDue
  <1>6. Exchange(d, {}) => Srv!Exchange(d, {})
    BY <1>1, <1>3, ExchangeWithServer
  <1>7. CASE SrvRepeated(d)
    BY <1>2, <1>4, <1>5, <1>6, <1>7
    DEF SrvRepeated, Repeated, Srv!SrvReceive, Srv!SrvRepeated, Srv!Repeated
  <1>8. CASE SrvStore(d)
    <2> DEFINE row == RowOf(d.src, d.info)
               out(o) == IF StoreResult(o)
                         THEN {FromSrv("SRV_REGISTERRED", d.src)} ELSE {}
    <2>1. PICK o \in StoreOutcomes(row) :
              /\ rows' = IF o.inserted THEN rows \cup {row} ELSE rows
              /\ stale' = IF o.inserted \/ o.updated THEN stale \ {row} ELSE stale
              /\ dirty' = StoreResult(o)
              /\ Exchange(d, out(o))
      BY <1>8 DEF SrvStore
    <2>2. WithServer(out(o))
      BY <1>3
    <2>3. Srv!Exchange(d, out(o))
      BY <1>1, <2>1, <2>2, ExchangeWithServer
    <2>4. row = Srv!RowOf(d.src, d.info)
      BY SrvSame
    <2>5. /\ o \in Srv!StoreOutcomes(row)
          /\ StoreResult(o) = Srv!StoreResult(o)
          /\ FromSrv("SRV_REGISTERRED", d.src) = Srv!FromSrv("SRV_REGISTERRED", d.src)
      BY SrvSame DEF StoreOutcomes, Srv!StoreOutcomes, StoreResult, Srv!StoreResult
    <2> HIDE DEF row
    <2>6. /\ d.verb = "SRV_REGISTER" /\ ~Srv!Repeated(d.info) /\ prev' = d.info
          /\ Srv!LoopOn(dirty') /\ UNCHANGED <<srvUp, sweepAge>>
      BY <1>5, <1>8 DEF SrvStore, Repeated, Srv!Repeated
    <2>7. Srv!SrvStore(d)
      BY <1>2, <2>1, <2>3, <2>4, <2>5, <2>6 DEF Srv!SrvStore
    <2> QED
      BY <1>4, <2>7 DEF Srv!SrvReceive
  <1>9. CASE SrvUpdateTime(d)
    <2>1. Srv!SrvUpdateTime(d)
      BY <1>2, <1>5, <1>6, <1>9 DEF SrvUpdateTime, Srv!SrvUpdateTime, Succeeds,
         Srv!Succeeds, StaleWithout, Srv!StaleWithout
    <2> QED
      BY <1>4, <2>1 DEF Srv!SrvReceive
  <1>10. CASE SrvUnregister(d)
    <2>1. Srv!Exchange(d, {Srv!FromSrv("CLEAR", d.src)})
      BY <1>1, <1>3, <1>10, SrvSame, ExchangeWithServer DEF SrvUnregister
    <2>2. Srv!SrvUnregister(d)
      BY <1>2, <1>5, <1>10, <2>1 DEF SrvUnregister, Srv!SrvUnregister, RemoveResults,
         Srv!RemoveResults
    <2> QED
      BY <1>4, <2>2 DEF Srv!SrvReceive
  <1>11. CASE SrvDrop(d)
    <2>1. Srv!SrvDrop(d)
      BY <1>2, <1>5, <1>6, <1>11 DEF SrvDrop, Srv!SrvDrop, Dropped, Srv!Dropped
    <2> QED
      BY <1>4, <2>1 DEF Srv!SrvReceive
  <1> QED
    BY <1>7, <1>8, <1>9, <1>10, <1>11 DEF ServerGets, SrvReceive

\* The server's own steps, and what happens to its process and its clock.
LEMMA ServerStepServed ==
    ASSUME ServerStep \/ Midnight \/ Tick
    PROVE  Srv!Next
  <1>1. UNCHANGED netVars => UNCHANGED <<SrvNet, SrvHole>>
    BY DEF netVars, SrvNet, SrvHole
  <1>2. CASE ServerTimeout
    BY <1>1, <1>2 DEF ServerTimeout, SrvTimeout, Srv!ServerTimeout, Srv!SrvTimeout,
       SweepDue, Srv!SweepDue, Srv!netVars, Srv!Next
  <1>3. CASE ServerSweeps
    <2>1. PICK seen \in Readable : Put(Introductions(seen))
      BY <1>3 DEF ServerSweeps, SrvSweep
    <2>2. WithServer(Introductions(seen))
      BY DEF WithServer, Introductions, FromSrv, SetPeer, Datagram
    <2>3. Srv!Put(Srv!Introductions(seen)) /\ seen \in Srv!Readable
      BY <2>1, <2>2, PutWithServer, SrvSame DEF Readable, Srv!Readable
    <2>4. Srv!SrvSweep
      BY <1>3, <2>3 DEF ServerSweeps, SrvSweep, Srv!SrvSweep, ClearedPrev,
         Srv!ClearedPrev, Succeeds, Srv!Succeeds, Fresh, Srv!Fresh
    <2> QED
      BY <2>4 DEF Srv!Next
  <1>4. CASE ServerCrash
    BY <1>1, <1>4 DEF ServerCrash, SrvStop, Srv!SrvStop, Srv!Process, Srv!netVars, Srv!Next
  <1>5. CASE ServerStart
    BY <1>1, <1>5 DEF ServerStart, SrvStart, Srv!SrvStart, KeptRows, Srv!KeptRows,
       Srv!Process, Srv!netVars, Srv!Next
  <1>6. CASE Midnight
    BY <1>1, <1>6 DEF Midnight, DayTurns, Srv!DayTurns, Srv!Process, Srv!netVars, Srv!Next
  <1>7. CASE Tick
    BY <1>1, <1>7 DEF Tick, SrvTick, Srv!SrvTick, SweepDue, Srv!SweepDue,
       Srv!ServerTick, Srv!netVars, Srv!Next
  <1> QED
    BY <1>2, <1>3, <1>4, <1>5, <1>6, <1>7 DEF ServerStep

\* Whatever the clients, the network and the faults do, the server's part of
\* the system is the server against clients that send anything, so that what
\* is proved of that one is true in the system (u_server.cpp:43-93,
\* a_peer.cpp:138-154).
THEOREM SystemServesAlone == Spec => ImplementsServerAlone
  <1>1. Init => Srv!Init
    BY DEF Init, NetInit, SrvInit, Srv!Init, Srv!NetInit, Srv!SrvInit, SrvNet, SrvHole
  <1>2. IInv /\ [Next]_vars => [Srv!Next]_(Srv!vars)
    <2> SUFFICES ASSUME IInv, [Next]_vars
                 PROVE  [Srv!Next]_(Srv!vars)
      OBVIOUS
    <2>1. CASE NetworkStep
      <3>1. PICK d \in net : Delivered(d) \/ Lost(d)
        BY <2>1 DEF NetworkStep
      <3>2. CASE Lost(d)
        <4>1. UNCHANGED <<SrvHole, srvVars>> /\ SrvNet' \subseteq SrvNet
          BY <3>2 DEF Lost, Lose, SrvHole, SrvNet
        <4> QED
          BY <4>1, ReadAside
      <3> QED
        BY <3>1, <3>2, ServerGetsServed, PeerGetsServed DEF Delivered
    <2>2. CASE UNCHANGED vars
      BY <2>2 DEF vars, netVars, srvVars, Srv!vars, Srv!netVars, Srv!srvVars,
                  SrvNet, SrvHole
    <2> QED
      BY <2>1, <2>2, PeerStepServed, ServerStepServed DEF Next
  <1> QED
    BY <1>1, <1>2, Invariant, PTL DEF Spec, ImplementsServerAlone, Srv!Spec

-----------------------------------------------------------------------------
(* With typed lines that are shorter than a SrvCap everything on the wire  *)
(* is what its verb says.                                                  *)

ShortLines == Lines \subseteq {"LINE"}

NoClear == \A d \in net : d.verb # "CLEAR"

\* Sending and receiving keep that, when what is sent does.
LEMMA PutNoClear ==
    ASSUME NoClear, NEW out, Put(out), \A e \in out : e.verb # "CLEAR"
    PROVE  NoClear'
  BY DEF NoClear, Put, Carried

\* And so when something is received.
LEMMA ExchangeNoClear ==
    ASSUME NoClear, NEW d, NEW out, Exchange(d, out),
           \A e \in out : e.verb # "CLEAR"
    PROVE  NoClear'
  BY DEF NoClear, Exchange, Carried

\* No program sends unsealed bytes of a SrvCap's length: the only reply of
\* that kind answers a verb that no client sends.
LEMMA NoClearKept ==
    ASSUME ShortLines, IInv, NoClear, [Next]_vars
    PROVE  NoClear'
  <1>1. CASE UNCHANGED net
    BY <1>1 DEF NoClear
  <1>2. CASE \E p \in Peers : PeerStep(p)
    <2>1. PICK p \in Peers : PeerStep(p)
      BY <1>2
    <2>2. CASE Start(p) \/ Stop(p)
      BY <2>2, <1>1 DEF Start, Stop, netVars
    <2>3. CASE PeerRegisters(p)
      BY <2>3, PutNoClear DEF PeerRegisters, Register, FromPeer, Datagram
    <2>4. CASE PeerSends(p)
      <3>1. PICK line \in Lines : SendLine(p, line)
        BY <2>4 DEF PeerSends
      <3>2. line = "LINE"
        BY DEF ShortLines
      <3>3. \A e \in {Direct(line, AddrOf[p], a) : a \in pers[p]} : e.verb # "CLEAR"
        BY <3>2 DEF Direct, Datagram
      <3> QED
        BY <3>1, <3>3, PutNoClear DEF SendLine
    <2> QED
      BY <2>1, <2>2, <2>3, <2>4 DEF PeerStep
  <1>3. CASE ServerStep
    <2>1. CASE ServerSweeps
      <3>1. PICK seen \in Readable : Put(Introductions(seen))
        BY <2>1 DEF ServerSweeps, SrvSweep
      <3>2. \A e \in Introductions(seen) : e.verb # "CLEAR"
        BY DEF Introductions, FromSrv, SetPeer, Datagram
      <3> QED
        BY <3>1, <3>2, PutNoClear
    <2>2. CASE ServerTimeout \/ ServerCrash \/ ServerStart
      BY <2>2, <1>1 DEF ServerTimeout, ServerCrash, ServerStart, netVars
    <2> QED
      BY <1>3, <2>1, <2>2 DEF ServerStep
  <1>4. CASE NetworkStep
    <2>1. PICK d \in net : Delivered(d) \/ Lost(d)
      BY <1>4 DEF NetworkStep
    <2>2. CASE Lost(d)
      BY <2>2 DEF Lost, Lose, NoClear
    <2>3. CASE ServerGets(d)
      <3>1. CASE SrvRepeated(d) \/ SrvUpdateTime(d) \/ SrvDrop(d)
        BY <3>1, ExchangeNoClear DEF SrvRepeated, SrvUpdateTime, SrvDrop
      <3>2. CASE SrvStore(d)
        <4>1. PICK o : Exchange(d, IF StoreResult(o)
                                   THEN {FromSrv("SRV_REGISTERRED", d.src)} ELSE {})
          BY <3>2 DEF SrvStore
        <4> QED
          BY <4>1, ExchangeNoClear DEF FromSrv, Datagram
      <3>3. CASE SrvUnregister(d)
        <4>1. d \in WireAmong(announced) /\ d.verb = "SRV_UNREGISTER"
          BY <3>3 DEF SrvUnregister, IInv, NetInv, NetSound
        <4>2. announced \in SUBSET Peers
          BY DEF IInv, PeerInv, PeerTypeOK
        <4> QED
          BY <4>1, <4>2, WireFields DEF DirectVerbs
      <3> QED
        BY <2>3, <3>1, <3>2, <3>3 DEF ServerGets, SrvReceive
    <2>4. CASE \E p \in Peers : PeerGets(p, d)
      <3>1. PICK p \in Peers : PeerReceive(p, d)
        BY <2>4 DEF PeerGets
      <3>2. CASE RecvSetPeer(p, d)
        BY <3>2, ExchangeNoClear DEF RecvSetPeer, Direct, Datagram
      <3>3. CASE RecvPing(p, d)
        BY <3>3, ExchangeNoClear DEF RecvPing, Direct, Datagram
      <3>4. CASE Exchange(d, {})
        BY <3>4, ExchangeNoClear
      <3> QED
        BY <3>1, <3>2, <3>3, <3>4
        DEF PeerReceive, RecvRegisterred, RecvUnregistered, RecvSrvPing,
            RecvPong, RecvLine, RecvData, RecvInvalid
    <2> QED
      BY <2>1, <2>2, <2>3, <2>4 DEF Delivered
  <1>5. CASE Midnight \/ Tick
    BY <1>5, <1>1 DEF Midnight, Tick, netVars
  <1>6. CASE UNCHANGED vars
    BY <1>6, <1>1 DEF vars, netVars
  <1> QED
    BY <1>2, <1>3, <1>4, <1>5, <1>6 DEF Next

-----------------------------------------------------------------------------
(* What a step can change of what clients know of each other.              *)

visible == <<pers, shown, status, announced>>

\* The addresses that a client can have been introduced to.
Introducible(p, a) == <<AddrOf[p], a>> \in OppositeAddrs(announced)

Forgets(p) ==
    /\ pers' = [pers EXCEPT ![p] = {}]
    /\ shown' = [shown EXCEPT ![p] = {}]
    /\ status' = [status EXCEPT ![p] = "SRV_UNREGISTERED"]
    /\ UNCHANGED announced

Announces(p) ==
    /\ announced' = announced \cup {p}
    /\ UNCHANGED <<pers, shown, status>>

Admits(p, a) ==
    /\ Introducible(p, a)
    /\ pers' = [pers EXCEPT ![p] = Insert(@, a)]
    /\ status' = [status EXCEPT ![p] = "PER_LINKED"]
    /\ UNCHANGED <<shown, announced>>

Shows(p, a) ==
    /\ Introducible(p, a)
    /\ Knows(p, a)
    /\ shown' = [shown EXCEPT ![p] = @ \cup {a}]
    /\ UNCHANGED <<pers, status, announced>>

Change ==
    \E p \in Peers :
        \/ Forgets(p)
        \/ Announces(p)
        \/ \E a : Admits(p, a) \/ Shows(p, a)

\* A direct datagram that a client receives comes from an address that it can
\* have been introduced to.
LEMMA DirectSource ==
    ASSUME IInv, NEW p \in Peers, NEW d \in net,
           d.dst = AddrOf[p], d.verb \in DirectVerbs
    PROVE  Introducible(p, d.src)
  <1>1. d \in WireAmong(announced) /\ announced \in SUBSET Peers
    BY DEF IInv, NetInv, NetSound, PeerInv, PeerTypeOK
  <1>2. <<d.src, AddrOf[p]>> \in OppositeAddrs(announced)
    BY <1>1, WireFields
  <1> QED
    BY <1>2, OppositeAddrsSymmetric DEF Introducible

\* A datagram that a client receives adds a member or shows a line of somebody
\* the client knows, if it changes anything of this.
LEMMA PeerGetsChange ==
    ASSUME IInv, NoClear, NEW p \in Peers, NEW d \in net, PeerReceive(p, d)
    PROVE  Change \/ UNCHANGED visible
  <1> USE DEF visible
  <1>1. status \in [Peers -> Statuses]
    BY DEF IInv, PeerInv, PeerTypeOK
  <1>2. d.verb # "CLEAR"
    BY DEF NoClear
  <1>3. d.verb \in {"SRV_REGISTER", "SRV_REGISTERRED", "SRV_PING",
                    "SRV_SET_PEER"} \cup DirectVerbs
    <2>1. announced \in SUBSET Peers /\ d \in WireAmong(announced)
      BY DEF IInv, NetInv, NetSound, PeerInv, PeerTypeOK
    <2> QED
      BY <2>1, WireFields
  <1>4. CASE RecvRegisterred(p, d) \/ RecvSrvPing(p, d)
    <2>1. Registerred(status[p]) = status[p]
      BY <1>1, RegisterredIsIdentity
    <2>2. status' = [status EXCEPT ![p] = status[p]]
      BY <1>4, <2>1 DEF RecvRegisterred, RecvSrvPing
    <2>3. status' = status
      BY <1>1, <2>2
    <2> QED
      BY <1>4, <2>3 DEF RecvRegisterred, RecvSrvPing
  <1>5. CASE RecvSetPeer(p, d) \/ RecvPing(p, d) \/ RecvInvalid(p, d)
    BY <1>5 DEF RecvSetPeer, RecvPing, RecvInvalid, peerVars
  <1>6. CASE RecvUnregistered(p, d) \/ RecvData(p, d)
    BY <1>2, <1>3, <1>6 DEF RecvUnregistered, RecvData, Reads, DirectVerbs
  <1>7. CASE RecvPong(p, d)
    <2>1. d.dst = AddrOf[p] /\ d.verb \in DirectVerbs
      BY <1>2, <1>7 DEF RecvPong, Reads, FromPeerTo, Receives, DirectVerbs
    <2>2. Admits(p, d.src)
      BY <1>7, <2>1, DirectSource DEF RecvPong, Admits
    <2> QED
      BY <2>2 DEF Change
  <1>8. CASE RecvLine(p, d)
    <2>1. CASE ~Knows(p, d.src)
      BY <1>8, <2>1 DEF RecvLine
    <2>2. CASE Knows(p, d.src)
      <3>1. d.dst = AddrOf[p] /\ d.verb \in DirectVerbs
        BY <1>8 DEF RecvLine, Receives, DirectVerbs
      <3>2. Shows(p, d.src)
        BY <1>8, <2>2, <3>1, DirectSource DEF RecvLine, DataIn, Shows
      <3> QED
        BY <3>2 DEF Change
    <2> QED
      BY <2>1, <2>2
  <1> QED
    BY <1>4, <1>5, <1>6, <1>7, <1>8 DEF PeerReceive

\* Nothing else changes it but the start, the end and the registration of a
\* client.
LEMMA NextChange ==
    ASSUME IInv, NoClear, [Next]_vars
    PROVE  Change \/ UNCHANGED visible
  <1>1. CASE UNCHANGED peerVars
    BY <1>1 DEF visible, peerVars
  <1>2. CASE \E p \in Peers : PeerStep(p)
    <2>1. PICK p \in Peers : PeerStep(p)
      BY <1>2
    <2>2. CASE Start(p) \/ Stop(p)
      <3>1. Forgets(p)
        BY <2>2 DEF Start, Stop, StartPeer, StopPeer, Forgets
      <3> QED
        BY <3>1 DEF Change
    <2>3. CASE PeerRegisters(p)
      <3>1. Announces(p)
        BY <2>3 DEF PeerRegisters, Register, Announces
      <3> QED
        BY <3>1 DEF Change
    <2>4. CASE PeerSends(p)
      BY <1>1, <2>4 DEF PeerSends, SendLine
    <2> QED
      BY <2>1, <2>2, <2>3, <2>4 DEF PeerStep
  <1>3. CASE ServerStep
    BY <1>1, <1>3 DEF ServerStep, ServerTimeout, ServerSweeps, ServerCrash, ServerStart
  <1>4. CASE NetworkStep
    <2>1. PICK d \in net : Delivered(d) \/ Lost(d)
      BY <1>4 DEF NetworkStep
    <2>2. CASE ServerGets(d) \/ Lost(d)
      BY <1>1, <2>2 DEF ServerGets, Lost
    <2>3. CASE \E p \in Peers : PeerGets(p, d)
      BY <2>3, PeerGetsChange DEF PeerGets
    <2> QED
      BY <2>1, <2>2, <2>3 DEF Delivered
  <1>5. CASE Midnight
    BY <1>1, <1>5 DEF Midnight
  <1>6. CASE Tick
    BY <1>6 DEF Tick, visible
  <1>7. CASE UNCHANGED vars
    BY <1>1, <1>7 DEF vars
  <1> QED
    BY <1>2, <1>3, <1>4, <1>5, <1>6, <1>7 DEF Next

-----------------------------------------------------------------------------
(* The keyboard.                                                           *)

\* An admitted client has a member, and one that forgets has none.
LEMMA ChangeKeepsKeyboard ==
    ASSUME IInv, LinkedIffMember, Change \/ UNCHANGED visible
    PROVE  LinkedIffMember'
  <1>1. status \in [Peers -> Statuses] /\ pers \in [Peers -> SUBSET PeerAddr]
    BY DEF IInv, PeerInv, PeerTypeOK
  <1>2. CASE UNCHANGED visible
    BY <1>2 DEF visible, LinkedIffMember
  <1>3. CASE \E p \in Peers : Forgets(p)
    BY <1>1, <1>3 DEF Forgets, LinkedIffMember
  <1>4. CASE \E p \in Peers : Announces(p)
    BY <1>4 DEF Announces, LinkedIffMember
  <1>5. ASSUME NEW p \in Peers, NEW a, Admits(p, a)
        PROVE  LinkedIffMember'
    BY <1>1, <1>5, InsertIs DEF Admits, LinkedIffMember
  <1>6. CASE \E p \in Peers : \E a : Shows(p, a)
    BY <1>6 DEF Shows, LinkedIffMember
  <1> QED
    BY <1>2, <1>3, <1>4, <1>5, <1>6 DEF Change

\* With short lines, everything a client is told is what it says, and it has
\* the keyboard open exactly when it has members.
Told == IInv /\ NoClear /\ LinkedIffMember

\* That is inductive.
LEMMA ToldInvariant ==
    ASSUME ShortLines
    PROVE  Spec => []Told
  <1>1. Init => Told
    <2>1. Init => NoClear /\ LinkedIffMember
      BY DEF Init, NetInit, PeerInit, NoClear, LinkedIffMember
    <2> QED
      BY <2>1, InitInv DEF Told
  <1>2. Told /\ [Next]_vars => Told'
    BY NextInv, NoClearKept, NextChange, ChangeKeepsKeyboard DEF Told
  <1> QED
    BY <1>1, <1>2, PTL DEF Spec

\* The keyboard of a client is open exactly when it has someone to send to,
\* whatever is lost, repeated or restarted, and whatever ports the clients
\* have (a_peer.cpp:114, a_peer.cpp:262-263).
THEOREM KeyboardFollowsMembers ==
    ASSUME ShortLines
    PROVE  Spec => []LinkedIffMember
  <1>1. Told => LinkedIffMember
    BY DEF Told
  <1> QED
    BY <1>1, ToldInvariant, PTL

-----------------------------------------------------------------------------
(* Members, what is shown, and the promise.                                *)

\* What is shown comes from a port of a member.
LEMMA ChangeKeepsHeard ==
    ASSUME IInv, HeardOnMemberPorts, Change \/ UNCHANGED visible
    PROVE  HeardOnMemberPorts'
  <1>1. /\ pers \in [Peers -> SUBSET PeerAddr]
        /\ shown \in [Peers -> SUBSET PeerAddr]
    BY DEF IInv, PeerInv, PeerTypeOK
  <1>2. CASE UNCHANGED visible
    BY <1>2 DEF visible, HeardOnMemberPorts
  <1>3. CASE \E p \in Peers : Forgets(p)
    BY <1>1, <1>3 DEF Forgets, HeardOnMemberPorts
  <1>4. CASE \E p \in Peers : Announces(p)
    BY <1>4 DEF Announces, HeardOnMemberPorts
  <1>5. ASSUME NEW p \in Peers, NEW a, Admits(p, a)
        PROVE  HeardOnMemberPorts'
    <2>1. \A q \in Peers : pers[q] \subseteq pers'[q]
      BY <1>1, <1>5, InsertIs DEF Admits
    <2> QED
      BY <1>5, <2>1 DEF Admits, HeardOnMemberPorts
  <1>6. ASSUME NEW p \in Peers, NEW a, Shows(p, a)
        PROVE  HeardOnMemberPorts'
    <2>1. \E b \in pers[p] : a.port = b.port
      BY <1>6 DEF Shows, Knows, SameAddr
    <2> QED
      BY <1>1, <1>6, <2>1 DEF Shows, HeardOnMemberPorts
  <1> QED
    BY <1>2, <1>3, <1>4, <1>5, <1>6 DEF Change

\* A client shows data only of hosts on the ports of its members, whatever
\* ports, hosts and roles the clients have, and whatever is lost, repeated or
\* restarted (a_peer.cpp:144-150, a_peer.cpp:262).
THEOREM DataOnMemberPorts ==
    ASSUME ShortLines
    PROVE  Spec => []HeardOnMemberPorts
  <1>1. Init => HeardOnMemberPorts
    BY DEF Init, PeerInit, HeardOnMemberPorts
  <1>2. Told /\ HeardOnMemberPorts /\ [Next]_vars => HeardOnMemberPorts'
    BY NextChange, ChangeKeepsHeard DEF Told
  <1> QED
    BY <1>1, <1>2, ToldInvariant, PTL DEF Spec

\* The abstract promise is kept by every change.
LEMMA ChangeIsPromised ==
    ASSUME DistinctAddrs, IInv, Change \/ UNCHANGED visible
    PROVE  [Promise!Next]_(Promise!vars)
  <1> DEFINE linked == [p \in Peers |-> PeersAt(pers[p])]
             heard == [p \in Peers |-> PeersAt(shown[p])]
  <1>1. /\ pers \in [Peers -> SUBSET PeerAddr]
        /\ shown \in [Peers -> SUBSET PeerAddr]
    BY DEF IInv, PeerInv, PeerTypeOK
  <1>2. PeersAt({}) = {}
    BY DEF PeersAt
  <1>3. \A A : \A q \in Peers : PeersAt(A \cup {AddrOf[q]}) = PeersAt(A) \cup {q}
    BY DEF PeersAt, DistinctAddrs
  <1>4. CASE UNCHANGED visible
    BY <1>4 DEF visible, Promise!vars, PeersAt
  <1>5. ASSUME NEW p \in Peers, Forgets(p) PROVE Promise!Next
    <2>1. linked' = [linked EXCEPT ![p] = {}]
      BY <1>1, <1>2, <1>5 DEF Forgets
    <2>2. heard' = [heard EXCEPT ![p] = {}]
      BY <1>1, <1>2, <1>5 DEF Forgets
    <2>3. Promise!Forget(p)
      BY <1>5, <2>1, <2>2 DEF Forgets, Promise!Forget
    <2> QED
      BY <2>3 DEF Promise!Next
  <1>6. ASSUME NEW p \in Peers, Announces(p) PROVE Promise!Next
    <2>1. linked' = linked /\ heard' = heard
      BY <1>6 DEF Announces, PeersAt
    <2>2. Promise!Announce(p)
      BY <1>6, <2>1 DEF Announces, Promise!Announce
    <2> QED
      BY <2>2 DEF Promise!Next
  <1>7. ASSUME NEW p \in Peers, NEW a, Introducible(p, a)
        PROVE  \E q \in Peers :
                   a = AddrOf[q] /\ {p, q} \subseteq announced /\ TypOf[p] # TypOf[q]
    <2>1. announced \subseteq Peers
      BY DEF IInv, PeerInv, PeerTypeOK
    <2>2. PICK x, q \in announced :
              AddrOf[p] = AddrOf[x] /\ a = AddrOf[q] /\ Opposite(x, q)
      BY <1>7, OppositeAddrsIs DEF Introducible
    <2>3. x = p
      BY <2>1, <2>2 DEF DistinctAddrs
    <2> QED
      BY <2>1, <2>2, <2>3 DEF Opposite
  <1>8. ASSUME NEW p \in Peers, NEW a, Admits(p, a)
        PROVE  Promise!Next \/ UNCHANGED Promise!vars
    <2> USE DEF Promise!vars
    <2>1. PICK q \in Peers :
              a = AddrOf[q] /\ {p, q} \subseteq announced /\ TypOf[p] # TypOf[q]
      BY <1>7, <1>8 DEF Admits
    <2>2. heard' = heard
      BY <1>8 DEF Admits, PeersAt
    <2>3. CASE pers' = pers
      BY <1>8, <2>2, <2>3 DEF Admits, PeersAt
    <2>4. CASE pers' = [pers EXCEPT ![p] = pers[p] \cup {AddrOf[q]}]
      <3>1. linked' = [linked EXCEPT ![p] = @ \cup {q}]
        BY <1>1, <1>3, <2>4
      <3>2. Promise!Link(p, q)
        BY <1>8, <2>1, <2>2, <3>1 DEF Admits, Promise!Link, Promise!Partners
      <3> QED
        BY <3>2 DEF Promise!Next
    <2>5. Insert(pers[p], a) \in {pers[p], pers[p] \cup {AddrOf[q]}}
      BY <2>1 DEF Insert
    <2>6. pers' = pers \/ pers' = [pers EXCEPT ![p] = pers[p] \cup {AddrOf[q]}]
      BY <1>1, <1>8, <2>5 DEF Admits
    <2> QED
      BY <2>3, <2>4, <2>6
  <1>9. ASSUME NEW p \in Peers, NEW a, Shows(p, a) PROVE Promise!Next
    <2>1. PICK q \in Peers :
              a = AddrOf[q] /\ {p, q} \subseteq announced /\ TypOf[p] # TypOf[q]
      BY <1>7, <1>9 DEF Shows
    <2>2. heard' = [heard EXCEPT ![p] = @ \cup {q}]
      BY <1>1, <1>3, <1>9, <2>1 DEF Shows
    <2>3. linked' = linked
      BY <1>9 DEF Shows, PeersAt
    <2>4. PICK b \in pers[p] : a.port = b.port
      BY <1>9 DEF Shows, Knows, SameAddr
    <2>5. PICK r \in Peers : b = AddrOf[r]
      BY <1>1, <2>4 DEF PeerAddr
    <2>6. /\ r \in linked[p]
          /\ AddrOf[r].port = AddrOf[q].port
      BY <2>1, <2>4, <2>5 DEF PeersAt
    <2>7. Promise!Hear(p, q)
      BY <1>9, <2>1, <2>2, <2>3, <2>6 DEF Shows, Promise!Hear, Promise!Partners
    <2> QED
      BY <2>7 DEF Promise!Next
  <1> QED
    BY <1>4, <1>5, <1>6, <1>8, <1>9 DEF Change

\* The system implements its promise: the server, its table, the datagrams
\* and their faults together never do what Rendezvous does not allow
\* (a_peer.cpp:241-287, u_server.cpp:134-164).
THEOREM SystemImplementsPromise ==
    ASSUME ShortLines, DistinctAddrs
    PROVE  Spec => ImplementsRendezvous
  <1>1. Init => Promise!Init
    <2>1. PeersAt({}) = {}
      BY DEF PeersAt
    <2> QED
      BY <2>1 DEF Init, PeerInit, Promise!Init
  <1>2. Told /\ [Next]_vars => [Promise!Next]_(Promise!vars)
    BY NextChange, ChangeIsPromised DEF Told
  <1> QED
    BY <1>1, <1>2, ToldInvariant, PTL DEF Spec, ImplementsRendezvous, Promise!Spec
===============================================================================
