------------------------------- MODULE Perlink -------------------------------
(***************************************************************************)
(* The running system: the relay server, the clients and the network       *)
(* between them, with a bounded number of crashes, midnights and lost      *)
(* datagrams.                                                              *)
(***************************************************************************)
EXTENDS APeer, RelayServer

CONSTANTS
    Budget      \* how often each kind of fault may happen

Faults == {"stop", "crash", "day", "loss"}

ASSUME BudgetAssumption == Budget \in [Faults -> Nat]

VARIABLES
    spent       \* how often each kind of fault has happened

vars == <<netVars, srvVars, peerVars, spent>>

Init ==
    /\ NetInit
    /\ SrvInit
    /\ PeerInit
    /\ spent = [f \in Faults |-> 0]

Spend(f) ==
    /\ spent[f] < Budget[f]
    /\ spent' = [spent EXCEPT ![f] = @ + 1]

-----------------------------------------------------------------------------

Start(p) ==
    /\ StartPeer(p)
    /\ UNCHANGED <<netVars, srvVars, spent>>

Stop(p) ==
    /\ Spend("stop")
    /\ StopPeer(p)
    /\ UNCHANGED <<netVars, srvVars>>

PeerRegisters(p) ==
    /\ Register(p)
    /\ UNCHANGED <<srvVars, spent>>

PeerSends(p) ==
    /\ \E line \in Lines : SendLine(p, line)
    /\ UNCHANGED <<srvVars, spent>>

PeerGets(p, d) ==
    /\ PeerReceive(p, d)
    /\ UNCHANGED <<srvVars, spent>>

PeerStep(p) == Start(p) \/ Stop(p) \/ PeerRegisters(p) \/ PeerSends(p)

ServerGets(d) ==
    /\ SrvReceive(d)
    /\ UNCHANGED <<peerVars, spent>>

ServerTimeout ==
    /\ SrvTimeout
    /\ UNCHANGED <<netVars, peerVars, spent>>

ServerSweeps ==
    /\ SrvSweep
    /\ UNCHANGED <<peerVars, spent>>

ServerCrash ==
    /\ Spend("crash")
    /\ SrvStop
    /\ UNCHANGED <<netVars, peerVars>>

ServerStart ==
    /\ SrvStart
    /\ UNCHANGED <<netVars, peerVars, spent>>

ServerStep == ServerTimeout \/ ServerSweeps \/ ServerCrash \/ ServerStart

Midnight ==
    /\ Spend("day")
    /\ DayTurns
    /\ UNCHANGED <<netVars, peerVars>>

\* A second passes for everybody.
Tick ==
    /\ SrvTick
    /\ PeerTick
    /\ UNCHANGED <<netVars, srvUp, spc, rows, stale, prev, dirty,
                   up, status, pers, shown, announced, spent>>

Lost(d) ==
    /\ Spend("loss")
    /\ Lose(d)
    /\ UNCHANGED <<srvVars, peerVars>>

Delivered(d) == ServerGets(d) \/ \E p \in Peers : PeerGets(p, d)

NetworkStep == \E d \in net : Delivered(d) \/ Lost(d)

Next ==
    \/ \E p \in Peers : PeerStep(p)
    \/ ServerStep
    \/ NetworkStep
    \/ Midnight
    \/ Tick

Spec == Init /\ [][Next]_vars

-----------------------------------------------------------------------------
(* Fairness.  The programs' loops never block for long and a killed program *)
(* is started again; a second always passes; and a registration, an        *)
(* introduction, a ping or a pong that can be delivered is delivered or    *)
(* lost, which happens Budget["loss"] times.  The server cannot receive    *)
(* while it sweeps, but every turn of its loop reads a waiting datagram    *)
(* before it may sweep: hence SF for what it is sent.                      *)

RequiredBy(p) ==
    {d \in Wire : /\ d.dst = AddrOf[p]
                  /\ d.verb \in {"SRV_SET_PEER", "PER_PING", "PER_PONG"}}

Fairness ==
    /\ WF_vars(Tick)
    /\ WF_vars(ServerTimeout) /\ WF_vars(ServerSweeps) /\ WF_vars(ServerStart)
    /\ \A p \in Peers :
          /\ WF_vars(Start(p))
          /\ WF_vars(PeerRegisters(p))
          /\ SF_vars(ServerGets(FromPeer("SRV_REGISTER", p)))
          /\ \A d \in RequiredBy(p) : WF_vars(PeerGets(p, d))

FairSpec == Spec /\ Fairness

-----------------------------------------------------------------------------
(* Safety.                                                                 *)

RowsOf(S) == {RowOf(AddrOf[p], Payload(p)) : p \in S}

Payloads == {Payload(p) : p \in Peers}

Statuses == {"SRV_UNREGISTERED", "PER_LINKED"}

SrvTypeOK ==
    /\ srvUp \in BOOLEAN
    /\ spc \in {"select", "sweep"}
    /\ rows \subseteq RowsOf(Peers)
    /\ stale \subseteq rows
    /\ prev \in {None} \cup Payloads
    /\ dirty \in BOOLEAN
    /\ sweepAge \in 0 .. TTLIVE + 1

PeerTypeOK ==
    /\ up \in [Peers -> BOOLEAN]
    /\ status \in [Peers -> Statuses]
    /\ pers \in [Peers -> SUBSET PeerAddr]
    /\ regAge \in [Peers -> 0 .. REG_TICK + 1]
    /\ shown \in [Peers -> SUBSET PeerAddr]
    /\ announced \subseteq Peers

HoleTypeOK == hole \in [Natted -> SUBSET Addr]

SpentTypeOK == spent \in [Faults -> Nat]

\* Types.  In particular a client is only ever unregistered or linked: the
\* status SRV_REGISTERRED of the source is never reached (a_peer.cpp:210).
TypeOK ==
    /\ net \subseteq Wire
    /\ HoleTypeOK
    /\ SrvTypeOK
    /\ PeerTypeOK
    /\ SpentTypeOK

\* Every datagram in flight is one that the clients announced so far can have
\* caused, every row is an announced client's, and every member of a client,
\* and everybody whose data it has shown, is an announced client of the other
\* role (u_server.cpp:134-164, a_peer.cpp:241-287).
NetSound == net \subseteq WireAmong(announced)

RowsSound == rows \subseteq RowsOf(announced)

PersSound ==
    \A p \in Peers : \A a \in pers[p] : <<AddrOf[p], a>> \in OppositeAddrs(announced)

ShownSound ==
    \A p \in Peers : \A a \in shown[p] : <<AddrOf[p], a>> \in OppositeAddrs(announced)

Introduced == NetSound /\ RowsSound /\ PersSound /\ ShownSound

DistinctAddrs == \A p, q \in Peers : AddrOf[p] = AddrOf[q] => p = q

\* The keyboard of a client is open exactly when it has someone to send to:
\* its status and its set of members never disagree (a_peer.cpp:114,
\* a_peer.cpp:262-263).
LinkedIffMember ==
    \A p \in Peers : status[p] = "PER_LINKED" <=> pers[p] # {}

\* A client shows data of its members only: what the comment "check if rSIn
\* { _pers" asks for (a_peer.cpp:291).
HeardOnlyLinked == \A p \in Peers : shown[p] \subseteq pers[p]

\* Whoever's data a client has shown uses the port of a member of its own:
\* whatever is lost, repeated or restarted, a client without a link shows
\* nothing, and one that has links shows nothing from a port that no link goes
\* to (a_peer.cpp:144-150, a_peer.cpp:262).
HeardOnMemberPorts ==
    \A p \in Peers : \A a \in shown[p] : \E b \in pers[p] : a.port = b.port

-----------------------------------------------------------------------------
(* The abstract specification, with a client's members and the sources it  *)
(* has shown read as the clients that have those addresses.                *)

PeersAt(A) == {q \in Peers : AddrOf[q] \in A}

Promise == INSTANCE Rendezvous WITH
    PortOf <- [p \in Peers |-> AddrOf[p].port],
    linked <- [p \in Peers |-> PeersAt(pers[p])],
    heard <- [p \in Peers |-> PeersAt(shown[p])]

\* The system does nothing that the promise does not allow: every link is
\* made between announced clients of opposite roles, only a process's end
\* takes links away, and of a client whose port is no linked client's nothing
\* is shown (a_peer.cpp:241-277, a_peer.cpp:281-287, u_server.cpp:134-164).
ImplementsRendezvous == Promise!Spec

\* The traffic with the server: what is on its way to or from it, and the
\* holes that let its datagrams in.
SrvNet == {d \in net : SrvAddr \in {d.src, d.dst}}

SrvHole == [a \in Natted |-> hole[a] \cap {SrvAddr}]

Srv == INSTANCE ServerAlone WITH
    InTurn <- FALSE,
    net <- SrvNet,
    hole <- SrvHole

\* To its server the system is no more than clients that send anything at any
\* time: whatever is true of the server among those is true of it here
\* (u_server.cpp:43-93, a_peer.cpp:138-154).
ImplementsServerAlone == Srv!Spec

-----------------------------------------------------------------------------
(* Liveness.                                                               *)

Linked(p, q) == AddrOf[q] \in pers[p]

\* Every provider and every consumer end up linked to each other, both ways,
\* and stay so ("The 2 pers are linked P2P", README.md:25).
EventuallyLinked ==
    \A p, q \in Peers : Opposite(p, q) => <>[]Linked(p, q)
=============================================================================
