-------------------------------- MODULE PerId --------------------------------
(***************************************************************************)
(* What every program of perlink shares: the peers that take part, their   *)
(* public addresses, and the datagrams of the protocol (src/per_id.h).     *)
(*                                                                         *)
(* A peer is one invocation `perlink x ROLE:GROUP ...' of the client: an   *)
(* address seen from outside its NAT, a role (the first letter of the id,  *)
(* TRUE for a provider) and a group (the rest of the id).  Two peers with  *)
(* the same address are two invocations on the same host and port, one     *)
(* after the other.                                                        *)
(*                                                                         *)
(* A datagram keeps its verb, its source and destination and, where a      *)
(* handler reads more, an info field.  All sealed datagrams are 112 bytes  *)
(* (one SrvCap) enciphered with the one key that is compiled in, so being  *)
(* sealed is part of the verb.  Two verbs stand for unsealed data:         *)
(*   LINE   a typed line, shorter than a SrvCap;                           *)
(*   CLEAR  112 or more bytes that were never enciphered: a long typed     *)
(*          line, or the server's reply to SRV_UNREGISTER.                 *)
(***************************************************************************)
EXTENDS Naturals, FiniteSets

CONSTANTS
    Peers,      \* the client invocations
    AddrOf,     \* peer -> its public address, a record with host and port
    TypOf,      \* peer -> TRUE for a provider, FALSE for a consumer
    GroupOf,    \* peer -> the name after the `p:' or `c:' of its id
    SrvAddr,    \* the relay server's address
    None        \* a field that is not there

PeerAddr == {AddrOf[p] : p \in Peers}

Addr == PeerAddr \cup {SrvAddr}

ASSUME RoleAssumption == TypOf \in [Peers -> BOOLEAN]

\* No client is seen on the server's port: a client that is takes its own
\* kind for the server.
ASSUME PortAssumption == \A a \in PeerAddr : a.port # SrvAddr.port

ASSUME NoneAssumption == None \notin Addr

\* The server links two of its rows when their types differ.
Opposite(p, q) == TypOf[p] # TypOf[q]

-----------------------------------------------------------------------------

\* SADDR_46::operator== (and operator<) on an address that recvfrom filled
\* in: the receive that the programs use clears the mask of the address, so
\* that the masked address bits are all zero and only the ports are compared.
SameAddr(a, b) == a.port = b.port

\* Rsin() == _srvsin
FromServer(a) == SameAddr(a, SrvAddr)

\* A bug to find: a newcomer replaces the element that compares equal.
InsertReplacing(S, a) == {b \in S : ~SameAddr(a, b)} \cup {a}

\* std::set<SADDR_46>::insert: an element that compares equal stays.
Insert(S, a) == IF \E b \in S : SameAddr(a, b) THEN S ELSE S \cup {a}

-----------------------------------------------------------------------------

\* The payload of SRV_REGISTER.  It holds the role and the id and nothing
\* that tells two hosts apart.
Payload(p) == [typ |-> TypOf[p], group |-> GroupOf[p]]

Datagram(verb, src, dst, info) ==
    [verb |-> verb, src |-> src, dst |-> dst, info |-> info]

FromPeer(verb, p) == Datagram(verb, AddrOf[p], SrvAddr, Payload(p))

FromSrv(verb, dst) == Datagram(verb, SrvAddr, dst, None)

\* The introduction of the address `other' to the peer behind dst.
SetPeer(dst, other) == Datagram("SRV_SET_PEER", SrvAddr, dst, other)

Direct(verb, src, dst) == Datagram(verb, src, dst, None)

DirectVerbs == {"PER_PING", "PER_PONG", "LINE", "CLEAR"}

OppositePairs(S) == {pq \in S \X S : Opposite(pq[1], pq[2])}

\* The addresses of two peers in S of opposite roles.
OppositeAddrs(S) == {<<AddrOf[pq[1]], AddrOf[pq[2]]>> : pq \in OppositePairs(S)}

\* Every datagram that the running programs can have produced when S is the
\* set of peers that ever sent a registration.
WireAmong(S) ==
    {FromPeer("SRV_REGISTER", p) : p \in S}
    \cup {FromSrv(v, AddrOf[p]) : v \in {"SRV_REGISTERRED", "SRV_PING"}, p \in S}
    \cup {SetPeer(ab[1], ab[2]) : ab \in OppositeAddrs(S)}
    \cup {Direct(v, ab[1], ab[2]) : v \in DirectVerbs, ab \in OppositeAddrs(S)}

Wire == WireAmong(Peers)
=============================================================================
