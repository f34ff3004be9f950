-------------------------------- MODULE APeer --------------------------------
(***************************************************************************)
(* The client (src/a_peer.cpp): every peer's main loop, one action per     *)
(* thing an iteration can do - register, handle one datagram, send a typed *)
(* line - and the start and end of the process.                            *)
(*                                                                         *)
(* The watch on the server (lines 101 to 113 of a_peer::main) changes      *)
(* nothing that is seen here; module ServerWatch models it.                *)
(***************************************************************************)
EXTENDS Network

CONSTANTS
    REG_TICK,   \* seconds before a peer that is not linked registers again
    Lines       \* the lengths of line that are typed: "LINE", "CLEAR"

ASSUME PeerAssumption == REG_TICK \in Nat /\ Lines \subseteq {"LINE", "CLEAR"}

VARIABLES
    up,         \* up[p]: the process of p runs
    status,     \* _status
    pers,       \* _pers: the addresses the peer believes it is linked to
    regAge,     \* now - _regtime
    shown,      \* the sources of the data this process has put on the screen
    announced   \* the peers that sent a registration in this behaviour

peerVars == <<up, status, pers, regAge, shown, announced>>

PeerInit ==
    /\ up = [p \in Peers |-> FALSE]
    /\ status = [p \in Peers |-> "SRV_UNREGISTERED"]
    /\ pers = [p \in Peers |-> {}]
    /\ regAge = [p \in Peers |-> REG_TICK + 1]
    /\ shown = [p \in Peers |-> {}]
    /\ announced = {}

\* The invocations that use the host and port of p.
SameSocket(p) == {q \in Peers : AddrOf[q] = AddrOf[p]}

\* A new process; the bind succeeds when the port is free.
StartPeer(p) ==
    /\ \A q \in SameSocket(p) : ~up[q]
    /\ up' = [up EXCEPT ![p] = TRUE]
    /\ status' = [status EXCEPT ![p] = "SRV_UNREGISTERED"]
    /\ pers' = [pers EXCEPT ![p] = {}]
    /\ regAge' = [regAge EXCEPT ![p] = REG_TICK + 1]
    /\ shown' = [shown EXCEPT ![p] = {}]
    /\ UNCHANGED announced

\* The process ends; what it knew is gone.
StopPeer(p) ==
    /\ up[p]
    /\ up' = [up EXCEPT ![p] = FALSE]
    /\ status' = [status EXCEPT ![p] = "SRV_UNREGISTERED"]
    /\ pers' = [pers EXCEPT ![p] = {}]
    /\ regAge' = [regAge EXCEPT ![p] = REG_TICK + 1]
    /\ shown' = [shown EXCEPT ![p] = {}]
    /\ UNCHANGED announced

\* While it is not linked a peer registers every REG_TICK seconds, however
\* often it was acknowledged.
Register(p) ==
    /\ up[p]
    /\ status[p] = "SRV_UNREGISTERED"
    /\ regAge[p] > REG_TICK
    /\ regAge' = [regAge EXCEPT ![p] = 0]
    /\ Put({FromPeer("SRV_REGISTER", p)})
    /\ announced' = announced \cup {p}
    /\ UNCHANGED <<up, status, pers, shown>>

-----------------------------------------------------------------------------
(* Datagrams from the server: _received and _srv_process.                  *)

Receives(p, d) == up[p] /\ d.dst = AddrOf[p]

FromSrvTo(p, d) == Receives(p, d) /\ FromServer(d.src)

FromPeerTo(p, d) == Receives(p, d) /\ ~FromServer(d.src)

\* What a sealed datagram deciphers to is its verb; bytes that were never
\* enciphered decipher to anything.  When they decipher to an introduction,
\* the ping goes to an address of garbage, which has no effect here.
Reads(d, verb) == d.verb \in {verb, "CLEAR"}

\* Bugs to find: the typing error of the source put right without a look at
\* who tests for which status, and the test dropped.
RegisterredAsNamed(s) == IF s = "SRV_UNREGISTERED" THEN "SRV_REGISTERRED" ELSE s
RegisterredAlways(s) == "SRV_REGISTERRED"

\* The status a peer goes to on an acknowledgement or a ping; SRV_UNREGISTER
\* is no status that a peer ever has.
Registerred(s) == IF s = "SRV_UNREGISTER" THEN "SRV_REGISTERRED" ELSE s

RecvRegisterred(p, d) ==
    /\ FromSrvTo(p, d)
    /\ Reads(d, "SRV_REGISTERRED")
    /\ Exchange(d, {})
    /\ status' = [status EXCEPT ![p] = Registerred(@)]
    /\ regAge' = [regAge EXCEPT ![p] = 0]
    /\ UNCHANGED <<up, pers, shown, announced>>

\* _peering: ping the address in the introduction.
RecvSetPeer(p, d) ==
    /\ FromSrvTo(p, d)
    /\ d.verb = "SRV_SET_PEER"
    /\ Exchange(d, {Direct("PER_PING", AddrOf[p], d.info)})
    /\ UNCHANGED peerVars

RecvUnregistered(p, d) ==
    /\ FromSrvTo(p, d)
    /\ Reads(d, "SRV_UNREGISTERED")
    /\ Exchange(d, {})
    /\ status' = [status EXCEPT ![p] = "SRV_UNREGISTERED"]
    /\ UNCHANGED <<up, pers, regAge, shown, announced>>

RecvSrvPing(p, d) ==
    /\ FromSrvTo(p, d)
    /\ Reads(d, "SRV_PING")
    /\ Exchange(d, {})
    /\ status' = [status EXCEPT ![p] = Registerred(@)]
    /\ UNCHANGED <<up, pers, regAge, shown, announced>>

-----------------------------------------------------------------------------
(* Datagrams from anyone else: _per_process.                               *)

\* The same bytes go back with the verb changed.
RecvPing(p, d) ==
    /\ FromPeerTo(p, d)
    /\ Reads(d, "PER_PING")
    /\ Exchange(d, {Direct("PER_PONG", AddrOf[p], d.src)})
    /\ UNCHANGED peerVars

RecvPong(p, d) ==
    /\ FromPeerTo(p, d)
    /\ Reads(d, "PER_PONG")
    /\ Exchange(d, {})
    /\ pers' = [pers EXCEPT ![p] = Insert(@, d.src)]
    /\ status' = [status EXCEPT ![p] = "PER_LINKED"]
    /\ UNCHANGED <<up, regAge, shown, announced>>

\* A bug to find: short datagrams are shown whoever sent them.
KnowsEveryone(p, a) == TRUE

\* _data_in: the data is put on the screen.
DataIn(p, a) == shown' = [shown EXCEPT ![p] = @ \cup {a}]

\* A short datagram is shown when its source compares equal to a member.
Knows(p, a) == \E b \in pers[p] : SameAddr(a, b)

\* A line from the server's port is looked at like any other.
RecvLine(p, d) ==
    /\ Receives(p, d)
    /\ d.verb = "LINE"
    /\ Exchange(d, {})
    /\ IF Knows(p, d.src) THEN DataIn(p, d.src) ELSE UNCHANGED shown
    /\ UNCHANGED <<up, status, pers, regAge, announced>>

\* A long datagram that deciphers to PER_DATA is shown, whoever sent it.
RecvData(p, d) ==
    /\ FromPeerTo(p, d)
    /\ Reads(d, "PER_DATA")
    /\ Exchange(d, {})
    /\ DataIn(p, d.src)
    /\ status' = [status EXCEPT ![p] = "PER_LINKED"]
    /\ UNCHANGED <<up, pers, regAge, announced>>

\* A verb that _srv_process or _per_process does not know.
RecvInvalid(p, d) ==
    /\ Receives(p, d)
    /\ d.verb \notin {"LINE"} \cup
           IF FromServer(d.src) THEN {"SRV_REGISTERRED", "SRV_SET_PEER", "SRV_PING"}
                                ELSE {"PER_PING", "PER_PONG"}
    /\ Exchange(d, {})
    /\ UNCHANGED peerVars

PeerReceive(p, d) ==
    \/ RecvRegisterred(p, d)
    \/ RecvSetPeer(p, d)
    \/ RecvUnregistered(p, d)
    \/ RecvSrvPing(p, d)
    \/ RecvPing(p, d)
    \/ RecvPong(p, d)
    \/ RecvLine(p, d)
    \/ RecvData(p, d)
    \/ RecvInvalid(p, d)

-----------------------------------------------------------------------------

\* A linked peer's keyboard: the finished line goes to every member,
\* unsealed.
SendLine(p, line) ==
    /\ up[p]
    /\ status[p] = "PER_LINKED"
    /\ Put({Direct(line, AddrOf[p], a) : a \in pers[p]})
    /\ UNCHANGED peerVars

PeerTick ==
    regAge' = [p \in Peers |->
                  IF regAge[p] > REG_TICK THEN regAge[p] ELSE regAge[p] + 1]
=============================================================================
