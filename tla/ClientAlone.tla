----------------------------- MODULE ClientAlone -----------------------------
(***************************************************************************)
(* One client on its own, against a server and hosts that may send it      *)
(* anything at any time: every verb of the source, sealed or not, from the *)
(* server's port, from known and unknown hosts, in any order.  A host that *)
(* is not the server may use the server's port, and the server may be      *)
(* silent for any time, so that the watch on it is seen as well.  One      *)
(* datagram is on its way at a time.                                       *)
(***************************************************************************)
EXTENDS ServerWatch

CONSTANTS
    Client,     \* the client
    Strangers   \* addresses, other than the server, that send to it

ASSUME ClientAssumption == Client \in Peers

vars == <<netVars, peerVars, watchVars>>

SrvVerbs == {"SRV_REGISTERRED", "SRV_UNREGISTERED", "SRV_PING", "SRV_REJECT", "CLEAR"}

PerVerbs == DirectVerbs \cup {"PER_DATA", "PER_LINKED"}

Incoming ==
    {Datagram(v, a, AddrOf[Client], None) : v \in SrvVerbs, a \in {SrvAddr}}
    \cup {SetPeer(AddrOf[Client], a) : a \in PeerAddr}
    \cup {Datagram(v, a, AddrOf[Client], None) : v \in PerVerbs, a \in Strangers}

Init == NetInit /\ PeerInit /\ WatchInit

\* Everybody has read what the client sent, and one of them sends.
OthersSend(d) ==
    /\ net' = {d}
    /\ UNCHANGED <<hole, peerVars, watchVars>>

Receive == \E d \in net : PeerReceive(Client, d) /\ Hear(Client, d)

\* A datagram from the server's port is taken SrvCap by SrvCap, and what is
\* left over meets the assertion at the end of _received.  The server sends
\* no such datagram; a line typed on a host at its port may be one.
Aborts ==
    /\ \E d \in net :
          /\ FromSrvTo(Client, d)
          /\ d.src # SrvAddr /\ d.verb = "CLEAR"
          /\ Exchange(d, {})
    /\ StopPeer(Client)
    /\ WatchReset(Client)

Process ==
    /\ StartPeer(Client) \/ StopPeer(Client)
    /\ WatchReset(Client)
    /\ UNCHANGED netVars

Registers == Register(Client) /\ UNCHANGED watchVars

SendsLine ==
    /\ \E line \in Lines : SendLine(Client, line)
    /\ UNCHANGED watchVars

ClientTick ==
    /\ PeerTick
    /\ WatchTick
    /\ UNCHANGED <<netVars, up, status, pers, shown, announced>>

Next ==
    \/ \E d \in Incoming : OthersSend(d)
    \/ Receive
    \/ Aborts
    \/ Process
    \/ Registers
    \/ SendsLine
    \/ Watch(Client)
    \/ ClientTick

Spec == Init /\ [][Next]_vars

-----------------------------------------------------------------------------

\* Whom the client can hear: introduced to its own address it hears itself.
Sources == Strangers \cup {AddrOf[Client]}

Statuses == {"SRV_UNREGISTERED", "PER_LINKED"}

\* The types of the client's state; whatever it is sent, its status is one
\* of two.
PeerTypeOK ==
    /\ up \in [Peers -> BOOLEAN]
    /\ status \in [Peers -> Statuses]
    /\ pers \in [Peers -> SUBSET Sources]
    /\ regAge \in [Peers -> 0 .. REG_TICK + 1]
    /\ shown \in [Peers -> SUBSET Sources]
    /\ announced \subseteq Peers
    /\ iahAge \in [Peers -> 0 .. IAM_HERE_TO + 1]
    /\ pingAge \in [Peers -> 0 .. SERVER_DOWN_TO + 1]

\* A member is never displaced: until the process ends nothing that arrives,
\* not even the server's release, takes a link away, so that two hosts that
\* use one port cannot push each other out; only the watch on the server may
\* (a_peer.cpp:262, sock.h:197, a_peer.cpp:106-112).
LinksLast ==
    [][up[Client] /\ up'[Client]
         => Watch(Client) \/ pers[Client] \subseteq pers'[Client]]_vars
=============================================================================
