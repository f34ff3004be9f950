----------------------------- MODULE ServerAlone -----------------------------
(***************************************************************************)
(* The relay server on its own, against clients that may send it anything  *)
(* at any time: registrations, the keepalives and unregistrations that the *)
(* server handles and today's client does not send, lines and unsealed     *)
(* bytes.  Either the clients take turns (InTurn): one request is on its   *)
(* way at a time, and they read what the server sent, all at once, before  *)
(* the next one.  Or any number of requests is on its way, and whatever is *)
(* is read, or lost, when it likes.                                        *)
(***************************************************************************)
EXTENDS RelayServer

CONSTANT
    InTurn      \* do the clients take turns?

ASSUME InTurnAssumption == InTurn \in BOOLEAN

vars == <<netVars, srvVars>>

Verbs == {"SRV_REGISTER", "SRV_UNREGISTER", "PER_AIH", "LINE", "CLEAR"}

Requests == {FromPeer(v, p) : v \in Verbs, p \in Peers}

Replies ==
    {FromSrv(v, a) : v \in {"SRV_REGISTERRED", "SRV_PING", "CLEAR"}, a \in PeerAddr}
    \cup {SetPeer(a, b) : a, b \in PeerAddr}

Init == NetInit /\ SrvInit

ClientsSend(d) ==
    /\ InTurn => net = {}
    /\ Put({d})
    /\ UNCHANGED srvVars

ClientsRead ==
    /\ \E gone \in IF InTurn THEN {net \ Requests} ELSE SUBSET net :
          net' = net \ gone
    /\ UNCHANGED <<hole, srvVars>>

ServerReceives == \E d \in net : SrvReceive(d)

ServerTimeout == SrvTimeout /\ UNCHANGED netVars

ServerTick ==
    /\ SrvTick
    /\ UNCHANGED <<netVars, srvUp, spc, rows, stale, prev, dirty>>

Process ==
    /\ SrvStop \/ SrvStart \/ DayTurns
    /\ UNCHANGED netVars

Next ==
    \/ \E d \in Requests : ClientsSend(d)
    \/ ClientsRead
    \/ ServerReceives
    \/ ServerTimeout
    \/ SrvSweep
    \/ ServerTick
    \/ Process

Spec == Init /\ [][Next]_vars

\* The loop of the server goes on and time passes.
FairSpec ==
    /\ Spec
    /\ WF_vars(ServerTimeout)
    /\ WF_vars(SrvSweep)
    /\ WF_vars(ServerTick)

-----------------------------------------------------------------------------

Wires == Requests \cup Replies

Payloads == {Payload(p) : p \in Peers}

AllRows == {RowOf(a, Payload(p)) : a \in PeerAddr, p \in Peers}

\* The types of the server's state; what is stale is in the table.
SrvTypeOK ==
    /\ net \subseteq Wires
    /\ srvUp \in BOOLEAN
    /\ spc \in {"select", "sweep"}
    /\ rows \subseteq AllRows
    /\ stale \subseteq rows
    /\ prev \in {None} \cup Payloads
    /\ dirty \in BOOLEAN
    /\ sweepAge \in 0 .. TTLIVE + 1

\* An acknowledgement is sent only to an address that has a row in the table
\* which the next sweep will not delete (u_server.cpp:124-129).
AckedIsStored == [][AckStored]_vars

\* A row leaves the table of a running server only because it is too old,
\* and not before its client was pinged once more (u_server.cpp:88-90).
LastPing == [][PingedBefore]_vars

\* An old row is swept out, is refreshed, or goes with the process; it does
\* not stay (u_server.cpp:85-90).
StaleSwept ==
    \A a \in PeerAddr, p \in Peers :
        RowOf(a, Payload(p)) \in stale
            ~> (RowOf(a, Payload(p)) \notin stale \/ ~srvUp)
=============================================================================
