------------------------------- MODULE UdpSock -------------------------------
(***************************************************************************)
(* One udp_sock (src/sock.cpp, src/sock.h) with every member function that *)
(* opens, closes or directs it, in any order that its assertions allow.    *)
(* The object keeps an idea of where it is connected to (_connected,       *)
(* _remote_sin); the kernel has its own.                                   *)
(*                                                                         *)
(* A receive clears the whole of _remote_sin, _mask included, and          *)
(* recvfrom does not write _mask: from then on operator== looks at ports   *)
(* only, where both are set.                                               *)
(***************************************************************************)
EXTENDS Integers

CONSTANTS
    Host, Port,
    Nobody      \* no address

Sin == [host : Host, port : Port]

VARIABLES
    ufd,        \* _thesock
    uconnected, \* _connected
    ubind,      \* _bind
    remote,     \* host and port of _remote_sin
    masked,     \* whether its _mask is set
    kernPeer,   \* where the kernel has the socket connected to
    sent,       \* the last step, if it sent: where to, and where it went
    unsure      \* history: the object was told of another host than the kernel

udpVars == <<ufd, uconnected, ubind, remote, masked, kernPeer, sent, unsure>>

UdpInit ==
    /\ ufd = -1
    /\ uconnected = FALSE
    /\ ubind = FALSE
    /\ remote = Nobody
    /\ masked = TRUE
    /\ kernPeer = Nobody
    /\ sent = Nobody
    /\ unsure = FALSE

HasSocket == ufd # -1

\* Silent is every step that sends nothing.
Silent == sent' = Nobody

\* socket() may give descriptor 0, over which another may be created.
UdpCreate ==
    /\ ufd <= 0
    /\ ufd' \in {-1, 0, 1}
    /\ kernPeer' = Nobody
    /\ Silent
    /\ UNCHANGED <<uconnected, ubind, remote, masked, unsure>>

\* _bind and _remote_sin stay.
UdpDestroy ==
    /\ ufd' = -1
    /\ kernPeer' = Nobody
    /\ uconnected' = FALSE
    /\ unsure' = FALSE
    /\ Silent
    /\ UNCHANGED <<ubind, remote, masked>>

\* ::connect may fail, which leaves the kernel's peer and is not looked at;
\* select calls the socket writable, or the callback ends the loop before.
UdpConnect(a) ==
    /\ HasSocket
    /\ remote' = a
    /\ Silent
    /\ UNCHANGED <<ubind, masked>>
    /\ \/ /\ uconnected' = TRUE
          /\ \/ kernPeer' = a /\ unsure' = FALSE
             \/ kernPeer' = kernPeer /\ unsure' = TRUE
          /\ UNCHANGED ufd
       \/ /\ ufd' = -1
          /\ kernPeer' = Nobody
          /\ uconnected' = FALSE
          /\ unsure' = FALSE

\* set_rsin of a string: from now on send looks at no argument.
SetRsinOf(a) ==
    /\ remote' = a
    /\ uconnected' = FALSE
    /\ ubind' = TRUE
    /\ Silent
    /\ UNCHANGED <<ufd, masked, kernPeer, unsure>>

\* set_rsin of an address, SetRsin and remote: _connected stays as it is.
SetRsin(a) ==
    /\ remote' = a
    /\ masked' = TRUE
    /\ unsure' = (unsure \/ uconnected)
    /\ Silent
    /\ UNCHANGED <<ufd, uconnected, ubind, kernPeer>>

\* A datagram for asked was sent to a, or to nobody.
Went(asked, a) ==
    /\ sent' = IF a = Nobody THEN Nobody ELSE [asked |-> asked, went |-> a]
    /\ UNCHANGED <<ufd, uconnected, ubind, masked, kernPeer, unsure>>

\* send with a port and an address; a connected object is given none.
SendAt(a) ==
    /\ HasSocket
    /\ \/ /\ uconnected
          /\ Went(remote, kernPeer)
          /\ UNCHANGED remote
       \/ /\ ~uconnected /\ ubind
          /\ Went(a, remote)
          /\ UNCHANGED remote
       \/ /\ ~uconnected /\ ~ubind
          /\ Went(a, a)
          /\ remote' = a

\* A bug to find: operator== looks at the port only, whatever the mask.
SamePort(a) == remote # Nobody /\ a.port = remote.port

\* operator== with the mask of _remote_sin.
SameSin(a) ==
    /\ remote # Nobody
    /\ a.port = remote.port
    /\ masked => a.host = remote.host

\* send with an address.
SendTo(a) ==
    /\ HasSocket
    /\ Went(a, IF uconnected /\ SameSin(a) THEN kernPeer ELSE a)
    /\ UNCHANGED remote

\* A datagram of a; the kernel lets those of its peer pass only.
Arrives(a) == HasSocket /\ kernPeer \in {Nobody, a}

\* receive for chars after set_rsin of a string: the source goes to _remote_sin.
ReceiveBound(a) ==
    /\ Arrives(a) /\ ubind
    /\ remote' = a
    /\ Silent
    /\ UNCHANGED <<ufd, uconnected, ubind, masked, kernPeer, unsure>>

\* receive without an address, which clears _remote_sin first; given an
\* address it leaves the mask.
Receive(a) ==
    /\ Arrives(a) /\ ~uconnected
    /\ remote' = a
    /\ masked' \in {FALSE, masked}
    /\ Silent
    /\ UNCHANGED <<ufd, uconnected, ubind, kernPeer, unsure>>

\* receive into an address of the caller's, or on a connected object.
ReceiveAside(a) ==
    /\ Arrives(a)
    /\ Silent
    /\ UNCHANGED <<ufd, uconnected, ubind, remote, masked, kernPeer, unsure>>

UdpNext ==
    \/ UdpCreate \/ UdpDestroy
    \/ \E a \in Sin :
          \/ UdpConnect(a) \/ SetRsinOf(a) \/ SetRsin(a)
          \/ SendAt(a) \/ SendTo(a)
          \/ ReceiveBound(a) \/ Receive(a) \/ ReceiveAside(a)

-----------------------------------------------------------------------------

\* The types; the kernel has no peer for a socket that is not there.
UdpTypeOK ==
    /\ ufd \in {-1, 0, 1}
    /\ uconnected \in BOOLEAN /\ ubind \in BOOLEAN
    /\ remote \in Sin \cup {Nobody} /\ masked \in BOOLEAN
    /\ kernPeer \in Sin \cup {Nobody}
    /\ sent \in [asked : Sin, went : Sin] \cup {Nobody}
    /\ unsure \in BOOLEAN
    /\ ~HasSocket => kernPeer = Nobody

\* Over any sequence of calls a datagram goes where the caller or the object
\* says, though the object and the kernel each remember a peer - but for four
\* cases: a ::connect that failed and was taken for a success (sock.cpp:1393),
\* an address set on a connected object (sock.cpp:1360), a set_rsin that
\* outlives the socket (sock.h:443), and a receive that cleared the mask
\* (sock.cpp:1335), in which last case the port is right.
SentWhereAsked ==
    sent # Nobody /\ sent.asked # sent.went =>
        unsure \/ ubind \/ (~masked /\ sent.asked.port = sent.went.port)
=============================================================================
