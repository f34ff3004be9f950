------------------------------ MODULE Rendezvous ------------------------------
(***************************************************************************)
(* What perlink promises its users, without a server or datagrams: a       *)
(* client announces itself; two announced clients of opposite roles may    *)
(* become linked, each on its own side; a client hears announced clients   *)
(* of the other role, and only on a port that a client it is linked to     *)
(* uses; and a client that ends forgets everything.                        *)
(*                                                                         *)
(* A promise to hear only who is linked would be the better one.  The      *)
(* programs do not keep it: they compare ports (SameAddr of PerId), and    *)
(* all clients that are started without one use 5002.                      *)
(***************************************************************************)
CONSTANTS
    Peers,      \* the clients
    TypOf,      \* client -> TRUE for a provider, FALSE for a consumer
    PortOf      \* client -> the port it is seen on

VARIABLES
    announced,  \* the clients that have announced themselves
    linked,     \* linked[p]: the clients p is linked to
    heard       \* heard[p]: the clients whose data p has shown

vars == <<announced, linked, heard>>

Init ==
    /\ announced = {}
    /\ linked = [p \in Peers |-> {}]
    /\ heard = [p \in Peers |-> {}]

Announce(p) ==
    /\ announced' = announced \cup {p}
    /\ UNCHANGED <<linked, heard>>

\* Two clients may have to do with each other.
Partners(p, q) == {p, q} \subseteq announced /\ TypOf[p] # TypOf[q]

Link(p, q) ==
    /\ Partners(p, q)
    /\ linked' = [linked EXCEPT ![p] = @ \cup {q}]
    /\ UNCHANGED <<announced, heard>>

Hear(p, q) ==
    /\ Partners(p, q)
    /\ \E r \in linked[p] : PortOf[r] = PortOf[q]
    /\ heard' = [heard EXCEPT ![p] = @ \cup {q}]
    /\ UNCHANGED <<announced, linked>>

Forget(p) ==
    /\ linked' = [linked EXCEPT ![p] = {}]
    /\ heard' = [heard EXCEPT ![p] = {}]
    /\ UNCHANGED announced

Next ==
    \E p \in Peers :
        \/ Announce(p)
        \/ Forget(p)
        \/ \E q \in Peers : Link(p, q) \/ Hear(p, q)

Spec == Init /\ [][Next]_vars
=============================================================================
