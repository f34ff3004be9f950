------------------------------- MODULE Network -------------------------------
(***************************************************************************)
(* The UDP network between the programs, and the NATs in front of them.    *)
(* It is no code of this repository; it is modelled from what the programs *)
(* rely on (sendto, recvfrom, and the hole punching of the README).        *)
(*                                                                         *)
(* Datagrams in flight are a set: they are delivered in any order, may be  *)
(* delivered again (KeepChoices holds TRUE) and may be lost (Lose).  When  *)
(* nothing says that a datagram must be delivered, never delivering it is  *)
(* losing it, and Lose adds nothing.  To bound a run, the datagrams of     *)
(* some verbs can be lost as soon as they are sent (Unheard).  A NAT lets  *)
(* a datagram in only from an address its own host has sent to.            *)
(***************************************************************************)
EXTENDS PerId

CONSTANTS
    KeepChoices,    \* may a delivered datagram be delivered again?
    Unheard,        \* the verbs of datagrams that never arrive
    Natted          \* the peer addresses that are behind a NAT

ASSUME NetAssumption ==
    /\ KeepChoices \subseteq BOOLEAN /\ KeepChoices # {}
    /\ Natted \subseteq PeerAddr

VARIABLES
    net,    \* the datagrams in flight
    hole    \* hole[a]: whom the host behind the NAT of a has sent to

netVars == <<net, hole>>

NetInit ==
    /\ net = {}
    /\ hole = [a \in Natted |-> {}]

Deliverable(d) ==
    /\ d \in net
    /\ d.dst \in Natted => d.src \in hole[d.dst]

\* What of out gets on its way.
Carried(out) == {d \in out : d.verb \notin Unheard}

Punched(out) ==
    [a \in Natted |-> hole[a] \cup {d.dst : d \in {e \in out : e.src = a}}]

\* Send the datagrams of out.
Put(out) ==
    /\ net' = net \cup Carried(out)
    /\ hole' = Punched(out)

\* Receive d and send the datagrams of out in reply.
Exchange(d, out) ==
    /\ Deliverable(d)
    /\ \E keep \in KeepChoices :
          net' = (IF keep THEN net ELSE net \ {d}) \cup Carried(out)
    /\ hole' = Punched(out)

Lose(d) ==
    /\ d \in net
    /\ net' = net \ {d}
    /\ UNCHANGED hole
=============================================================================
