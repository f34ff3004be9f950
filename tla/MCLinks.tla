------------------------------- MODULE MCLinks -------------------------------
(***************************************************************************)
(* A provider and two consumers, all on the port that main gives a client  *)
(* which is told none.  The consumers differ in nothing but their hosts,   *)
(* so that TLC may take one for the other.                                 *)
(***************************************************************************)
EXTENDS Perlink, TLC

CONSTANTS
    Provider, Consumer1, Consumer2

Server == [host |-> "srv", port |-> 5001]

Consumers == {Consumer1, Consumer2}

Clients == {Provider} \cup Consumers

\* Each client on a host of its own, which carries its name.
Addrs == [p \in Clients |-> [host |-> p, port |-> 5002]]
Roles == [p \in Clients |-> p = Provider]
SameGroup == [p \in Clients |-> "abc"]

Twins == Permutations(Consumers)

\* One of each fault.
OneEach == [f \in Faults |-> IF f = "loss" THEN 0 ELSE 1]

\* Bounds a run: the consumers take part together as long as no fault
\* happened, and of a stop, a crash and a midnight two happen together.
Bounded ==
    /\ (\A c \in Consumers : up[c] \/ c \in announced) =>
           \A f \in Faults : spent[f] = 0
    /\ spent["stop"] + spent["crash"] + spent["day"] <= 2

BoundedStep == Bounded'
=============================================================================
