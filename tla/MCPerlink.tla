------------------------------ MODULE MCPerlink ------------------------------
(***************************************************************************)
(* Small systems of clients for TLC.                                       *)
(***************************************************************************)
EXTENDS Perlink

Server == [host |-> "srv", port |-> 5001]

\* A provider and two consumers on three hosts and ports, one group.
ThreePeers == {"P", "C", "D"}
ThreeAddrs == [p \in ThreePeers |->
    CASE p = "P" -> [host |-> "h1", port |-> 6603]
      [] p = "C" -> [host |-> "h2", port |-> 3003]
      [] p = "D" -> [host |-> "h3", port |-> 3004]]
ThreeRoles == [p \in ThreePeers |-> p = "P"]
ThreeSameGroup == [p \in ThreePeers |-> "abc"]

\* A provider and a consumer.
TwoPeers == {"P", "C"}
TwoAddrs == [p \in TwoPeers |->
    IF p = "P" THEN [host |-> "h1", port |-> 6603]
               ELSE [host |-> "h2", port |-> 3003]]
TwoRoles == [p \in TwoPeers |-> p = "P"]
TwoSameGroup == [p \in TwoPeers |-> "abc"]
TwoGroups == [p \in TwoPeers |-> IF p = "P" THEN "abc" ELSE "xyz"]

\* The two on one port of their hosts, each behind a NAT.
TwoOnePort == [p \in TwoPeers |-> [TwoAddrs[p] EXCEPT !.port = 5002]]
BothNatted == {TwoOnePort[p] : p \in TwoPeers}

\* The provider and the consumers of the three hosts all on one port.
OnePort == [p \in ThreePeers |-> [ThreeAddrs[p] EXCEPT !.port = 5002]]

FaultsUpTo(S) == [f \in Faults |-> IF f \in S THEN 1 ELSE 0]
NoFaults == FaultsUpTo({})
OneLoss == FaultsUpTo({"loss"})
StopAndCrash == FaultsUpTo({"stop", "crash"})
=============================================================================
