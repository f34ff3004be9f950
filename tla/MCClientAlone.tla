---------------------------- MODULE MCClientAlone ----------------------------
(***************************************************************************)
(* A provider, two consumers on one port, and a host that is no client and *)
(* uses the server's port.                                                 *)
(***************************************************************************)
EXTENDS ClientAlone

Server == [host |-> "srv", port |-> 5001]
Clients == {"P", "C", "D"}
ClientAddrs == [p \in Clients |->
    CASE p = "P" -> [host |-> "h1", port |-> 6603]
      [] p = "C" -> [host |-> "h2", port |-> 3003]
      [] p = "D" -> [host |-> "h3", port |-> 3003]]
ClientRoles == [p \in Clients |-> p = "P"]
ClientGroups == [p \in Clients |-> "abc"]
Others == {ClientAddrs[p] : p \in {"C", "D"}} \cup {[host |-> "h4", port |-> 5001]}
=============================================================================
