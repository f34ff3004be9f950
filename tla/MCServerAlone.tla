---------------------------- MODULE MCServerAlone ----------------------------
(***************************************************************************)
(* Two consumers of one group, whose registrations hold the same bytes,    *)
(* and a provider.                                                         *)
(***************************************************************************)
EXTENDS ServerAlone

Server == [host |-> "srv", port |-> 5001]
Clients == {"P", "C", "D"}
ClientAddrs == [p \in Clients |->
    CASE p = "P" -> [host |-> "h1", port |-> 6603]
      [] p = "C" -> [host |-> "h2", port |-> 3003]
      [] p = "D" -> [host |-> "h3", port |-> 3003]]
ClientRoles == [p \in Clients |-> p = "P"]
ClientGroups == [p \in Clients |-> "abc"]
=============================================================================
