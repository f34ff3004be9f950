----------------------------- MODULE MCPeerTable -----------------------------
(***************************************************************************)
(* One host that is a provider first and a consumer then, or the other way *)
(* round, and a day of three seconds.                                       *)
(***************************************************************************)
EXTENDS PeerTable

Server == [host |-> "srv", port |-> 5001]
Roles == {"P", "C"}
OneAddr == [p \in Roles |-> [host |-> "h1", port |-> 5002]]
BothRoles == [p \in Roles |-> p = "P"]
OneGroup == [p \in Roles |-> "abc"]
=============================================================================
