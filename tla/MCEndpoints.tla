---------------------------- MODULE MCEndpoints ----------------------------
(***************************************************************************)
(* The two endpoints of the network package.  They share no state, and     *)
(* each is checked against every behaviour of its peer, so a behaviour     *)
(* exercises one of them while the other stays as it was made.             *)
(***************************************************************************)
EXTENDS TcpServer, TcpClient

VARIABLE subject

vars == <<subject, srvVars, cliVars>>

Init == subject \in {"server", "client"} /\ NewTCPServer /\ NewTCPClient

Next ==
  \/ subject = "server" /\ ServerNext /\ UNCHANGED <<subject, cliVars>>
  \/ subject = "client" /\ ClientNext /\ UNCHANGED <<subject, srvVars>>

Spec == Init /\ [][Next]_vars /\ ServerFairness /\ ClientFairness
=============================================================================
