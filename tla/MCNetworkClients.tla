---------------------------- MODULE MCNetworkClients ----------------------------
(* Replies with no address, one, and more than one, in a pool that has     *)
(* room for two of them.                                                   *)
EXTENDS NetworkClients
================================================================================
