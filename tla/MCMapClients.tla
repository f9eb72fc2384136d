------------------------------ MODULE MCMapClients ------------------------------
(* Two program runs, and two activities of other components, between them  *)
(* enough to outgrow the two spare descriptors.                            *)
EXTENDS MapClients
================================================================================
