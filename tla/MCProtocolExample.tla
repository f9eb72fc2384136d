--------------------------- MODULE MCProtocolExample ---------------------------
(* Three runs, and another component that stores the value 7.              *)
EXTENDS ProtocolExample
================================================================================
