---------------------------- MODULE MCDriverBinding ----------------------------
(* Two images of the driver, two controllers, two priority levels.         *)
EXTENDS DriverBinding
================================================================================
