------------------------------- MODULE MCBootMenu -------------------------------
(* Two options, a BootOrder of up to three entries with room for two in the *)
(* menu, and one write by another component at any point.                  *)
EXTENDS BootMenu
================================================================================
