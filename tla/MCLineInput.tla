------------------------------ MODULE MCLineInput ------------------------------
(* Two characters, a line of three, and six keys.                          *)
EXTENDS LineInput
================================================================================
