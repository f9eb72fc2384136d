----------------------------- MODULE MCShellSession -----------------------------
(* Four variables, one with a name that is too long, and one write by       *)
(* others; two block devices and two changes of media; two interfaces and   *)
(* two modes; screens from the smallest with room for the boxes to usual    *)
(* ones.                                                                    *)
EXTENDS ShellSession

VariableNames == {"BootOrder", "TestVar", "Lang", "LongName"}
Screens == {<<84, 63>>, <<87, 70>>, <<100, 180>>, <<640, 480>>, <<1024, 768>>}
================================================================================
