------------------------------- MODULE UefiShell -------------------------------
(***************************************************************************)
(* The shell runs one application at a time and shares with all of them   *)
(* the pool memory of the firmware.  Nothing reclaims what an application  *)
(* leaves allocated when it returns.                                       *)
(*                                                                         *)
(* The modules of the applications extend this one and are composed in     *)
(* ShellSession over the same program, pc and pool.                        *)
(***************************************************************************)

VARIABLES
    program,    \* the application that runs, or "shell"
    pc,         \* where it is
    pool        \* buffers that are allocated, by the pointer they were stored in

shell == <<program, pc, pool>>

\* The application is entered at a label.
Enter(p, label) == program = "shell" /\ program' = p /\ pc' = label

\* Application p is at a label, and goes from one to another.
At(p, label) == program = p /\ pc = label
Go(p, from, to) == At(p, from) /\ pc' = to /\ UNCHANGED program

\* The application returns to the shell.
Leave(p) == At(p, "return") /\ program' = "shell" /\ pc' = "shell" /\ UNCHANGED pool

Allocate(bs) == pool' = pool \cup bs
\* Freeing what is not allocated is undefined: the model has no step for it.
Free(bs) == bs \subseteq pool /\ pool' = pool \ bs

NothingRuns == program = "shell" /\ pc = "shell" /\ pool = {}
================================================================================
