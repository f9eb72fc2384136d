------------------------------ MODULE ShellCommand ------------------------------
(***************************************************************************)
(* ShellCommand.c: the command line is parsed into a list that the program *)
(* owns, flags are looked up in it, and the system information is shown    *)
(* (its memory part is in MapClients).  Without the shell library the      *)
(* information is shown with no options at all.                            *)
(***************************************************************************)
EXTENDS UefiShell

VARIABLE
    problem     \* Problem: "undefined" (never written), "NULL" or "text"

CommandTypeOK == problem \in {"undefined", "NULL", "text"}

CommandInit == problem = "undefined"

\* ShellInitialize; when it fails the program shows everything plainly.
ShellInitialize ==
    /\ Enter("sysinfo", "parse") \/ Enter("sysinfo", "plain")
    /\ UNCHANGED <<pool, problem>>

\* ShellCommandLineParse: a list; a text that names the parameter it did not
\* understand; or another error, which leaves Problem alone or clears it.
ShellCommandLineParse ==
    /\ \/ /\ Go("sysinfo", "parse", "flags")
          /\ Allocate({"ParamPackage"}) /\ UNCHANGED problem
       \/ /\ Go("sysinfo", "parse", "problem")
          /\ problem' = "text" /\ Allocate({"Problem"})
       \/ /\ Go("sysinfo", "parse", "problem")
          /\ problem' \in {problem, "NULL"} /\ UNCHANGED pool

\* After an error Problem is shown and freed unless it is NULL.  The code
\* never sets it: if the library did not either, an arbitrary pointer is
\* compared with NULL, and perhaps freed.
ReportProblem ==
    /\ \/ /\ Go("sysinfo", "problem", "return")
          /\ problem = "text" /\ Free({"Problem"})
       \/ /\ Go("sysinfo", "problem", "return")
          /\ problem # "text" /\ UNCHANGED pool
       \/ /\ Go("sysinfo", "problem", "wild")
          /\ problem = "undefined" /\ UNCHANGED pool
    /\ UNCHANGED problem

\* The flags; with -h the usage is printed, else the information.
GetFlags ==
    /\ Go("sysinfo", "flags", "freelist") \/ Go("sysinfo", "flags", "info")
    /\ UNCHANGED <<pool, problem>>

\* The four parts of the information; PrintMemoryInfo's buffer is freed again.
PrintInfo ==
    /\ \/ Go("sysinfo", "info", "freelist")
       \/ Go("sysinfo", "plain", "return")
    /\ UNCHANGED <<pool, problem>>

\* ShellCommandLineFreeVarList, on the way through PrintUsage as well.
FreeVarList ==
    /\ Go("sysinfo", "freelist", "return")
    /\ Free({"ParamPackage"})
    /\ UNCHANGED problem

CommandReturn ==
    /\ Leave("sysinfo")
    /\ problem' = "undefined"

CommandApplication ==
    ShellCommandLineParse \/ ReportProblem \/ GetFlags \/ PrintInfo \/ FreeVarList \/ CommandReturn
CommandNext == ShellInitialize \/ CommandApplication
================================================================================
