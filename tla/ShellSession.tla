------------------------------ MODULE ShellSession ------------------------------
(***************************************************************************)
(* A session at the UEFI shell: the applications are started in any order, *)
(* as often as the user likes, and share the pool.                         *)
(*   "variables", "services"  VariableClients                              *)
(*   "block"                  BlockIoExample                               *)
(*   "gop"                    GopExample                                   *)
(*   "memory"                 MemoryExample                                *)
(*   "sysinfo"                ShellCommand                                 *)
(*   "network"                NetworkInterfaces                            *)
(* Each module has the actions of its program, and of others while it      *)
(* runs, over the shared program, pc and pool and a frame of its own; here *)
(* they are put together.                                                  *)
(***************************************************************************)
EXTENDS VariableClients, BlockIoExample, GopExample,
        MemoryExample, ShellCommand, NetworkInterfaces

vars == <<shell, variablesFrame, blockFrame, gopFrame, step, problem, interfacesFrame>>

TypeOK ==
    /\ program \in Clients \cup {"shell", "block", "gop", "memory", "sysinfo", "network"}
    /\ VariableTypeOK /\ BlockTypeOK /\ GopTypeOK
    /\ MemoryTypeOK /\ CommandTypeOK /\ InterfacesTypeOK

Init ==
    /\ NothingRuns
    /\ VariablesInit /\ BlockInit /\ GopInit
    /\ MemoryInit /\ CommandInit /\ InterfacesInit

\* While one application runs the frames of the others do not exist.
OnlyVariables == UNCHANGED <<blockFrame, gopFrame, step, problem, interfacesFrame>>
OnlyBlock == UNCHANGED <<variablesFrame, gopFrame, step, problem, interfacesFrame>>
OnlyGop == UNCHANGED <<variablesFrame, blockFrame, step, problem, interfacesFrame>>
OnlyMemory == UNCHANGED <<variablesFrame, blockFrame, gopFrame, problem, interfacesFrame>>
OnlyCommand == UNCHANGED <<variablesFrame, blockFrame, gopFrame, step, interfacesFrame>>
OnlyInterfaces == UNCHANGED <<variablesFrame, blockFrame, gopFrame, step, problem>>

Next ==
    \/ VariablesNext /\ OnlyVariables
    \/ BlockNext /\ OnlyBlock
    \/ GopNext /\ OnlyGop
    \/ MemoryNext /\ OnlyMemory
    \/ CommandNext /\ OnlyCommand
    \/ InterfacesNext /\ OnlyInterfaces

\* The application that runs takes a step.
ApplicationStep ==
    \/ VariablesApplication /\ OnlyVariables
    \/ BlockApplication /\ OnlyBlock
    \/ GopApplication /\ OnlyGop
    \/ MemoryApplication /\ OnlyMemory
    \/ CommandApplication /\ OnlyCommand
    \/ InterfacesApplication /\ OnlyInterfaces

\* The processor runs the application, and at a prompt the user presses a key.
Fairness == WF_vars(ApplicationStep)

Spec == Init /\ [][Next]_vars /\ Fairness

--------------------------------------------------------------------------------
(* Properties, besides those of the programs.                              *)

\* Whichever applications ran, in whatever order, with whatever services
\* failing, the shell gets the pool back as it was: no application leaves a
\* buffer, a list of handles or pages behind.
NothingLeftInPool == program = "shell" => pool = {}

\* Every application returns, and none frees what it does not have: the walks
\* over the store, the handles and the modes end, while others change them.
\* The exception is sysinfo, where Problem may be used without a value.
ProgramsEnd == program # "shell" ~> program = "shell" \/ pc = "wild"
================================================================================
