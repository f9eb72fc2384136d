---------------------------- MODULE VariableClients ----------------------------
(***************************************************************************)
(* The two programs that show the variable store:                          *)
(*   "variables"  VariableExample.c                                        *)
(*   "services"   DemoRuntimeServicesVariables of ServicesExample.c        *)
(* Both read standard variables, BootOrder with a size query and a buffer, *)
(* and walk the store by name; VariableExample also creates, reads and     *)
(* deletes a variable of its own.  Another component may write the store   *)
(* between any two services, and the power may fail.                       *)
(*                                                                         *)
(* Between two runs the store is not followed: a run starts with any store. *)
(***************************************************************************)
EXTENDS UefiShell, VariableStore

CONSTANTS
    CountLimit,   \* variables "services" lists at most
    MaxWrites     \* bound on the writes of other components during a run

ASSUME TestVarAssumption == "TestVar" \in Names
ASSUME LimitAssumption == CountLimit \in Nat \ {0} /\ MaxWrites \in Nat

VARIABLES
    reads,      \* standard variables read so far
    name,       \* VariableName: the variable listed last
    listed,     \* the variables listed; Count is its length
    theirs,     \* what attr would be without this program (history variable)
    quiet,      \* nobody else wrote since the program started (history variable)
    writes      \* writes of other components during this run

locals == <<reads, name, listed>>
history == <<theirs, quiet, writes>>
variablesFrame == <<store, locals, history>>

TestVar == "TestVar"
Clients == {"variables", "services"}
\* The program of the current run, when it is one of these.
Me == IF program \in Clients THEN program ELSE "variables"

VariableTypeOK ==
    /\ StoreTypeOK
    /\ reads \in 0 .. 5
    /\ name \in Names \cup {NoName} /\ listed \in Seq(Names)
    /\ theirs \in [Names -> Attributes \cup {"absent"}]
    /\ quiet \in BOOLEAN /\ writes \in 0 .. MaxWrites

\* No program of this module runs.
VariablesInit ==
    /\ NoStore
    /\ reads = 0 /\ name = NoName /\ listed = <<>>
    /\ theirs = attr /\ quiet = TRUE /\ writes = 0

--------------------------------------------------------------------------------
\* A run starts, with any store.
VariablesStart ==
    /\ \E p \in Clients : Enter(p, "read")
    /\ AnyStore
    /\ theirs' = attr'
    /\ UNCHANGED <<pool, locals, quiet, writes>>

\* The standard variables, in the order they are read.
Standard(p) ==
    IF p = "variables"
      THEN <<"BootCurrent", "BootOrder", "SecureBoot", "SetupMode", "Timeout">>
      ELSE <<"BootCurrent", "SecureBoot", "BootOrder">>

\* The next of them is BootOrder.
OrderIsNext == reads < Len(Standard(Me)) /\ Standard(Me)[reads + 1] = "BootOrder"

\* A variable of fixed size: shown if GetVariable finds it, else reported as
\* not available; a failure has no consequence.
ReadFixed ==
    /\ Go(Me, "read", "read")
    /\ reads < Len(Standard(Me)) /\ ~OrderIsNext
    /\ reads' = reads + 1
    /\ UNCHANGED <<pool, store, name, listed, history>>

\* The size query of BootOrder and the allocation of its buffer.
QueryOrder ==
    /\ OrderIsNext
    /\ \/ /\ Go(Me, "read", "order")
          /\ Present("BootOrder")
          /\ Allocate({"BootOrder"})
          /\ UNCHANGED reads
       \/ /\ Go(Me, "read", "read")
          /\ reads' = reads + 1
          /\ UNCHANGED pool
    /\ UNCHANGED <<store, name, listed, history>>

\* The second call: it stores and the entries are shown, or it fails because
\* BootOrder is gone or has grown; the buffer is freed either way.
ReadOrder ==
    /\ Go(Me, "order", "read")
    /\ Free({"BootOrder"})
    /\ reads' = reads + 1
    /\ UNCHANGED <<store, name, listed, history>>

\* The storage information is asked for and shown, then the walk begins.
BeginWalk ==
    /\ Go(Me, "read", "walk")
    /\ reads = Len(Standard(Me))
    /\ UNCHANGED <<pool, store, locals, history>>

--------------------------------------------------------------------------------
\* The loop goes on: while (TRUE), while (Count < 10).
BothLimited == Len(listed) < CountLimit
WalkGoesOn == program = "variables" \/ Len(listed) < CountLimit

\* GetNextVariableName succeeds: the variable is counted and listed.
NextVariable ==
    /\ Go(Me, "walk", "walk")
    /\ WalkGoesOn
    /\ \E n \in NextNames(name) \ LongNames :
         /\ listed' = Append(listed, n)
         /\ name' = n
    /\ UNCHANGED <<pool, store, reads, history>>

\* The loop is left at EFI_NOT_FOUND and at any other error: a name too long,
\* or the variable listed last no longer in the store.
StopsAtEndOnly == AtEnd(name)
StopsWalk == NextNames(name) \subseteq LongNames

EndWalk ==
    /\ Go(Me, "walk", "walked")
    /\ ~WalkGoesOn \/ StopsWalk
    /\ UNCHANGED <<pool, store, locals, history>>

\* The counts are shown; "services" ends with it.
ReportWalk ==
    /\ Go(Me, "walked", IF program = "variables" THEN "create" ELSE "return")
    /\ UNCHANGED <<pool, store, locals, history>>

--------------------------------------------------------------------------------
\* Attributes of the custom variable: BOOTSERVICE_ACCESS | RUNTIME_ACCESS.
Persistent == "nonvolatile"
CustomAttributes == "volatile"

\* SetVariable(TestVar); after an error the demonstration returns.
CreateTestVar ==
    /\ \/ Go(Me, "create", "readback") /\ SetVariable(TestVar, CustomAttributes)
       \/ Go(Me, "create", "return") /\ UNCHANGED <<list, attr>>
    /\ UNCHANGED <<pool, locals, history>>

\* GetVariable(TestVar) into the stack buffer: shown, or the error.
ReadBack ==
    /\ Go(Me, "readback", "delete")
    /\ UNCHANGED <<pool, store, locals, history>>

\* SetVariable with no data; an error is shown.
DeleteTestVar ==
    /\ Go(Me, "delete", "verify")
    /\ DeleteVariable(TestVar) \/ UNCHANGED <<list, attr>>
    /\ UNCHANGED <<pool, locals, history>>

\* "deleted successfully" or "Unexpected status".
VerifyDeletion ==
    /\ Go(Me, "verify", "return")
    /\ UNCHANGED <<pool, store, locals, history>>

\* The program returns; its frame and what was known of the store are gone.
VariablesReturn ==
    /\ Leave(Me)
    /\ ForgetStore
    /\ reads' = 0 /\ name' = NoName /\ listed' = <<>>
    /\ theirs' = attr' /\ quiet' = TRUE /\ writes' = 0

--------------------------------------------------------------------------------
\* Another component writes or deletes a variable.
OtherWrites ==
    /\ program \in Clients /\ writes < MaxWrites
    /\ \E n \in Names :
         /\ \/ \E a \in Attributes : SetVariable(n, a)
            \/ DeleteVariable(n)
         /\ theirs' = [theirs EXCEPT ![n] = attr'[n]]
    /\ quiet' = FALSE /\ writes' = writes + 1
    /\ UNCHANGED <<shell, locals>>

\* The power fails: the application and its buffers are gone.
Reset ==
    /\ program \in Clients /\ pc # "return"
    /\ attr' = [n \in Names |-> Kept(attr[n])]
    /\ list' \in Orders({n \in Names : attr'[n] # "absent"})
    /\ theirs' = [n \in Names |-> Kept(theirs[n])]
    /\ pc' = "return" /\ pool' = {}
    /\ UNCHANGED <<program, locals, quiet, writes>>

VariablesApplication ==
    \/ ReadFixed \/ QueryOrder \/ ReadOrder \/ BeginWalk
    \/ NextVariable \/ EndWalk \/ ReportWalk
    \/ CreateTestVar \/ ReadBack \/ DeleteTestVar \/ VerifyDeletion \/ VariablesReturn

VariablesNext == VariablesStart \/ VariablesApplication \/ OtherWrites \/ Reset

--------------------------------------------------------------------------------
(* Properties.                                                             *)

\* With nobody else writing, the walk lists the variables of the store, each
\* once and in its order, up to the first name that does not fit the buffer
\* or up to the limit of the loop: it skips none and does not end early.
WalkIsComplete ==
    pc = "walked" /\ quiet =>
        /\ IsPrefix(listed, list)
        /\ \/ listed = list
           \/ list[Len(listed) + 1] \in LongNames
           \/ program = "services" /\ Len(listed) = CountLimit

\* However the run ended - also by a power failure between the creation and
\* the deletion of TestVar - it leaves the store as the others made it.  Only
\* TestVar may differ, in two ways: it was there before with the attributes of
\* the demonstration and is gone, or its deletion failed and it stays until
\* the power goes off.  A TestVar of somebody else's kind is left alone, unless
\* it was put there while the demonstration ran.
StoreAsFound ==
    pc = "return" /\ program \in Clients =>
        \A n \in Names :
            attr[n] # theirs[n] =>
                /\ n = TestVar /\ program = "variables"
                /\ \/ <<theirs[n], attr[n]>> \in {<<"volatile", "absent">>, <<"absent", "volatile">>}
                   \/ ~quiet
================================================================================
