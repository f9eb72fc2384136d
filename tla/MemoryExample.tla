----------------------------- MODULE MemoryExample -----------------------------
(***************************************************************************)
(* MemoryExample.c: three ways to allocate from the pool, three to         *)
(* allocate pages, then the memory map (whose reading MapClients has in    *)
(* detail: here it is one more allocation).  Each demonstration returns at *)
(* the first allocation that fails, and the program with it.               *)
(***************************************************************************)
EXTENDS UefiShell, Integers, Sequences

VARIABLE
    step        \* allocations that have been released again

\* The allocations in the order of the program.
Demonstrations ==
    <<"AllocatePool", "AllocateZeroPool", "AllocateCopyPool",
      "AllocateAnyPages", "AllocateMaxAddress", "AllocateAlignedPages", "MemoryMap">>

MemoryInit == step = 0
MemoryTypeOK == step \in 0 .. Len(Demonstrations)

MemoryStart ==
    /\ Enter("memory", "allocate")
    /\ UNCHANGED <<pool, step>>

\* An allocation succeeds, or fails and the program returns.
AllocateNext ==
    /\ step < Len(Demonstrations)
    /\ \/ Go("memory", "allocate", "use") /\ Allocate({Demonstrations[step + 1]})
       \/ Go("memory", "allocate", "return") /\ UNCHANGED pool
    /\ UNCHANGED step

\* The memory is used and given back: FreePool, FreePages, FreeAlignedPages.
UseAndRelease ==
    /\ Go("memory", "use", "allocate")
    /\ Free({Demonstrations[step + 1]})
    /\ step' = step + 1

Finish ==
    /\ Go("memory", "allocate", "return")
    /\ step = Len(Demonstrations)
    /\ UNCHANGED <<pool, step>>

MemoryReturn == Leave("memory") /\ step' = 0

MemoryApplication == AllocateNext \/ UseAndRelease \/ Finish \/ MemoryReturn
MemoryNext == MemoryStart \/ MemoryApplication
================================================================================
