-------------------------------- MODULE MapClients --------------------------------
(***************************************************************************)
(* The three functions that read the memory map, over MemoryServices:      *)
(*   "memory"  DemoMemoryMap of MemoryExample.c                            *)
(*   "shell"   PrintMemoryInfo of ShellCommand.c                           *)
(*   "loader"  GetMemoryMapForExit and DemoBootProcess of BootLoader.c     *)
(* Each asks for the size, allocates a buffer with room for two more       *)
(* descriptors, because the allocation itself may change the map, and      *)
(* reads the map.  The programs run one after the other; between any two   *)
(* services another component (an event notification) may allocate or      *)
(* free memory as well.                                                    *)
(***************************************************************************)
EXTENDS MemoryServices, FiniteSets

CONSTANTS
    MaxOther     \* bound on what other components do

\* Every run of a program asks for a buffer of its own: run b uses buffer b.
ASSUME BufferAssumption == Buffers \subseteq Nat /\ IsFiniteSet(Buffers)
ASSUME OtherAssumption == MaxOther \in Nat

Programs == {"memory", "shell", "loader"}

VARIABLES
    program,    \* the program of the current run
    run,        \* the current run and its buffer
    pc,
    needed,     \* descriptors the size query reported
    count,      \* descriptors read
    mapKey,     \* MapKey
    mapAddr,    \* BootInfo.MemoryMapAddr: a buffer, or 0
    other,      \* what other components did so far
    quiet,      \* nothing else touched the map since the size query
    leaks       \* runs that returned with their buffer allocated

client == <<program, run, pc, needed, count, mapKey, mapAddr, leaks>>
vars == <<memory, client, other, quiet>>

TypeOK ==
    /\ entries \in Nat \ {0} /\ key \in Nat /\ live \subseteq Buffers
    /\ program \in Programs /\ run \in Buffers \cup {0}
    /\ pc \in {"query", "allocate", "read", "error", "use", "exit", "done"}
    /\ needed \in Nat /\ count \in Nat /\ mapKey \in Nat
    /\ mapAddr \in Buffers \cup {0}
    /\ other \in 0 .. MaxOther
    /\ quiet \in BOOLEAN
    /\ leaks \subseteq Buffers

--------------------------------------------------------------------------------
Go(from, to) == pc = from /\ pc' = to

\* The next program is run; the one before has returned for good.
StartProgram ==
    /\ Go("done", "query")
    /\ \E b \in Buffers : b > run /\ run' = b
    /\ program' \in Programs
    /\ mapAddr' = 0
    /\ UNCHANGED <<memory, needed, count, mapKey, other, quiet, leaks>>

\* Where a program goes when it is through with the map, or did not get it:
\* the boot loader to its steps 4 to 6 in both cases, the others return.
AfterMap == IF program = "loader" THEN "exit" ELSE "done"

\* GetMemoryMap with no buffer: BUFFER_TOO_SMALL, the size, the key.  After
\* any other status there will be no map.
QuerySize ==
    /\ \/ /\ Go("query", "allocate")
          /\ needed' = entries
          /\ mapKey' = key
          /\ quiet' = TRUE
       \/ /\ Go("query", AfterMap)
          /\ UNCHANGED <<needed, mapKey, quiet>>
    /\ UNCHANGED <<memory, program, run, count, mapAddr, other, leaks>>

\* The descriptors the buffer has room for.
NoSlack == needed
Capacity == needed + 2

\* AllocatePool; without memory there will be no map.
AllocateBuffer ==
    /\ \/ Go("allocate", "read") /\ AllocatePool(run)
       \/ Go("allocate", AfterMap) /\ UNCHANGED memory
    /\ UNCHANGED <<program, run, needed, count, mapKey, mapAddr, other, quiet, leaks>>

\* The descriptors the function walks: those the second call returned.
CountOfBuffer == Capacity
CountOfRead == entries

\* The key kept after the second call: that of the map it returned.
KeyOfQuery == mapKey
KeyOfRead == key

\* GetMemoryMap into the buffer: too small a buffer is an error.
ReadMap ==
    /\ \/ /\ Go("read", "use")
          /\ entries <= Capacity
          /\ count' = CountOfRead
       \/ /\ Go("read", "error")
          /\ entries > Capacity
          /\ UNCHANGED count
    /\ mapKey' = KeyOfRead
    /\ UNCHANGED <<memory, program, run, needed, mapAddr, other, quiet, leaks>>

\* What a failed read does with the buffer, by program: DemoMemoryMap and
\* PrintMemoryInfo free it, GetMemoryMapForExit returns without.
NobodyFrees == {}
FreesOnError == {"memory", "shell"}

ReadError ==
    /\ Go("error", AfterMap)
    /\ IF program \in FreesOnError
         THEN FreePool(run) /\ UNCHANGED leaks
         ELSE UNCHANGED memory /\ leaks' = leaks \cup {run}
    /\ UNCHANGED <<program, run, needed, count, mapKey, mapAddr, other, quiet>>

\* What BootInfo.MemoryMapAddr is set to.
StoredAddress == run

\* The map is used and its buffer freed; DemoBootProcess has stored the
\* address in its BootInfo and goes on to the steps it would take next.
UseAndFree ==
    /\ Go("use", AfterMap)
    /\ mapAddr' = IF program = "loader" THEN StoredAddress ELSE 0
    /\ FreePool(run)
    /\ UNCHANGED <<program, run, needed, count, mapKey, other, quiet, leaks>>

\* "Would call ExitBootServices", "Would jump to kernel", and the return.
WouldExit ==
    /\ Go("exit", "done")
    /\ UNCHANGED <<memory, program, run, needed, count, mapKey, mapAddr, other, quiet, leaks>>

\* Another component allocates or frees memory of its own.
OtherActivity ==
    /\ other < MaxOther
    /\ other' = other + 1
    /\ Taken \/ Returned
    /\ quiet' = FALSE
    /\ UNCHANGED <<live, client>>

--------------------------------------------------------------------------------
Init ==
    /\ entries \in 1 .. 3 /\ key = 0 /\ live = {}
    /\ program = "memory" /\ run = 0 /\ pc = "done"
    /\ needed = 0 /\ count = 0 /\ mapKey = 0 /\ mapAddr = 0
    /\ other = 0 /\ quiet = FALSE /\ leaks = {}

Client ==
    \/ StartProgram \/ QuerySize \/ AllocateBuffer \/ ReadMap
    \/ ReadError \/ UseAndFree \/ WouldExit

Next == Client \/ OtherActivity

Spec == Init /\ [][Next]_vars

--------------------------------------------------------------------------------
(* Properties.                                                             *)

\* The two extra descriptors are enough: the read fails only if another
\* component changed the map since the size query.
QuietReadSucceeds == pc = "error" => ~quiet

\* The function walks the descriptors of the current map, all of them and
\* nothing behind them, in a buffer that is still allocated.
WalksTheMap == pc = "use" => run \in live /\ (quiet => count = entries)

\* Whoever has a map has its key: with nobody else active, MapKey is the key
\* of the current map until the buffer is freed, although the client's own
\* allocation may have changed the map since the size query.
KeyFreshWhileHeld == pc = "use" /\ quiet => mapKey = key

\* No run leaves its buffer behind, except GetMemoryMapForExit when another
\* component made its read fail.
BufferReturned ==
    pc = "done" =>
        /\ live = leaks
        /\ run \in leaks => program = "loader" /\ ~quiet

\* "Memory map must be fresh (MapKey must match)": where ExitBootServices
\* would be called with the map that BootInfo names, MapKey is the key of the
\* current map.
KeyFreshAtExit == pc = "exit" /\ quiet /\ mapAddr # 0 => mapKey = key
================================================================================
