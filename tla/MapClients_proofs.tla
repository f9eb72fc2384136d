--------------------------- MODULE MapClients_proofs ---------------------------
(***************************************************************************)
(* Proofs about MapClients, for any set of runs, any memory map and any    *)
(* number of activities of other components.                               *)
(*                                                                         *)
(* None of the properties is inductive: each speaks of one label, and what *)
(* is true there was settled at labels before.  MapInv says what holds at  *)
(* every label: which buffers are allocated, and, as long as nobody else   *)
(* touched the map, how the map relates to what the client knows of it.    *)
(***************************************************************************)
EXTENDS MapClients, TLAPS

\* The current run owns its buffer.
Holds == pc \in {"read", "use", "error"}

\* The buffers: those of earlier runs that leaked, and the current one.
BuffersKnown ==
    /\ live = IF Holds THEN leaks \cup {run} ELSE leaks
    /\ \A b \in leaks : b <= run
    /\ pc # "done" => run \in Buffers
    /\ run \in leaks => pc \in {"exit", "done"} /\ program = "loader" /\ ~quiet

\* The map, with nobody else active since the size query: as the query found
\* it, then at most one allocation away, then as it was read.
MapKnown ==
    quiet =>
        /\ pc = "allocate" => needed = entries
        /\ pc = "read" => entries <= needed + MaxSplit
        /\ pc = "use" => count = entries /\ mapKey = key
        /\ pc # "error"

MapInv == TypeOK /\ BuffersKnown /\ MapKnown

--------------------------------------------------------------------------------
(* The memory services.                                                    *)

\* An allocation adds at most MaxSplit descriptors; no service empties the map.
LEMMA TakenBounds ==
    ASSUME entries \in Nat \ {0}, key \in Nat, Taken
    PROVE  entries' \in Nat \ {0} /\ key' \in Nat /\ entries' <= entries + MaxSplit
BY DEF Taken, MapStays, MapChanges, MaxSplit

\* A free never empties the map.
LEMMA ReturnedBounds ==
    ASSUME entries \in Nat \ {0}, key \in Nat, Returned
    PROVE  entries' \in Nat \ {0} /\ key' \in Nat
BY DEF Returned, MapStays, MapChanges, MaxSplit

--------------------------------------------------------------------------------
(* The invariant.                                                          *)

\* No program has run, and the map is not empty.
LEMMA MapInitially == Init => MapInv
<1> SUFFICES ASSUME Init
             PROVE  MapInv
  OBVIOUS
<1>1. TypeOK
  <2>1. entries \in Nat \ {0} /\ other \in 0 .. MaxOther
    BY OtherAssumption DEF Init
  <2> QED BY <2>1 DEF Init, TypeOK, Programs
<1>2. BuffersKnown /\ MapKnown
  BY DEF Init, BuffersKnown, MapKnown, Holds
<1> QED BY <1>1, <1>2 DEF MapInv

\* A new run asks for a buffer that no earlier one leaked.
LEMMA StartKeeps == MapInv /\ StartProgram => MapInv'
<1> SUFFICES ASSUME MapInv, StartProgram
             PROVE  MapInv'
  OBVIOUS
<1>1. PICK b \in Buffers : b > run /\ run' = b
  BY DEF StartProgram
<1>2. TypeOK'
  BY <1>1 DEF MapInv, TypeOK, StartProgram, Go, memory
<1>3. run' \notin leaks /\ \A a \in leaks : a <= run'
  <2>1. run \in Nat /\ b \in Nat /\ leaks \subseteq Nat
    BY BufferAssumption DEF MapInv, TypeOK
  <2> QED BY <1>1, <2>1 DEF MapInv, BuffersKnown
<1>4. BuffersKnown'
  BY <1>1, <1>3 DEF MapInv, BuffersKnown, Holds, StartProgram, Go, memory
<1>5. MapKnown'
  BY DEF MapKnown, StartProgram, Go
<1> QED BY <1>2, <1>4, <1>5 DEF MapInv

\* The size query leaves the map and the buffers alone.
LEMMA QueryKeeps == MapInv /\ QuerySize => MapInv'
BY DEF MapInv, TypeOK, BuffersKnown, MapKnown, Holds, QuerySize, AfterMap, Go, memory

\* The allocation itself may split descriptors, at most MaxSplit of them.
LEMMA AllocateKeeps == MapInv /\ AllocateBuffer => MapInv'
<1> SUFFICES ASSUME MapInv, AllocateBuffer
             PROVE  MapInv'
  OBVIOUS
<1>1. CASE Go("allocate", "read") /\ AllocatePool(run)
  <2>1. entries' \in Nat \ {0} /\ key' \in Nat /\ entries' <= entries + MaxSplit
    BY <1>1, TakenBounds DEF MapInv, TypeOK, AllocatePool
  <2>2. TypeOK' /\ BuffersKnown'
    BY <1>1, <2>1 DEF MapInv, TypeOK, BuffersKnown, Holds, AllocateBuffer, AllocatePool, Go
  <2>3. MapKnown'
    BY <1>1, <2>1 DEF MapInv, MapKnown, AllocateBuffer, Go
  <2> QED BY <2>2, <2>3 DEF MapInv
<1>2. CASE Go("allocate", AfterMap) /\ UNCHANGED memory
  BY <1>2 DEF MapInv, TypeOK, BuffersKnown, MapKnown, Holds, AllocateBuffer, AfterMap, Go, memory
<1> QED BY <1>1, <1>2 DEF AllocateBuffer

\* The read fails only when more than MaxSplit descriptors came.
LEMMA ReadKeeps == MapInv /\ ReadMap => MapInv'
BY DEF MapInv, TypeOK, BuffersKnown, MapKnown, Holds, ReadMap, Go, memory,
       Capacity, CountOfRead, KeyOfRead, MaxSplit

\* A failed read: the run frees its buffer, or it is the loader's and leaks.
LEMMA ErrorKeeps == MapInv /\ ReadError => MapInv'
<1> SUFFICES ASSUME MapInv, ReadError
             PROVE  MapInv'
  OBVIOUS
<1>1. CASE program \in FreesOnError
  <2>1. FreePool(run) /\ UNCHANGED leaks /\ pc' = "done" /\ pc = "error"
    BY <1>1 DEF ReadError, AfterMap, Go, FreesOnError
  <2>2. entries' \in Nat \ {0} /\ key' \in Nat
    BY <2>1, ReturnedBounds DEF MapInv, TypeOK, FreePool
  <2>3. TypeOK'
    BY <2>1, <2>2 DEF MapInv, TypeOK, ReadError, FreePool
  <2>4. run \notin leaks /\ live' = leaks'
    BY <2>1 DEF MapInv, BuffersKnown, Holds, FreePool
  <2>5. BuffersKnown'
    BY <2>1, <2>4 DEF MapInv, BuffersKnown, Holds, ReadError
  <2>6. MapKnown'
    BY <2>1 DEF MapKnown
  <2> QED BY <2>3, <2>5, <2>6 DEF MapInv
<1>2. CASE program \notin FreesOnError
  <2>1. /\ program = "loader" /\ pc = "error" /\ pc' = "exit" /\ run \in Buffers
        /\ UNCHANGED <<memory, program, run, quiet>> /\ leaks' = leaks \cup {run}
    BY <1>2 DEF MapInv, TypeOK, Programs, BuffersKnown, ReadError, AfterMap, Go, FreesOnError
  <2>2. TypeOK'
    BY <2>1 DEF MapInv, TypeOK, ReadError, memory
  <2>3. run <= run
    BY BufferAssumption DEF MapInv, TypeOK
  <2>4. quiet = FALSE
    BY <2>1 DEF MapInv, TypeOK, MapKnown
  <2>5. BuffersKnown' /\ MapKnown'
    BY <2>1, <2>3, <2>4 DEF MapInv, BuffersKnown, MapKnown, Holds, memory
  <2> QED BY <2>2, <2>5 DEF MapInv
<1> QED BY <1>1, <1>2

\* A use of the map that was read ends with the buffer freed.
LEMMA UseKeeps == MapInv /\ UseAndFree => MapInv'
<1> SUFFICES ASSUME MapInv, UseAndFree
             PROVE  MapInv'
  OBVIOUS
<1>1. entries' \in Nat \ {0} /\ key' \in Nat
  BY ReturnedBounds DEF MapInv, TypeOK, UseAndFree, FreePool
<1>2. pc = "use" /\ run \in Buffers /\ pc' = IF program = "loader" THEN "exit" ELSE "done"
  BY DEF MapInv, BuffersKnown, UseAndFree, AfterMap, Go
<1>3. TypeOK'
  BY <1>1, <1>2 DEF MapInv, TypeOK, UseAndFree, FreePool, StoredAddress
<1>4. run \notin leaks /\ live' = leaks'
  BY <1>2 DEF MapInv, BuffersKnown, Holds, UseAndFree, FreePool
<1>5. BuffersKnown'
  BY <1>2, <1>4 DEF MapInv, BuffersKnown, Holds, UseAndFree
<1>6. MapKnown'
  BY <1>2 DEF MapKnown
<1> QED BY <1>3, <1>5, <1>6 DEF MapInv

\* The end of a run changes the label and nothing else.
LEMMA ExitKeeps == MapInv /\ WouldExit => MapInv'
BY DEF MapInv, TypeOK, BuffersKnown, MapKnown, Holds, WouldExit, Go, memory

\* Other activity changes the map and its key, never the buffers.
LEMMA OtherKeeps == MapInv /\ OtherActivity => MapInv'
<1> SUFFICES ASSUME MapInv, OtherActivity
             PROVE  MapInv'
  OBVIOUS
<1>1. entries' \in Nat \ {0} /\ key' \in Nat
  BY TakenBounds, ReturnedBounds DEF MapInv, TypeOK, OtherActivity
<1>2. other' \in 0 .. MaxOther
  BY OtherAssumption DEF MapInv, TypeOK, OtherActivity
<1>3. TypeOK'
  BY <1>1, <1>2 DEF MapInv, TypeOK, OtherActivity, client
<1>4. BuffersKnown' /\ MapKnown'
  BY DEF MapInv, BuffersKnown, MapKnown, Holds, OtherActivity, client
<1> QED BY <1>3, <1>4 DEF MapInv

\* The invariant holds of every run: each step is one of the cases above.
LEMMA MapInvariance == Spec => []MapInv
<1>1. MapInv /\ [Next]_vars => MapInv'
  <2>1. MapInv /\ UNCHANGED vars => MapInv'
    BY DEF MapInv, TypeOK, BuffersKnown, MapKnown, Holds, vars, memory, client
  <2> QED BY <2>1, StartKeeps, QueryKeeps, AllocateKeeps, ReadKeeps, ErrorKeeps, UseKeeps,
             ExitKeeps, OtherKeeps DEF Next, Client
<1> QED BY <1>1, MapInitially, PTL DEF Spec

--------------------------------------------------------------------------------
(* The properties.                                                         *)

\* Every variable keeps its type; in particular the map is never empty.
THEOREM MapTypeCorrect == Spec => []TypeOK
BY MapInvariance, PTL DEF MapInv

\* The two extra descriptors are enough for the client's own allocation: a read
\* that fails had another component in between, whatever the map.
THEOREM SlackIsEnough == Spec => []QuietReadSucceeds
<1>1. MapInv => QuietReadSucceeds
  BY DEF MapInv, MapKnown, QuietReadSucceeds
<1> QED BY <1>1, MapInvariance, PTL

\* What is walked is the current map, in an allocated buffer.
THEOREM WalkIsOfTheMap == Spec => []WalksTheMap
<1>1. MapInv => WalksTheMap
  BY DEF MapInv, MapKnown, BuffersKnown, Holds, WalksTheMap
<1> QED BY <1>1, MapInvariance, PTL

\* MapKey is current while the buffer is held.
THEOREM KeyIsFresh == Spec => []KeyFreshWhileHeld
<1>1. MapInv => KeyFreshWhileHeld
  BY DEF MapInv, MapKnown, KeyFreshWhileHeld
<1> QED BY <1>1, MapInvariance, PTL

\* Only GetMemoryMapForExit leaks its buffer, and only when it was disturbed;
\* however many runs, everything else was returned.
THEOREM OnlyDisturbedLoaderLeaks == Spec => []BufferReturned
<1>1. MapInv => BufferReturned
  BY DEF MapInv, BuffersKnown, Holds, BufferReturned
<1> QED BY <1>1, MapInvariance, PTL
================================================================================
