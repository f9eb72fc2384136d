----------------------------- MODULE MemoryServices -----------------------------
(***************************************************************************)
(* The firmware's memory map as the examples see it: how many descriptors  *)
(* it has, the key that identifies its current version, and which buffers  *)
(* are allocated.  Not code of the repository.                             *)
(***************************************************************************)
EXTENDS Integers

CONSTANT Buffers      \* pool buffers a client may ask for

VARIABLES
    entries,    \* descriptors in the memory map
    key,        \* key of the current map: every change of the map changes it
    live        \* buffers allocated

memory == <<entries, key, live>>

\* Taking pages out of one free range splits it into at most three.
MaxSplit == 2

\* A pool request served from pages the pool already has changes nothing;
\* otherwise pages change hands, the map is another one, and d descriptors
\* came or went.
MapStays == UNCHANGED <<entries, key>>
MapChanges(d) == entries + d > 0 /\ entries' = entries + d /\ key' = key + 1
Taken == MapStays \/ \E d \in 0 .. MaxSplit : MapChanges(d)
Returned == MapStays \/ \E d \in 0 .. MaxSplit : MapChanges(-d)

AllocatePool(b) == b \notin live /\ live' = live \cup {b} /\ Taken
FreePool(b) == b \in live /\ live' = live \ {b} /\ Returned
================================================================================
