--------------------------- MODULE NetworkInterfaces ---------------------------
(***************************************************************************)
(* ListNetworkInterfaces and GetIpConfiguration of NetworkExample.c: two   *)
(* walks over the handles of a protocol, the second with a buffer for      *)
(* every interface, whose size a driver may change between the two calls.  *)
(* The UDP demonstration that follows is in NetworkClients.                *)
(***************************************************************************)
EXTENDS UefiShell, Integers

CONSTANT Interfaces   \* network interfaces
ASSUME InterfaceAssumption == Interfaces \in Nat

VARIABLES
    walk,       \* 1 in ListNetworkInterfaces, 2 in GetIpConfiguration
    item        \* loop index: handles that have been handled

interfacesFrame == <<walk, item>>

InterfacesTypeOK ==
    /\ walk \in 1 .. 3 /\ item \in 0 .. Interfaces

InterfacesInit == walk = 1 /\ item = 0

InterfacesStart ==
    /\ Enter("network", "locate")
    /\ UNCHANGED <<pool, walk, item>>

\* LocateHandleBuffer; a walk without handles is over, and the next follows:
\* the result of neither is looked at.
LocateHandles ==
    /\ \/ Go("network", "locate", "handle") /\ Allocate({"HandleBuffer"}) /\ UNCHANGED walk
       \/ Go("network", "locate", "next") /\ UNCHANGED <<pool, walk>>
    /\ item' = 0

\* An interface that needs no buffer: without the protocol on its handle, in
\* the first walk (Snp->Mode is the driver's own structure), without data or
\* without memory in the second.
PassInterface ==
    /\ Go("network", "handle", "handle") /\ item < Interfaces
    /\ item' = item + 1
    /\ UNCHANGED <<pool, walk>>

\* The second asks for the policy and for the size of the interface data, and
\* allocates a buffer.
AllocateInfo ==
    /\ Go("network", "handle", "info") /\ walk = 2 /\ item < Interfaces
    /\ Allocate({"InterfaceInfo"})
    /\ UNCHANGED <<walk, item>>

\* The data is read and shown, or it does not fit any more.
FreesAfterSuccess(ok) == IF ok THEN {"InterfaceInfo"} ELSE {}
FreedAfterRead(ok) == {"InterfaceInfo"}

GetInfo ==
    /\ Go("network", "info", "handle")
    /\ item' = item + 1
    /\ \E ok \in BOOLEAN : Free(FreedAfterRead(ok))
    /\ UNCHANGED walk

EndOfHandles ==
    /\ Go("network", "handle", "next") /\ item = Interfaces
    /\ Free({"HandleBuffer"})
    /\ UNCHANGED <<walk, item>>

NextWalk ==
    /\ Go("network", "next", IF walk = 1 THEN "locate" ELSE "return")
    /\ walk' = walk + 1
    /\ UNCHANGED <<pool, item>>

InterfacesReturn == Leave("network") /\ walk' = 1 /\ item' = 0

InterfacesApplication ==
    \/ LocateHandles \/ PassInterface \/ AllocateInfo \/ GetInfo
    \/ EndOfHandles \/ NextWalk \/ InterfacesReturn
InterfacesNext == InterfacesStart \/ InterfacesApplication
================================================================================
