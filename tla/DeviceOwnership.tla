---------------------------- MODULE DeviceOwnership ----------------------------
(***************************************************************************)
(* What the driver model promises about a device, with nothing about how:  *)
(* a controller is managed by at most one driver image, an image takes it  *)
(* only while it is free, and only the image that has it gives it back.    *)
(* A controller never passes from one image to another in one step.        *)
(* DriverBinding.tla implements this specification.                        *)
(***************************************************************************)
CONSTANTS
    Images,        \* driver images that may manage a controller
    Controllers    \* controller handles

VARIABLE owners    \* owners[c]: the images that manage controller c

\* The controllers are free until an image takes one.
Init == owners = [c \in Controllers |-> {}]

\* Image i takes controller c, which nobody manages.
Take(i, c) ==
    /\ owners[c] = {}
    /\ owners' = [owners EXCEPT ![c] = {i}]

\* Image i gives controller c back.
Release(i, c) ==
    /\ owners[c] = {i}
    /\ owners' = [owners EXCEPT ![c] = {}]

Next == \E i \in Images, c \in Controllers : Take(i, c) \/ Release(i, c)

Spec == Init /\ [][Next]_owners
================================================================================
