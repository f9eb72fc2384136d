----------------------------- MODULE BlockIoExample -----------------------------
(***************************************************************************)
(* BlockIoExample.c: every block device with a medium is described, its    *)
(* partition table classified from LBA 0 and LBA 1, and LBA 0 dumped.      *)
(*                                                                         *)
(* BlockIo->Media is the driver's: it describes the medium the driver has  *)
(* seen, not the one in the drive.  ReadBlocks finds out, updates Media    *)
(* and fails; the next call, with the new MediaId, reads the new medium.   *)
(* A buffer holds the medium it was read from, or "zeros".                 *)
(***************************************************************************)
EXTENDS UefiShell, Integers

CONSTANTS
    Devices,      \* block devices are the numbers 1 .. Devices
    ShownDevices, \* devices that are shown at most
    MaxSwaps      \* bound on changes of a medium during a run

ASSUME DeviceAssumption == Devices \in Nat \ {0} /\ ShownDevices \in Nat \ {0}
ASSUME SwapAssumption == MaxSwaps \in Nat

VARIABLES
    kind,       \* kind[d]: "fixed", "removable" or "logical" (a partition)
    inserted,   \* inserted[d]: the medium in device d
    seen,       \* seen[d]: the medium BlockIo->Media describes
    swaps,      \* changes so far
    noticed,    \* somebody else made the driver look between the two reads
    index,      \* loop index: the device
    count,      \* DeviceCount
    lba0,       \* the medium in Buffer
    lba1,       \* the medium in GptBuffer
    verdict     \* the kind of table that was reported for the device

devices == <<kind, inserted, seen>>
drives == <<devices, swaps, noticed>>
buffers == <<lba0, lba1, verdict>>
blockFrame == <<drives, index, count, buffers>>

\* A medium has a GPT behind a protective MBR, an MBR, or no signature.  One
\* medium with a GPT may be exchanged for another.
GptMedia == {"gpt A", "gpt B"}
Media == GptMedia \cup {"mbr", "blank"}
NoMedium == "none"
Disks == 1 .. Devices

BlockTypeOK ==
    /\ kind \in [Disks -> {"fixed", "removable", "logical"}]
    /\ inserted \in [Disks -> Media \cup {NoMedium}]
    /\ seen \in [Disks -> Media \cup {NoMedium}]
    /\ swaps \in 0 .. MaxSwaps /\ noticed \in BOOLEAN
    /\ index \in 0 .. Devices + 1 /\ count \in 0 .. ShownDevices
    /\ lba0 \in Media \cup {"zeros"} /\ lba1 \in Media \cup {"zeros"}
    /\ verdict \in {"nothing", "no signature", "GPT", "MBR"}

\* The program does not run.
BlockInit ==
    /\ kind = [d \in Disks |-> "fixed"]
    /\ inserted = [d \in Disks |-> NoMedium] /\ seen = inserted
    /\ swaps = 0 /\ noticed = FALSE /\ index = 0 /\ count = 0
    /\ lba0 = "zeros" /\ lba1 = "zeros" /\ verdict = "nothing"

--------------------------------------------------------------------------------
\* The program starts, with any devices, and locates the handles.
LocateDevices ==
    /\ \/ Enter("block", "device") /\ Allocate({"HandleBuffer"})
       \/ Enter("block", "return") /\ UNCHANGED pool
    /\ kind' \in [Disks -> {"fixed", "removable", "logical"}]
    /\ inserted' \in {m \in [Disks -> Media \cup {NoMedium}] :
                        \A d \in Disks : m[d] = NoMedium => kind'[d] = "removable"}
    /\ seen' = inserted'
    /\ index' = 1
    /\ UNCHANGED <<swaps, noticed, count, buffers>>

\* The loop goes on with the next handle when it has no BlockIo, or Media
\* says that there is no medium.
SkipDevice ==
    /\ Go("block", "device", "device")
    /\ index <= Devices
    /\ index' = index + 1
    /\ UNCHANGED <<pool, drives, count, buffers>>

\* The medium and the device path are shown; the text of the path is
\* allocated and freed.  A logical partition is not analysed.
ShowDevice ==
    /\ At("block", "device") /\ index <= Devices /\ seen[index] # NoMedium
    /\ Go("block", "device", IF kind[index] = "logical" THEN "limit" ELSE "buffer")
    /\ count' = count + 1
    /\ lba0' = "zeros" /\ lba1' = "zeros" /\ verdict' = "nothing" /\ noticed' = FALSE
    /\ UNCHANGED <<pool, devices, swaps, index>>

\* AllocateZeroPool for LBA 0.
AllocateBuffer ==
    /\ \/ Go("block", "buffer", "lba0") /\ Allocate({"Buffer"})
       \/ Go("block", "buffer", "dump") /\ UNCHANGED pool
    /\ UNCHANGED <<drives, index, count, buffers>>

\* ReadBlocks(MediaId) of the current device succeeds with the data of the
\* medium, or fails, and then the driver may have noticed a change.
Readable == inserted[index] = seen[index] /\ seen[index] # NoMedium
ReadFails ==
    /\ seen' \in {seen, [seen EXCEPT ![index] = inserted[index]]}
    /\ UNCHANGED <<kind, inserted>>

\* CheckMbr and CheckGpt on the content of a buffer.
CheckMbr(b) == b \in GptMedia \cup {"mbr"}
CheckGpt(b) == b \in GptMedia

\* What is reported when LBA 0 could not be read.
VerdictOfZeros == "no signature"
VerdictOfFailure == "nothing"

\* LBA 0 is read and its signature checked.
ReadLba0 ==
    /\ At("block", "lba0")
    /\ \/ /\ Readable
          /\ lba0' = seen[index]
          /\ IF CheckMbr(lba0')
               THEN Go("block", "lba0", "gptbuffer") /\ UNCHANGED <<pool, verdict>>
               ELSE Go("block", "lba0", "dump") /\ Free({"Buffer"}) /\ verdict' = "no signature"
          /\ UNCHANGED devices
       \/ /\ ReadFails
          /\ Go("block", "lba0", "dump") /\ Free({"Buffer"})
          /\ verdict' = VerdictOfFailure
          /\ UNCHANGED lba0
    /\ UNCHANGED <<swaps, noticed, index, count, lba1>>

\* AllocateZeroPool for LBA 1; without it nothing more is reported.
AllocateGptBuffer ==
    /\ \/ Go("block", "gptbuffer", "lba1") /\ Allocate({"GptBuffer"})
       \/ Go("block", "gptbuffer", "dump") /\ Free({"Buffer"})
    /\ UNCHANGED <<drives, index, count, buffers>>

\* What is reported once LBA 1 has been read: GPT if it was read and has the
\* signature, else MBR.
VerdictOfRead(read, b) == IF read /\ CheckGpt(b) THEN "GPT" ELSE "MBR"

\* LBA 1 is read, the table reported, and both buffers freed.
ReadLba1 ==
    /\ Go("block", "lba1", "dump")
    /\ \/ /\ Readable
          /\ lba1' = seen[index] /\ verdict' = VerdictOfRead(TRUE, lba1')
          /\ UNCHANGED devices
       \/ /\ ReadFails
          /\ verdict' = VerdictOfRead(FALSE, lba1)
          /\ UNCHANGED lba1
    /\ Free({"Buffer", "GptBuffer"})
    /\ UNCHANGED <<swaps, noticed, index, count, lba0>>

\* DumpBlockData allocates, reads LBA 0 once more and frees; the data is
\* shown as it is.
AllocateDump ==
    /\ \/ Go("block", "dump", "dumpread") /\ Allocate({"Buffer"})
       \/ Go("block", "dump", "limit") /\ UNCHANGED pool
    /\ UNCHANGED <<drives, index, count, buffers>>

DumpBlockData ==
    /\ Go("block", "dumpread", "limit")
    /\ \/ Readable /\ UNCHANGED devices
       \/ ReadFails
    /\ Free({"Buffer"})
    /\ UNCHANGED <<swaps, noticed, index, count, buffers>>

\* The loop's limit: DeviceCount >= 5.
PastLimit == count > ShownDevices
LimitReached == count >= ShownDevices

NextDevice ==
    /\ Go("block", "limit", IF LimitReached THEN "free" ELSE "device")
    /\ index' = index + 1
    /\ UNCHANGED <<pool, drives, count, buffers>>

EndOfDevices ==
    /\ Go("block", "device", "free")
    /\ index > Devices
    /\ UNCHANGED <<pool, drives, index, count, buffers>>

FreeHandles ==
    /\ Go("block", "free", "return")
    /\ Free({"HandleBuffer"})
    /\ UNCHANGED <<drives, index, count, buffers>>

BlockReturn ==
    /\ Leave("block")
    /\ kind' = [d \in Disks |-> "fixed"]
    /\ inserted' = [d \in Disks |-> NoMedium] /\ seen' = [d \in Disks |-> NoMedium]
    /\ swaps' = 0 /\ noticed' = FALSE /\ index' = 0 /\ count' = 0
    /\ lba0' = "zeros" /\ lba1' = "zeros" /\ verdict' = "nothing"

--------------------------------------------------------------------------------
\* The user takes out the medium, or puts in another one.
SwapMedium ==
    /\ program = "block" /\ swaps < MaxSwaps
    /\ swaps' = swaps + 1
    /\ \E d \in Disks, m \in Media \cup {NoMedium} :
         /\ kind[d] = "removable" /\ m # inserted[d]
         /\ inserted' = [inserted EXCEPT ![d] = m]
    /\ UNCHANGED <<shell, kind, seen, noticed, index, count, buffers>>

\* A read by another component makes the driver notice.
OtherRead ==
    /\ program = "block"
    /\ \E d \in Disks :
         /\ seen[d] # inserted[d]
         /\ seen' = [seen EXCEPT ![d] = inserted[d]]
         /\ noticed' = (noticed \/ (d = index /\ pc \in {"gptbuffer", "lba1"}))
    /\ UNCHANGED <<shell, kind, inserted, swaps, index, count, buffers>>

BlockApplication ==
    \/ SkipDevice \/ ShowDevice \/ AllocateBuffer \/ ReadLba0
    \/ AllocateGptBuffer \/ ReadLba1 \/ AllocateDump \/ DumpBlockData
    \/ NextDevice \/ EndOfDevices \/ FreeHandles \/ BlockReturn

BlockNext == LocateDevices \/ BlockApplication \/ SwapMedium \/ OtherRead

--------------------------------------------------------------------------------
(* Properties.                                                             *)

\* The table a medium has.
TableOf(m) ==
    CASE m = "blank" -> "no signature" [] m \in GptMedia -> "GPT" [] OTHER -> "MBR"

\* What is reported is the table of the one medium LBA 0 was read from, and
\* the LBA 1 that was read is of that medium too, also when the medium is
\* changed between the two reads for one with the same kind of table; nothing
\* is reported of a medium that could not be read.  Two exceptions, which are
\* the code's: a failed read of LBA 1 is reported as MBR, and when another
\* reader made the driver notice the change, Media->MediaId, read again for
\* the second call, names the new medium and the two sectors are of two media.
VerdictIsOfOneMedium ==
    verdict # "nothing" =>
        /\ lba0 # "zeros"
        /\ \/ verdict = TableOf(lba0) /\ lba1 \in {"zeros", lba0}
           \/ verdict = "MBR" /\ lba1 = "zeros"
           \/ noticed
================================================================================
