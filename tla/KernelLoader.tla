------------------------------ MODULE KernelLoader ------------------------------
(***************************************************************************)
(* LoadKernel of BootLoader.c: open the volume and the file, ask for its   *)
(* size, allocate pages, read.  Every service may fail, and every failure  *)
(* has a return of its own that closes and frees what was acquired so far. *)
(* The file may be rewritten by another component between two services, so *)
(* the size that was asked for may be wrong for the read.                  *)
(*                                                                         *)
(* After a failure the caller may try again.  Sizes are in units of which  *)
(* a page has PageSize.                                                    *)
(***************************************************************************)
EXTENDS Integers

CONSTANTS
    PageSize,    \* EFI_PAGE_SIZE
    MaxSize      \* the largest size of the kernel file

ASSUME PageSizeAssumption == PageSize \in Nat \ {0}
ASSUME MaxSizeAssumption == MaxSize \in Nat

VARIABLES
    fileSize,     \* size of the kernel file
    pc,
    handles,      \* files the function has open
    info,         \* the FileInfo buffer is allocated
    pages,        \* pages allocated for the kernel
    filled,       \* units of the file in those pages
    kernelSize,   \* *KernelSize
    kernelBuffer, \* *KernelBuffer is not NULL
    quiet         \* the file was not rewritten since its size was asked for

buffers == <<info, pages, filled>>
result == <<kernelSize, kernelBuffer>>
vars == <<fileSize, pc, handles, buffers, result, quiet>>

Returned == {"failed", "loaded"}

\* Pages that the largest file takes.
MaxPages == (MaxSize + PageSize - 1) \div PageSize

TypeOK ==
    /\ fileSize \in 0 .. MaxSize
    /\ pc \in {"start", "root", "kernel", "info", "pages", "read"} \cup Returned
    /\ handles \subseteq {"Root", "KernelFile"}
    /\ info \in BOOLEAN
    /\ pages \in 0 .. MaxPages
    /\ filled \in 0 .. MaxSize
    /\ kernelSize \in 0 .. MaxSize
    /\ kernelBuffer \in BOOLEAN
    /\ quiet \in BOOLEAN

--------------------------------------------------------------------------------
Go(from, to) == pc = from /\ pc' = to

\* The files closed by the error return of each step.
ForgetsRoot(at) == IF at = "root" THEN {"Root"} ELSE {"KernelFile"}
ClosedOnError(at) ==
    IF at = "start" THEN {} ELSE IF at = "root" THEN {"Root"} ELSE {"Root", "KernelFile"}

Fails(at) == Go(at, "failed") /\ handles' = handles \ ClosedOnError(at)

\* The outputs are cleared first, then the boot device's volume is opened.
OpenVolume ==
    /\ kernelSize' = 0 /\ kernelBuffer' = FALSE
    /\ \/ Go("start", "root") /\ handles' = {"Root"}
       \/ Fails("start")
    /\ UNCHANGED <<fileSize, buffers, quiet>>

OpenKernelFile ==
    /\ \/ Go("root", "kernel") /\ handles' = handles \cup {"KernelFile"}
       \/ Fails("root")
    /\ UNCHANGED <<fileSize, buffers, result, quiet>>

AllocateInfo ==
    /\ \/ Go("kernel", "info") /\ info' = TRUE /\ UNCHANGED handles
       \/ Fails("kernel") /\ UNCHANGED info
    /\ UNCHANGED <<fileSize, pages, filled, result, quiet>>

\* FileInfo is freed whether or not GetInfo succeeded.
GetInfo ==
    /\ \/ /\ Go("info", "pages")
          /\ kernelSize' = fileSize
          /\ quiet' = TRUE
          /\ UNCHANGED handles
       \/ Fails("info") /\ UNCHANGED <<kernelSize, quiet>>
    /\ info' = FALSE
    /\ UNCHANGED <<fileSize, pages, filled, kernelBuffer>>

\* EFI_SIZE_TO_PAGES.
RoundsDown(s) == s \div PageSize
SizeToPages(s) == s \div PageSize + (IF s % PageSize # 0 THEN 1 ELSE 0)

\* The firmware has no allocation of zero pages.
AllocatePages ==
    /\ \/ /\ Go("pages", "read")
          /\ SizeToPages(kernelSize) > 0
          /\ pages' = SizeToPages(kernelSize)
          /\ UNCHANGED handles
       \/ Fails("pages") /\ UNCHANGED pages
    /\ UNCHANGED <<fileSize, info, filled, result, quiet>>

\* The pages that remain allocated after a failed read.
KeepsPages == pages
PagesAfterReadError == 0

\* Read changes *KernelSize to what it read.
KeepsSize(n) == kernelSize
SizeAfterRead(n) == n

\* Read stores at most *KernelSize units, fewer when the file has shrunk.
ReadKernel ==
    /\ \/ /\ Go("read", "loaded")
          /\ filled' = IF fileSize < kernelSize THEN fileSize ELSE kernelSize
          /\ kernelSize' = SizeAfterRead(filled')
          /\ kernelBuffer' = TRUE
          /\ handles' = handles \ {"KernelFile", "Root"}
          /\ UNCHANGED pages
       \/ /\ Fails("read")
          /\ pages' = PagesAfterReadError
          /\ UNCHANGED <<filled, result>>
    /\ UNCHANGED <<fileSize, info, quiet>>

\* The caller calls again after a failure.
Retry ==
    /\ Go("failed", "start")
    /\ UNCHANGED <<fileSize, handles, buffers, result, quiet>>

\* Another component rewrites the file while it is being loaded.
Rewrite ==
    /\ pc \notin Returned
    /\ fileSize' \in 0 .. MaxSize
    /\ quiet' = FALSE
    /\ UNCHANGED <<pc, handles, buffers, result>>

--------------------------------------------------------------------------------
Init ==
    /\ fileSize \in 0 .. MaxSize
    /\ pc = "start"
    /\ handles = {}
    /\ info = FALSE /\ pages = 0 /\ filled = 0
    /\ kernelSize = 0 /\ kernelBuffer = FALSE
    /\ quiet = FALSE

LoadKernel ==
    \/ OpenVolume \/ OpenKernelFile \/ AllocateInfo \/ GetInfo
    \/ AllocatePages \/ ReadKernel

Next == LoadKernel \/ Retry \/ Rewrite

Spec == Init /\ [][Next]_vars

--------------------------------------------------------------------------------
(* Properties.                                                             *)

\* Whichever of its nine returns the function takes, it leaves no file open
\* and no FileInfo allocated, over any number of attempts.
NothingLeftOpen == pc \in Returned => handles = {} /\ ~info

\* The caller owns pages if and only if it was told so: *KernelBuffer is set
\* and pages are allocated exactly after a successful return.
PagesFollowStatus ==
    /\ pc = "failed" => pages = 0 /\ ~kernelBuffer
    /\ pc = "loaded" => pages > 0 /\ kernelBuffer

\* The read may never store behind the pages that were allocated, and no
\* page is allocated beyond the last one that is needed, although the file
\* may have grown or shrunk since its size was asked for.
ReadFitsPages ==
    pc = "read" => /\ kernelSize <= pages * PageSize
                   /\ (pages - 1) * PageSize < kernelSize

\* *KernelSize is what the pages really hold, also when the read was short;
\* without a rewrite that is the whole file.
SizeIsWhatWasRead ==
    pc = "loaded" => kernelSize = filled /\ (quiet => filled = fileSize)

--------------------------------------------------------------------------------
(* The invariant these follow from: what is held at each step.             *)

HeldAt(at) ==
    IF at = "start" \/ at \in Returned THEN {}
      ELSE IF at = "root" THEN {"Root"} ELSE {"Root", "KernelFile"}

LoadInv ==
    /\ TypeOK
    /\ handles = HeldAt(pc)
    /\ info = (pc = "info")
    /\ IF pc \in {"read", "loaded"} THEN pages > 0 ELSE pages = 0
    /\ kernelBuffer = (pc = "loaded")
    /\ ReadFitsPages
    /\ pc \in {"pages", "read"} /\ quiet => kernelSize = fileSize
    /\ SizeIsWhatWasRead
================================================================================
