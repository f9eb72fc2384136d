--------------------------- MODULE FileSystemExample ---------------------------
(***************************************************************************)
(* FileSystemExample.c: list the root directory, create \UefiTest, write   *)
(* test.txt there, read it back, list \UefiTest.  Every service may fail   *)
(* (the medium may be full, write protected or removed), the application   *)
(* goes on after most failures, and the power may fail between any two     *)
(* services; the application is run again on what the medium has then.     *)
(* The driver of the file system caches: only Flush makes it sure that a   *)
(* change is on the medium.                                                *)
(*                                                                         *)
(* The file is a sequence of units, each "new" (the content WriteFile      *)
(* writes) or "old" (anything else).                                       *)
(***************************************************************************)
EXTENDS Integers, Sequences

CONSTANTS
    ContentSize,   \* length of the content WriteFile writes
    ReadLimit,     \* sizeof (Buffer) - 1 of ReadFile
    MaxSize,       \* the largest test.txt found on the volume
    RootFiles,     \* other entries of the root directory
    MaxResets      \* bound on power failures

ASSUME ContentAssumption == ContentSize \in Nat \ {0} /\ MaxSize \in Nat
ASSUME ReadAssumption == ReadLimit \in Nat \ {0} /\ RootFiles \in Nat
ASSUME ResetAssumption == MaxResets \in Nat

VARIABLES
    testDir,    \* \UefiTest exists
    testFile,   \* test.txt as a set of at most one sequence: empty if absent
    durable,    \* the same two, as they are on the medium for sure
    resets,     \* power failures so far
    pc,
    handles,    \* files the application has open
    list,       \* the buffer of ListDirectory is allocated
    position,   \* entries read from the directory that is being listed
    info,       \* the FileInfo buffer of ReadFile is allocated
    written,    \* WriteFile returned success
    shown,      \* what ReadFile displayed
    kept        \* a WriteFile of any run was complete and no service of it
                \* failed (history variable)

volume == <<testDir, testFile, durable, resets>>
buffers == <<list, position, info>>
vars == <<volume, pc, handles, buffers, written, shown, kept>>

Steps == {"start", "rootlist", "rootentry", "mkdir", "write", "content",
          "flush", "closefile", "read", "info", "getinfo", "contents", "opentest",
          "testlist", "testentry", "closetest", "close", "exit"}

TypeOK ==
    /\ testDir \in BOOLEAN
    /\ testFile \in SUBSET Seq({"new", "old"})
    /\ durable.dir \in BOOLEAN /\ durable.file \in SUBSET Seq({"new", "old"})
    /\ resets \in 0 .. MaxResets
    /\ pc \in Steps
    /\ handles \subseteq {"Root", "File", "TestDir"}
    /\ list \in BOOLEAN /\ info \in BOOLEAN /\ written \in BOOLEAN /\ kept \in BOOLEAN
    /\ position \in 0 .. RootFiles + 1
    /\ shown \in Seq({"new", "old"}) /\ Len(shown) <= ReadLimit

Smaller(m, n) == IF m < n THEN m ELSE n

--------------------------------------------------------------------------------
Go(from, to) == pc = from /\ pc' = to

\* HandleProtocol twice and OpenVolume; any failure ends the application.
OpenVolume ==
    /\ \/ Go("start", "rootlist") /\ handles' = {"Root"}
       \/ Go("start", "exit") /\ UNCHANGED handles
    /\ written' = FALSE /\ shown' = <<>>
    /\ UNCHANGED <<volume, buffers, kept>>

\* Entries of the directory that is listed at pc.
Entries ==
    IF pc \in {"rootlist", "rootentry"}
      THEN RootFiles + (IF testDir THEN 1 ELSE 0)
      ELSE IF testFile = {} THEN 0 ELSE 1

\* ListDirectory: the buffer is allocated and the position set to the start.
ListDirectory ==
    /\ \/ /\ Go("rootlist", "rootentry") \/ Go("testlist", "testentry")
          /\ list' = TRUE /\ position' = 0 /\ UNCHANGED info
       \/ /\ Go("rootlist", "mkdir") \/ Go("testlist", "closetest")
          /\ UNCHANGED buffers
    /\ UNCHANGED <<volume, handles, written, shown, kept>>

ReadEntry ==
    /\ pc \in {"rootentry", "testentry"} /\ position < Entries
    /\ position' = position + 1
    /\ UNCHANGED <<volume, pc, handles, list, info, written, shown, kept>>

\* The loop is left when a read fails or returns size 0, for no more entries;
\* the two are not told apart.
EndListing ==
    /\ Go("rootentry", "mkdir") \/ Go("testentry", "closetest")
    /\ list' = FALSE
    /\ UNCHANGED <<volume, handles, position, info, written, shown, kept>>

\* Open with EFI_FILE_MODE_CREATE and close; a failure is not acted on.
CreateDirectory ==
    /\ Go("mkdir", "write")
    /\ testDir' \in {testDir, TRUE}
    /\ UNCHANGED <<testFile, durable, resets, handles, buffers, written, shown, kept>>

\* Open with EFI_FILE_MODE_CREATE, which needs the directory and creates an
\* empty file if there is none.
OpenForWrite ==
    /\ \/ /\ Go("write", "content")
          /\ testDir
          /\ testFile' = IF testFile = {} THEN {<<>>} ELSE testFile
          /\ handles' = handles \cup {"File"}
       \/ Go("write", "opentest") /\ UNCHANGED <<testFile, handles>>
    /\ UNCHANGED <<testDir, durable, resets, buffers, written, shown, kept>>

\* The file after k units of the content were written at its start.
Overwritten(f, k) ==
    [u \in 1 .. (IF Len(f) > k THEN Len(f) ELSE k) |-> IF u <= k THEN "new" ELSE f[u]]

\* The handles left by the end of WriteFile, and whether it reports success.
KeepsFileOpen == handles
AfterWriteClose == handles \ {"File"}
AnyWrite(k) == TRUE
Complete(k) == k = ContentSize

\* Write is complete, or fails after k units.
WriteContent ==
    \E k \in 0 .. ContentSize :
        /\ Go("content", "flush")
        /\ written' = Complete(k)
        /\ testFile' = {Overwritten(f, k) : f \in testFile}
        /\ UNCHANGED <<testDir, durable, resets, handles, buffers, shown, kept>>

\* What is on the medium when Flush has succeeded.
SkipsFlush == durable
AfterFlush == [dir |-> testDir, file |-> testFile]

\* Flush, after a failed write as well; its own status is not looked at.
FlushContent ==
    /\ Go("flush", "closefile")
    /\ \/ durable' = AfterFlush /\ kept' = (kept \/ written)
       \/ UNCHANGED <<durable, kept>>
    /\ UNCHANGED <<testDir, testFile, resets, handles, buffers, written, shown>>

\* Close; WriteFile returns the status of Write, and ReadFile follows a success.
CloseWritten ==
    /\ Go("closefile", IF written THEN "read" ELSE "opentest")
    /\ handles' = AfterWriteClose
    /\ UNCHANGED <<volume, buffers, written, shown, kept>>

\* ReadFile: open.
OpenForRead ==
    /\ \/ Go("read", "info") /\ handles' = handles \cup {"File"}
       \/ Go("read", "opentest") /\ UNCHANGED handles
    /\ UNCHANGED <<volume, buffers, written, shown, kept>>

\* The buffer for the FileInfo; without it the file is read all the same.
AllocateInfo ==
    /\ \/ Go("info", "getinfo") /\ info' = TRUE
       \/ Go("info", "contents") /\ UNCHANGED info
    /\ UNCHANGED <<volume, handles, list, position, written, shown, kept>>

\* GetInfo, for the size that is printed; the buffer is freed whatever it returns.
GetInfo ==
    /\ Go("getinfo", "contents")
    /\ info' = FALSE
    /\ UNCHANGED <<volume, handles, list, position, written, shown, kept>>

\* What ReadFile shows of the file.
FirstPart(f) == SubSeq(f, 1, Smaller(Len(f), ReadLimit))

\* Read and Close; a failed read shows nothing.
ReadContents ==
    /\ Go("contents", "opentest")
    /\ shown' \in {<<>>} \cup {FirstPart(f) : f \in testFile}
    /\ handles' = handles \ {"File"}
    /\ UNCHANGED <<volume, buffers, written, kept>>

OpenTestDir ==
    /\ \/ Go("opentest", "testlist") /\ testDir /\ handles' = handles \cup {"TestDir"}
       \/ Go("opentest", "close") /\ UNCHANGED handles
    /\ UNCHANGED <<volume, buffers, written, shown, kept>>

CloseTestDir ==
    /\ Go("closetest", "close")
    /\ handles' = handles \ {"TestDir"}
    /\ UNCHANGED <<volume, buffers, written, shown, kept>>

CloseRoot ==
    /\ Go("close", "exit")
    /\ handles' = handles \ {"Root"}
    /\ UNCHANGED <<volume, buffers, written, shown, kept>>

\* The file after a power failure: each unit as it was on the medium or as it
\* was in the cache.  A unit that was on neither is anything else.
Torn(a, b) ==
    {f \in UNION {[1 .. n -> {"old", "new"}] : n \in {Len(a), Len(b)}} :
        \A u \in DOMAIN f \cap DOMAIN a \cap DOMAIN b : f[u] \in {a[u], b[u]}}

OnMedium == IF durable.file = {} THEN {<<>>} ELSE durable.file

\* The power fails and the application is started once more.  What the cache
\* had written back by then, other than by Flush, is not known.
Reset ==
    /\ resets < MaxResets
    /\ resets' = resets + 1
    /\ pc' = "start"
    /\ handles' = {} /\ list' = FALSE /\ info' = FALSE
    /\ position' = 0
    /\ written' = FALSE /\ shown' = <<>>
    /\ testDir' \in {testDir, durable.dir}
    /\ testFile' \in {testFile, durable.file}
                      \cup {{f} : f \in UNION {Torn(a, b) : a \in OnMedium, b \in testFile}}
    /\ testFile' # {} => testDir'
    /\ durable' = [dir |-> testDir', file |-> testFile']
    /\ UNCHANGED kept

--------------------------------------------------------------------------------
OldFiles == {[u \in 1 .. n |-> "old"] : n \in 0 .. MaxSize}

Init ==
    /\ testDir \in BOOLEAN
    /\ testFile \in {{}} \cup (IF testDir THEN {{f} : f \in OldFiles} ELSE {})
    /\ durable = [dir |-> testDir, file |-> testFile]
    /\ resets = 0
    /\ pc = "start"
    /\ handles = {} /\ list = FALSE /\ position = 0 /\ info = FALSE
    /\ written = FALSE /\ shown = <<>> /\ kept = FALSE

FileSystemExampleMain ==
    \/ OpenVolume \/ ListDirectory \/ ReadEntry \/ EndListing \/ CreateDirectory
    \/ OpenForWrite \/ WriteContent \/ FlushContent \/ CloseWritten
    \/ OpenForRead \/ AllocateInfo \/ GetInfo \/ ReadContents
    \/ OpenTestDir \/ CloseTestDir \/ CloseRoot

Next == FileSystemExampleMain \/ Reset

Spec == Init /\ [][Next]_vars

--------------------------------------------------------------------------------
(* Properties.                                                             *)

\* Whatever failed, the application returns with no file open, and without the
\* buffer of a listing or of a FileInfo.
NothingLeftOpen == pc = "exit" => handles = {} /\ ~list /\ ~info

\* What is read back begins with what was written, also over a longer file,
\* over the remains of a write that failed, and over those of a run that lost
\* its power; nothing is shown of a file that was not written.
ReadsBackWhatWasWritten ==
    shown # <<>> =>
        /\ written
        /\ \A u \in 1 .. Smaller(ContentSize, ReadLimit) :
              u \in DOMAIN shown /\ shown[u] = "new"

\* Once a run has written the file and flushed it, the file begins with the
\* content for good: through the power failures of later runs, their writes
\* that fail half way, and what the cache loses.  A flush that failed - of which
\* WriteFile's caller is not told - promises nothing.
FlushedWriteSurvives ==
    kept =>
        /\ testDir /\ testFile # {}
        /\ \A f \in testFile : \A u \in 1 .. ContentSize : u \in DOMAIN f /\ f[u] = "new"
================================================================================
