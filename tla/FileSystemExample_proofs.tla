----------------------- MODULE FileSystemExample_proofs -----------------------
(***************************************************************************)
(* Proofs about FileSystemExample, for any content, any read buffer, any   *)
(* old file and any number of power failures.                              *)
(*                                                                         *)
(* The property that matters is FlushedWriteSurvives, and it is not        *)
(* inductive: it speaks of the volume as the application sees it, and a    *)
(* power failure replaces that by what is on the medium, or by a mixture   *)
(* of the two.  FileInv says the same of both.                             *)
(***************************************************************************)
EXTENDS FileSystemExample, SequenceTheorems, TLAPS

Files == Seq({"new", "old"})

\* A file that begins with the content.
BeginsNew(f) == \A u \in 1 .. ContentSize : u \in DOMAIN f /\ f[u] = "new"
Holds(file) == file # {} /\ \A f \in file : BeginsNew(f)

\* The handles and the buffers, at each label.
HandlesKnown ==
    /\ handles = CASE pc \in {"start", "exit"} -> {}
                   [] pc \in {"content", "flush", "closefile", "info", "getinfo", "contents"} -> {"Root", "File"}
                   [] pc \in {"testlist", "testentry", "closetest"} -> {"Root", "TestDir"}
                   [] OTHER -> {"Root"}
    /\ list = IF pc \in {"rootentry", "testentry"} THEN TRUE ELSE FALSE
    /\ info = IF pc = "getinfo" THEN TRUE ELSE FALSE

\* The labels up to ReadFile's Read.
BeforeShown == {"start", "rootlist", "rootentry", "mkdir", "write", "content",
                "flush", "closefile", "read", "info", "getinfo", "contents"}

\* While it is written the file is there; a WriteFile that returned success
\* left the content, and nothing is shown before ReadFile.
WriteKnown ==
    /\ pc \in {"content", "flush", "closefile"} => testDir /\ testFile # {}
    /\ written => Holds(testFile)
    /\ pc \in {"read", "info", "getinfo", "contents"} => written
    /\ pc \in BeforeShown => shown = <<>>

\* A content that was flushed is on the medium and in the cache.
KeptKnown ==
    kept => testDir /\ durable.dir /\ Holds(testFile) /\ Holds(durable.file)

FileInv == TypeOK /\ HandlesKnown /\ WriteKnown /\ KeptKnown /\ ReadsBackWhatWasWritten

--------------------------------------------------------------------------------
(* Files.                                                                  *)

\* A function on 1 .. n with units as values is a file of n units.
LEMMA FileOf ==
    ASSUME NEW n \in Nat, NEW f \in [1 .. n -> {"new", "old"}]
    PROVE  f \in Files /\ Len(f) = n /\ DOMAIN f = 1 .. n
BY DEF Files

\* Writing k units at the start makes them new and leaves the others alone.
LEMMA OverwrittenIs ==
    ASSUME NEW f \in Files, NEW k \in Nat
    PROVE  /\ Overwritten(f, k) \in Files
           /\ \A u \in 1 .. k : u \in DOMAIN Overwritten(f, k) /\ Overwritten(f, k)[u] = "new"
           /\ BeginsNew(f) => BeginsNew(Overwritten(f, k))
<1> DEFINE n == IF Len(f) > k THEN Len(f) ELSE k
<1>1. Len(f) \in Nat /\ n \in Nat /\ k <= n /\ Len(f) <= n /\ DOMAIN f = 1 .. Len(f)
  BY DEF Files
<1>2. Overwritten(f, k) = [u \in 1 .. n |-> IF u <= k THEN "new" ELSE f[u]]
  BY DEF Overwritten
<1>3. \A u \in 1 .. n : ~(u <= k) => u \in 1 .. Len(f) /\ f[u] \in {"new", "old"}
  BY <1>1, ElementOfSeq DEF Files
<1> HIDE DEF n
<1>4. Overwritten(f, k) \in [1 .. n -> {"new", "old"}]
  BY <1>1, <1>2, <1>3
<1>5. \A u \in 1 .. k : u \in DOMAIN Overwritten(f, k) /\ Overwritten(f, k)[u] = "new"
  BY <1>1, <1>2
<1>6. BeginsNew(f) => BeginsNew(Overwritten(f, k))
  BY <1>1, <1>2, ContentAssumption DEF BeginsNew
<1> QED BY <1>1, <1>4, <1>5, <1>6, FileOf

\* What ReadFile shows of a file that begins with the content does so too, as
\* far as the buffer goes.
LEMMA FirstPartIs ==
    ASSUME NEW f \in Files
    PROVE  /\ FirstPart(f) \in Files /\ Len(FirstPart(f)) <= ReadLimit
           /\ BeginsNew(f) => \A u \in 1 .. Smaller(ContentSize, ReadLimit) :
                                 u \in DOMAIN FirstPart(f) /\ FirstPart(f)[u] = "new"
<1> DEFINE n == Smaller(Len(f), ReadLimit)
<1>1. Len(f) \in Nat /\ n \in Nat /\ n <= Len(f) /\ n <= ReadLimit /\ DOMAIN f = 1 .. Len(f)
  BY ReadAssumption DEF Files, Smaller
<1>2. \A i \in 1 .. n : f[i] \in {"new", "old"}
  BY <1>1, ElementOfSeq DEF Files
<1>3. FirstPart(f) = SubSeq(f, 1, n)
  BY DEF FirstPart
<1>4. \A u \in Nat : u <= Len(f) /\ u <= ReadLimit => u <= n
  BY DEF Smaller
<1> HIDE DEF n
<1>5. /\ FirstPart(f) \in Files
      /\ Len(FirstPart(f)) = n
      /\ \A i \in 1 .. n : FirstPart(f)[i] = f[i]
  <2>1. /\ SubSeq(f, 1, n) \in Seq({"new", "old"})
        /\ Len(SubSeq(f, 1, n)) = IF 1 <= n THEN n - 1 + 1 ELSE 0
        /\ \A i \in 1 .. n - 1 + 1 : SubSeq(f, 1, n)[i] = f[1 + i - 1]
    BY <1>1, <1>2, SubSeqProperties
  <2> QED BY <1>1, <1>3, <2>1 DEF Files
<1>6. ASSUME BeginsNew(f), NEW u \in 1 .. Smaller(ContentSize, ReadLimit)
      PROVE  u \in DOMAIN FirstPart(f) /\ FirstPart(f)[u] = "new"
  <2>1. u \in 1 .. ContentSize /\ u <= ReadLimit
    BY ContentAssumption, ReadAssumption DEF Smaller
  <2>2. u \in 1 .. Len(f) /\ f[u] = "new"
    BY <1>1, <1>6, <2>1 DEF BeginsNew
  <2>3. u \in 1 .. n
    <3>1. u \in Nat /\ 1 <= u /\ u <= Len(f) /\ u <= ReadLimit
      BY <1>1, <2>1, <2>2
    <3> QED BY <1>1, <1>4, <3>1
  <2>4. DOMAIN FirstPart(f) = 1 .. n
    BY <1>5 DEF Files
  <2> QED BY <1>5, <2>2, <2>3, <2>4
<1> QED BY <1>1, <1>5, <1>6

\* A mixture of two files is a file, and where both have the content, so has
\* the mixture.
LEMMA TornIs ==
    ASSUME NEW a \in Files, NEW b \in Files, NEW f \in Torn(a, b)
    PROVE  f \in Files /\ (BeginsNew(a) /\ BeginsNew(b) => BeginsNew(f))
<1>1. Len(a) \in Nat /\ Len(b) \in Nat /\ DOMAIN a = 1 .. Len(a) /\ DOMAIN b = 1 .. Len(b)
  BY DEF Files
<1>2. PICK n \in {Len(a), Len(b)} : f \in [1 .. n -> {"old", "new"}]
  BY DEF Torn
<1>3. f \in Files /\ DOMAIN f = 1 .. n
  <2>1. f \in [1 .. n -> {"new", "old"}] /\ n \in Nat
    BY <1>1, <1>2
  <2> QED BY <2>1, FileOf
<1>4. ASSUME BeginsNew(a), BeginsNew(b), NEW u \in 1 .. ContentSize
      PROVE  u \in DOMAIN f /\ f[u] = "new"
  <2>1. u \in 1 .. Len(a) /\ u \in 1 .. Len(b) /\ a[u] = "new" /\ b[u] = "new"
    BY <1>1, <1>4 DEF BeginsNew
  <2>2. u \in DOMAIN f
    BY <1>2, <1>3, <2>1
  <2>3. f[u] \in {a[u], b[u]}
    BY <1>1, <2>1, <2>2 DEF Torn
  <2> QED BY <2>1, <2>2, <2>3
<1> QED BY <1>3, <1>4 DEF BeginsNew

--------------------------------------------------------------------------------
(* The invariant.                                                          *)

\* The files found on the volume are sequences of old units.
LEMMA OldFilesAreFiles == OldFiles \subseteq Files
<1>1. ASSUME NEW n \in 0 .. MaxSize
      PROVE  [u \in 1 .. n |-> "old"] \in Files
  <2>1. n \in Nat /\ [u \in 1 .. n |-> "old"] \in [1 .. n -> {"new", "old"}]
    BY ContentAssumption
  <2> QED BY <2>1, FileOf
<1> QED BY <1>1 DEF OldFiles

\* Nothing was written yet, and the cache is what is on the medium.
LEMMA FileInitially == Init => FileInv
<1> SUFFICES ASSUME Init
             PROVE  FileInv
  OBVIOUS
<1>1. testDir \in BOOLEAN /\ testFile \in SUBSET Files
  BY OldFilesAreFiles DEF Init
<1>2. durable.dir \in BOOLEAN /\ durable.file \in SUBSET Files
  BY <1>1 DEF Init
<1>3. shown \in Files /\ Len(shown) <= ReadLimit /\ position \in 0 .. RootFiles + 1 /\ resets \in 0 .. MaxResets
  BY ReadAssumption, ResetAssumption DEF Init, Files
<1>4. TypeOK
  BY <1>1, <1>2, <1>3 DEF Init, TypeOK, Steps, Files
<1>5. HandlesKnown /\ WriteKnown /\ KeptKnown /\ ReadsBackWhatWasWritten
  BY DEF Init, HandlesKnown, WriteKnown, KeptKnown, ReadsBackWhatWasWritten
<1> QED BY <1>4, <1>5 DEF FileInv

\* The steps that leave the volume alone: handles and listings.
LEMMA HandleStepsKeep ==
    ASSUME FileInv,
           \/ OpenVolume \/ ListDirectory \/ ReadEntry \/ EndListing
           \/ CloseWritten \/ OpenForRead \/ AllocateInfo \/ GetInfo
           \/ OpenTestDir \/ CloseTestDir \/ CloseRoot
    PROVE  FileInv'
<1>1. /\ UNCHANGED <<testDir, testFile, durable, resets, kept>>
      /\ \/ UNCHANGED <<written, shown>>
         \/ pc = "start" /\ pc' \in {"rootlist", "exit"} /\ written' = FALSE /\ shown' = <<>>
  BY DEF OpenVolume, ListDirectory, ReadEntry, EndListing, CloseWritten, OpenForRead,
         AllocateInfo, GetInfo, OpenTestDir, CloseTestDir, CloseRoot, volume, Go
<1>2. HandlesKnown' /\ pc' \in Steps
  <2>1. CASE OpenVolume
    BY <2>1 DEF FileInv, HandlesKnown, OpenVolume, Go, Steps, buffers
  <2>2. CASE ListDirectory
    BY <2>2 DEF FileInv, HandlesKnown, ListDirectory, Go, Steps, buffers
  <2>3. CASE ReadEntry
    BY <2>3 DEF FileInv, TypeOK, HandlesKnown, ReadEntry, Go, Steps
  <2>4. CASE EndListing
    BY <2>4 DEF FileInv, HandlesKnown, EndListing, Go, Steps
  <2>5. CASE CloseWritten
    BY <2>5 DEF FileInv, HandlesKnown, CloseWritten, AfterWriteClose, Go, Steps, buffers
  <2>6. CASE OpenForRead
    BY <2>6 DEF FileInv, HandlesKnown, OpenForRead, Go, Steps, buffers
  <2>7. CASE OpenTestDir
    BY <2>7 DEF FileInv, HandlesKnown, OpenTestDir, Go, Steps, buffers
  <2>8. CASE CloseTestDir
    BY <2>8 DEF FileInv, HandlesKnown, CloseTestDir, Go, Steps, buffers
  <2>9. CASE CloseRoot
    BY <2>9 DEF FileInv, HandlesKnown, CloseRoot, Go, Steps, buffers
  <2>10. CASE AllocateInfo \/ GetInfo
    BY <2>10 DEF FileInv, HandlesKnown, AllocateInfo, GetInfo, Go, Steps
  <2> QED BY <2>1, <2>2, <2>3, <2>4, <2>5, <2>6, <2>7, <2>8, <2>9, <2>10
<1>3. position' \in 0 .. RootFiles + 1
  <2>1. CASE ReadEntry
    <3>1. Entries \in 0 .. RootFiles + 1
      BY ReadAssumption DEF Entries
    <3> QED BY <2>1, <3>1, ReadAssumption DEF ReadEntry, FileInv, TypeOK
  <2>2. CASE ~ReadEntry
    BY <2>2, ReadAssumption
    DEF FileInv, TypeOK, OpenVolume, ListDirectory, EndListing, CloseWritten, OpenForRead,
        AllocateInfo, GetInfo, OpenTestDir, CloseTestDir, CloseRoot, buffers
  <2> QED BY <2>1, <2>2
<1>4. /\ pc' \in {"content", "flush", "closefile"} => pc \in {"content", "flush", "closefile"}
      /\ pc' \in {"read", "info", "getinfo", "contents"} =>
           pc \in {"read", "info", "getinfo", "contents"} \/ (written /\ pc # "start")
      /\ pc' \in BeforeShown => pc \in BeforeShown
  BY DEF OpenVolume, ListDirectory, ReadEntry, EndListing, CloseWritten, OpenForRead,
         AllocateInfo, GetInfo, OpenTestDir, CloseTestDir, CloseRoot, Go, BeforeShown
<1>5. TypeOK'
  <2>1. written' \in BOOLEAN /\ shown' \in Files /\ Len(shown') <= ReadLimit
    <3>1. <<>> \in Files /\ Len(<<>>) <= ReadLimit
      BY ReadAssumption DEF Files
    <3>2. written \in BOOLEAN /\ shown \in Files /\ Len(shown) <= ReadLimit
      BY DEF FileInv, TypeOK, Files
    <3> QED BY <1>1, <3>1, <3>2
  <2>2. handles' \subseteq {"Root", "File", "TestDir"} /\ list' \in BOOLEAN /\ info' \in BOOLEAN
    BY <1>2 DEF HandlesKnown
  <2> QED BY <1>1, <1>2, <1>3, <2>1, <2>2 DEF FileInv, TypeOK, Files
<1>6. WriteKnown'
  BY <1>1, <1>4 DEF FileInv, WriteKnown, Holds, BeginsNew
<1>7. KeptKnown' /\ ReadsBackWhatWasWritten'
  BY <1>1 DEF FileInv, KeptKnown, Holds, BeginsNew, ReadsBackWhatWasWritten
<1> QED BY <1>2, <1>5, <1>6, <1>7 DEF FileInv

\* Creating what was not there takes no content away.
LEMMA CreateKeeps == FileInv /\ (CreateDirectory \/ OpenForWrite) => FileInv'
<1> SUFFICES ASSUME FileInv, CreateDirectory \/ OpenForWrite
             PROVE  FileInv'
  OBVIOUS
<1>1. /\ UNCHANGED <<durable, resets, list, position, info, written, shown, kept>>
      /\ testDir' \in {testDir, TRUE}
      /\ testFile' = testFile \/ (testFile = {} /\ testFile' = {<<>>})
      /\ \/ pc = "mkdir" /\ pc' = "write" /\ UNCHANGED handles
         \/ pc = "write" /\ pc' = "opentest" /\ UNCHANGED handles
         \/ /\ pc = "write" /\ pc' = "content" /\ handles' = handles \cup {"File"}
            /\ testDir' /\ testFile' # {}
  <2>1. CASE CreateDirectory
    BY <2>1 DEF CreateDirectory, Go, buffers
  <2>2. CASE OpenForWrite
    BY <2>2 DEF FileInv, TypeOK, OpenForWrite, Go, buffers
  <2> QED BY <2>1, <2>2
<1>2. /\ testDir' \in BOOLEAN /\ testFile' \in SUBSET Files
      /\ testDir => testDir'
      /\ testFile # {} => testFile' = testFile
  <2>1. testDir \in BOOLEAN /\ testFile \in SUBSET Files /\ <<>> \in Files
    BY DEF FileInv, TypeOK, Files
  <2>2. testFile' \in SUBSET Files /\ (testFile # {} => testFile' = testFile)
    BY <1>1, <2>1
  <2>3. testDir' = testDir \/ testDir' = TRUE
    BY <1>1
  <2> QED BY <2>1, <2>2, <2>3
<1>3. HandlesKnown'
  BY <1>1 DEF FileInv, HandlesKnown
<1>4. pc' \in Steps /\ handles' \subseteq {"Root", "File", "TestDir"}
  BY <1>1, <1>3 DEF HandlesKnown, Steps
<1>5. TypeOK'
  BY <1>1, <1>2, <1>4 DEF FileInv, TypeOK, Files
<1>6. WriteKnown'
  <2>1. written' => Holds(testFile)'
    BY <1>1, <1>2 DEF FileInv, WriteKnown, Holds, BeginsNew
  <2> QED BY <1>1, <2>1 DEF FileInv, WriteKnown, BeforeShown
<1>7. KeptKnown' /\ ReadsBackWhatWasWritten'
  BY <1>1, <1>2 DEF FileInv, KeptKnown, Holds, BeginsNew, ReadsBackWhatWasWritten
<1> QED BY <1>3, <1>5, <1>6, <1>7 DEF FileInv

\* A write leaves the content where it was, and a complete one puts it there.
LEMMA WriteKeeps == FileInv /\ WriteContent => FileInv'
<1> SUFFICES ASSUME FileInv, WriteContent
             PROVE  FileInv'
  OBVIOUS
<1>1. PICK k \in 0 .. ContentSize :
        /\ pc = "content" /\ pc' = "flush"
        /\ written' = Complete(k)
        /\ testFile' = {Overwritten(f, k) : f \in testFile}
        /\ UNCHANGED <<testDir, durable, resets, handles, list, position, info, shown, kept>>
  BY DEF WriteContent, Go, buffers
<1>2. k \in Nat /\ testFile \in SUBSET Files /\ testFile # {} /\ testDir
  BY <1>1, ContentAssumption DEF FileInv, TypeOK, WriteKnown, Files
<1>3. testFile' \in SUBSET Files /\ testFile' # {}
  BY <1>1, <1>2, OverwrittenIs
<1>4. Holds(testFile) => Holds(testFile)'
  <2> SUFFICES ASSUME Holds(testFile), NEW g \in testFile'
               PROVE  BeginsNew(g)
    BY <1>3 DEF Holds, BeginsNew
  <2> QED BY <1>1, <1>2, OverwrittenIs DEF Holds
<1>5. written' => Holds(testFile)'
  <2> SUFFICES ASSUME written', NEW g \in testFile'
               PROVE  BeginsNew(g)
    BY <1>3 DEF Holds, BeginsNew
  <2>1. k = ContentSize
    BY <1>1 DEF Complete
  <2> QED BY <1>1, <1>2, <2>1, OverwrittenIs DEF BeginsNew
<1>6. written' \in BOOLEAN
  BY <1>1 DEF Complete
<1>7. TypeOK'
  BY <1>1, <1>3, <1>6 DEF FileInv, TypeOK, Files, Steps
<1>8. HandlesKnown' /\ ReadsBackWhatWasWritten'
  BY <1>1 DEF FileInv, HandlesKnown, WriteKnown, BeforeShown, ReadsBackWhatWasWritten
<1>9. WriteKnown'
  BY <1>1, <1>2, <1>3, <1>5 DEF FileInv, WriteKnown, BeforeShown
<1>10. KeptKnown'
  BY <1>1, <1>4 DEF FileInv, KeptKnown, Holds, BeginsNew
<1> QED BY <1>7, <1>8, <1>9, <1>10 DEF FileInv

\* After a Flush the medium holds what the cache does.
LEMMA FlushKeeps == FileInv /\ FlushContent => FileInv'
<1> SUFFICES ASSUME FileInv, FlushContent
             PROVE  FileInv'
  OBVIOUS
<1>1. /\ pc = "flush" /\ pc' = "closefile"
      /\ UNCHANGED <<testDir, testFile, resets, handles, list, position, info, written, shown>>
      /\ \/ durable' = [dir |-> testDir, file |-> testFile] /\ kept' = (kept \/ written)
         \/ UNCHANGED <<durable, kept>>
  BY DEF FlushContent, AfterFlush, Go, buffers
<1>2. /\ durable'.dir \in BOOLEAN /\ durable'.file \in SUBSET Files /\ kept' \in BOOLEAN
      /\ durable' = durable \/ (durable'.dir = testDir /\ durable'.file = testFile)
  BY <1>1 DEF FileInv, TypeOK, Files
<1>3. TypeOK'
  BY <1>1, <1>2 DEF FileInv, TypeOK, Files, Steps
<1>4. HandlesKnown' /\ WriteKnown' /\ ReadsBackWhatWasWritten'
  BY <1>1 DEF FileInv, HandlesKnown, WriteKnown, Holds, BeginsNew, BeforeShown, ReadsBackWhatWasWritten
<1>5. KeptKnown'
  <2>1. testDir /\ (written => Holds(testFile))
    BY <1>1 DEF FileInv, WriteKnown
  <2>2. CASE durable' = [dir |-> testDir, file |-> testFile] /\ kept' = (kept \/ written)
    <3>1. durable'.dir = testDir /\ durable'.file = testFile
      BY <2>2
    <3> QED BY <1>1, <2>1, <2>2, <3>1 DEF FileInv, KeptKnown, Holds, BeginsNew
  <2>3. CASE UNCHANGED <<durable, kept>>
    BY <1>1, <2>3 DEF FileInv, KeptKnown, Holds, BeginsNew
  <2> QED BY <1>1, <2>2, <2>3
<1> QED BY <1>3, <1>4, <1>5 DEF FileInv

\* ReadFile shows nothing, or the file as far as its buffer goes.
LEMMA ReadKeeps == FileInv /\ ReadContents => FileInv'
<1> SUFFICES ASSUME FileInv, ReadContents
             PROVE  FileInv'
  OBVIOUS
<1>1. /\ pc = "contents" /\ pc' = "opentest"
      /\ handles' = handles \ {"File"}
      /\ UNCHANGED <<testDir, testFile, durable, resets, list, position, info, written, kept>>
      /\ shown' = <<>> \/ \E f \in testFile : shown' = FirstPart(f)
  BY DEF ReadContents, volume, buffers, Go
<1>2. testFile \in SUBSET Files /\ written /\ Holds(testFile)
  BY <1>1 DEF FileInv, TypeOK, WriteKnown, Files
<1>3. shown' \in Files /\ Len(shown') <= ReadLimit
  <2>1. <<>> \in Files /\ Len(<<>>) <= ReadLimit
    BY ReadAssumption DEF Files
  <2> QED BY <1>1, <1>2, <2>1, FirstPartIs
<1>4. HandlesKnown' /\ pc' \in Steps /\ handles' \subseteq {"Root", "File", "TestDir"}
  BY <1>1 DEF FileInv, HandlesKnown, Steps
<1>5. TypeOK'
  BY <1>1, <1>3, <1>4 DEF FileInv, TypeOK, Files
<1>6. WriteKnown' /\ KeptKnown'
  BY <1>1 DEF FileInv, WriteKnown, KeptKnown, Holds, BeginsNew, BeforeShown
<1>7. ReadsBackWhatWasWritten'
  <2> SUFFICES ASSUME shown' # <<>>
               PROVE  \A u \in 1 .. Smaller(ContentSize, ReadLimit) : u \in DOMAIN shown' /\ shown'[u] = "new"
    BY <1>1, <1>2 DEF ReadsBackWhatWasWritten
  <2>1. PICK f \in testFile : shown' = FirstPart(f)
    BY <1>1
  <2> QED BY <1>2, <2>1, FirstPartIs DEF Holds
<1> QED BY <1>4, <1>5, <1>6, <1>7 DEF FileInv

\* A power failure: where cache and medium hold the content, so does whatever
\* of the two is left.
LEMMA ResetKeeps == FileInv /\ Reset => FileInv'
<1> SUFFICES ASSUME FileInv, Reset
             PROVE  FileInv'
  OBVIOUS
<1>1. /\ resets < MaxResets /\ resets' = resets + 1
      /\ pc' = "start" /\ handles' = {} /\ list' = FALSE /\ position' = 0 /\ info' = FALSE
      /\ written' = FALSE /\ shown' = <<>> /\ UNCHANGED kept
      /\ testDir' \in {testDir, durable.dir}
      /\ durable' = [dir |-> testDir', file |-> testFile']
      /\ \/ testFile' = testFile
         \/ testFile' = durable.file
         \/ \E a \in OnMedium, b \in testFile : \E f \in Torn(a, b) : testFile' = {f}
  BY DEF Reset
<1>2. testFile \in SUBSET Files /\ durable.file \in SUBSET Files /\ OnMedium \in SUBSET Files
  BY DEF FileInv, TypeOK, OnMedium, Files
<1>3. testFile' \in SUBSET Files /\ testDir' \in BOOLEAN
  BY <1>1, <1>2, TornIs DEF FileInv, TypeOK
<1>4. Holds(testFile) /\ Holds(durable.file) => testFile' # {} /\ \A f \in testFile' : BeginsNew(f)
  <2> SUFFICES ASSUME Holds(testFile), Holds(durable.file)
               PROVE  testFile' # {} /\ \A f \in testFile' : BeginsNew(f)
    OBVIOUS
  <2>1. CASE testFile' = testFile \/ testFile' = durable.file
    BY <2>1 DEF Holds
  <2>2. CASE \E a \in OnMedium, b \in testFile : \E f \in Torn(a, b) : testFile' = {f}
    <3>1. PICK a \in OnMedium, b \in testFile : \E f \in Torn(a, b) : testFile' = {f}
      BY <2>2
    <3>2. BeginsNew(a) /\ BeginsNew(b)
      BY DEF Holds, OnMedium
    <3> QED BY <1>2, <3>1, <3>2, TornIs
  <2> QED BY <1>1, <2>1, <2>2
<1>5. /\ durable'.dir = testDir' /\ durable'.file = testFile'
      /\ resets' \in 0 .. MaxResets
      /\ position' \in 0 .. RootFiles + 1
      /\ shown' \in Files /\ Len(shown') <= ReadLimit
  BY <1>1, ResetAssumption, ReadAssumption DEF FileInv, TypeOK, Files
<1>6. TypeOK'
  BY <1>1, <1>3, <1>5 DEF FileInv, TypeOK, Files, Steps
<1>7. HandlesKnown' /\ WriteKnown' /\ ReadsBackWhatWasWritten'
  BY <1>1 DEF HandlesKnown, WriteKnown, BeforeShown, ReadsBackWhatWasWritten
<1>8. KeptKnown'
  <2> SUFFICES ASSUME kept
               PROVE  testDir' /\ durable'.dir /\ testFile' # {} /\ \A f \in testFile' : BeginsNew(f)
    BY <1>1, <1>5 DEF KeptKnown, Holds, BeginsNew
  <2> QED BY <1>1, <1>4, <1>5 DEF FileInv, KeptKnown
<1> QED BY <1>6, <1>7, <1>8 DEF FileInv

\* FileInv holds in every reachable state.
LEMMA FileInvariance == Spec => []FileInv
<1>1. FileInv /\ UNCHANGED vars => FileInv'
  <2> SUFFICES ASSUME FileInv, UNCHANGED vars
               PROVE  FileInv'
    OBVIOUS
  <2>1. /\ UNCHANGED <<testDir, testFile, durable, resets, pc, handles, list, position, info>>
        /\ UNCHANGED <<written, shown, kept>>
    BY DEF vars, volume, buffers
  <2>2. TypeOK'
    BY <2>1 DEF FileInv, TypeOK
  <2>3. HandlesKnown' /\ WriteKnown' /\ KeptKnown' /\ ReadsBackWhatWasWritten'
    BY <2>1 DEF FileInv, HandlesKnown, WriteKnown, KeptKnown, Holds, BeginsNew, ReadsBackWhatWasWritten
  <2> QED BY <2>2, <2>3 DEF FileInv
<1>2. FileInv /\ [Next]_vars => FileInv'
  BY <1>1, HandleStepsKeep, CreateKeeps, WriteKeeps, FlushKeeps, ReadKeeps, ResetKeeps
  DEF Next, FileSystemExampleMain
<1> QED BY <1>2, FileInitially, PTL DEF Spec

--------------------------------------------------------------------------------
(* The properties.                                                         *)

\* Every variable keeps its type.
THEOREM FileTypeCorrect == Spec => []TypeOK
BY FileInvariance, PTL DEF FileInv

\* FileSystemExampleMain returns with every handle closed and every buffer
\* freed, whatever failed.
THEOREM ApplicationCleansUp == Spec => []NothingLeftOpen
<1>1. FileInv => NothingLeftOpen
  BY DEF FileInv, HandlesKnown, NothingLeftOpen
<1> QED BY <1>1, FileInvariance, PTL

\* ReadFile shows the content that WriteFile wrote, or nothing.
THEOREM ReadsWhatItWrote == Spec => []ReadsBackWhatWasWritten
BY FileInvariance, PTL DEF FileInv

\* A content that was written and flushed survives every power failure and
\* every later run.
THEOREM FlushIsForGood == Spec => []FlushedWriteSurvives
<1>1. FileInv => FlushedWriteSurvives
  BY DEF FileInv, KeptKnown, Holds, BeginsNew, FlushedWriteSurvives
<1> QED BY <1>1, FileInvariance, PTL
================================================================================
