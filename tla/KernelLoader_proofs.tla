-------------------------- MODULE KernelLoader_proofs --------------------------
(***************************************************************************)
(* LoadKernel for every page size and every size of the file.              *)
(***************************************************************************)
EXTENDS KernelLoader, TLAPS

(***************************************************************************)
(* EFI_SIZE_TO_PAGES gives enough pages, and none that is not needed.      *)
(***************************************************************************)
LEMMA DivisionFacts ==
    ASSUME NEW s \in Nat, NEW p \in Nat, p > 0
    PROVE  /\ s \div p \in Nat
           /\ s % p \in 0 .. p - 1
           /\ s = p * (s \div p) + (s % p)
  OBVIOUS

\* The pages hold the size, and one page fewer would not.
LEMMA EnoughPages ==
    ASSUME NEW s \in Nat
    PROVE  /\ SizeToPages(s) \in Nat
           /\ s <= SizeToPages(s) * PageSize
           /\ SizeToPages(s) > 0 => (SizeToPages(s) - 1) * PageSize < s
<1> DEFINE q == s \div PageSize
           r == s % PageSize
<1>1. PageSize \in Nat /\ PageSize > 0
  BY PageSizeAssumption
<1>2. q \in Nat /\ r \in 0 .. PageSize - 1 /\ s = PageSize * q + r
  BY <1>1, DivisionFacts
<1>3. SizeToPages(s) = q + (IF r # 0 THEN 1 ELSE 0)
  BY DEF SizeToPages
<1> HIDE DEF q, r
<1>4. CASE r = 0
  <2>1. SizeToPages(s) = q /\ s = PageSize * q
    BY <1>1, <1>2, <1>3, <1>4
  <2> QED  BY <2>1, <1>1, <1>2
<1>5. CASE r # 0
  <2>1. SizeToPages(s) = q + 1
    BY <1>2, <1>3, <1>5
  <2> QED  BY <2>1, <1>1, <1>2, <1>5
<1> QED  BY <1>4, <1>5

\* The bounds of the variables are natural numbers.
LEMMA BoundIsNat == MaxSize \in Nat /\ MaxPages \in Nat
<1>1. MaxSize + PageSize - 1 \in Nat /\ PageSize \in Nat /\ PageSize > 0
  BY PageSizeAssumption, MaxSizeAssumption
<1> QED  BY <1>1, MaxSizeAssumption, DivisionFacts DEF MaxPages

\* The smaller of two products with a common factor has the smaller other factor.
LEMMA LessFactor ==
    ASSUME NEW a \in Nat, NEW b \in Nat, NEW p \in Nat, a * p < b * p
    PROVE  a < b
  OBVIOUS

(***************************************************************************)
(* The bound of TypeOK on pages holds of every size the file can have.     *)
(***************************************************************************)
LEMMA PagesInBounds ==
    ASSUME NEW s \in 0 .. MaxSize, SizeToPages(s) > 0
    PROVE  SizeToPages(s) \in 0 .. MaxPages
<1> DEFINE n == SizeToPages(s)
           t == MaxSize + PageSize - 1
           b == t \div PageSize
<1>1. PageSize \in Nat /\ PageSize > 0 /\ MaxSize \in Nat /\ s \in Nat
  BY PageSizeAssumption, MaxSizeAssumption
<1>2. n \in Nat /\ (n - 1) * PageSize < s
  BY <1>1, EnoughPages
<1>3. b \in Nat /\ MaxSize <= PageSize * b
  <2>1. t \in Nat
    BY <1>1
  <2>2. b \in Nat /\ t % PageSize \in 0 .. PageSize - 1 /\ t = PageSize * b + (t % PageSize)
    BY <1>1, <2>1, DivisionFacts
  <2> QED  BY <1>1, <2>2
<1> HIDE DEF n, b, t
<1>4. n > 0
  BY DEF n
<1>5. (n - 1) * PageSize < b * PageSize
  <2>1. s <= MaxSize
    OBVIOUS
  <2>2. PageSize * b = b * PageSize
    BY <1>1, <1>3
  <2>3. (n - 1) * PageSize \in Int /\ b * PageSize \in Int
    BY <1>1, <1>2, <1>3
  <2> QED  BY <1>1, <1>2, <1>3, <2>1, <2>2, <2>3
<1>6. n - 1 < b
  BY <1>1, <1>2, <1>3, <1>4, <1>5, LessFactor
<1>7. n \in 0 .. b
  BY <1>2, <1>3, <1>6
<1> QED  BY <1>7 DEF n, b, t, MaxPages

--------------------------------------------------------------------------------
\* Before the first load nothing is held.
LEMMA InitLoad == Init => LoadInv
<1> SUFFICES ASSUME Init PROVE LoadInv
  OBVIOUS
<1>1. TypeOK
  <2>1. 0 \in 0 .. MaxPages /\ 0 \in 0 .. MaxSize
    BY BoundIsNat
  <2> QED  BY <2>1 DEF Init, TypeOK, Returned
<1>2. handles = HeldAt(pc) /\ pages = 0 /\ ReadFitsPages /\ SizeIsWhatWasRead
  BY DEF Init, HeldAt, Returned, ReadFitsPages, SizeIsWhatWasRead
<1>3. info = (pc = "info") /\ kernelBuffer = (pc = "loaded")
  BY Zenon DEF Init
<1> QED  BY <1>1, <1>2, <1>3 DEF Init, LoadInv

\* Every service of LoadKernel, its error returns, and a rewritten file.
LEMMA StepLoad == LoadInv /\ [Next]_vars => LoadInv'
<1> SUFFICES ASSUME LoadInv, [Next]_vars PROVE LoadInv'
  OBVIOUS
<1> USE DEF LoadInv, HeldAt, Returned, Go, Fails, ClosedOnError, TypeOK,
            ReadFitsPages, SizeIsWhatWasRead, buffers, result
<1>1. CASE OpenVolume
  <2>1. TypeOK'
    <3>1. 0 \in 0 .. MaxSize
      BY BoundIsNat
    <3> QED  BY <1>1, <3>1 DEF OpenVolume
  <2>2. pc' # "loaded" /\ kernelBuffer' = FALSE
    BY <1>1 DEF OpenVolume
  <2>3. kernelBuffer' = (pc' = "loaded")
    BY <2>2, Zenon
  <2> QED  BY <1>1, <2>1, <2>2, <2>3 DEF OpenVolume
<1>2. CASE OpenKernelFile
  BY <1>2 DEF OpenKernelFile
<1>3. CASE AllocateInfo
  BY <1>3 DEF AllocateInfo
<1>4. CASE GetInfo
  BY <1>4 DEF GetInfo
<1>5. CASE AllocatePages
  <2>1. CASE pc' = "read"
    <3>1. kernelSize \in 0 .. MaxSize /\ kernelSize \in Nat /\ SizeToPages(kernelSize) > 0
      BY <1>5, <2>1, MaxSizeAssumption DEF AllocatePages
    <3>2. pages' \in 0 .. MaxPages
      BY <1>5, <2>1, <3>1, PagesInBounds DEF AllocatePages
    <3>3. kernelSize' <= pages' * PageSize /\ (pages' - 1) * PageSize < kernelSize'
      BY <1>5, <2>1, <3>1, EnoughPages DEF AllocatePages
    <3> QED  BY <1>5, <2>1, <3>1, <3>2, <3>3 DEF AllocatePages
  <2>2. CASE pc' # "read"
    BY <1>5, <2>2 DEF AllocatePages
  <2> QED  BY <2>1, <2>2
<1>6. CASE ReadKernel
  <2>1. CASE pc' = "loaded"
    BY <1>6, <2>1, BoundIsNat DEF ReadKernel, SizeAfterRead
  <2>2. CASE pc' = "failed"
    BY <1>6, <2>2, BoundIsNat DEF ReadKernel, PagesAfterReadError
  <2> QED  BY <1>6, <2>1, <2>2 DEF ReadKernel
<1>7. CASE Retry
  BY <1>7 DEF Retry
<1>8. CASE Rewrite
  BY <1>8 DEF Rewrite
<1>9. CASE UNCHANGED vars
  BY <1>9 DEF vars
<1> QED  BY <1>1, <1>2, <1>3, <1>4, <1>5, <1>6, <1>7, <1>8, <1>9 DEF Next, LoadKernel

(***************************************************************************)
(* LoadInv holds in every state, for every page size and file size.        *)
(***************************************************************************)
THEOREM LoadInvariant == Spec => []LoadInv
  BY InitLoad, StepLoad, PTL DEF Spec

(***************************************************************************)
(* Every variable keeps its type; in particular no load takes more pages   *)
(* than the largest file has.                                              *)
(***************************************************************************)
THEOREM LoadTypeCorrect == Spec => []TypeOK
<1>1. LoadInv => TypeOK
  BY DEF LoadInv
<1> QED  BY <1>1, LoadInvariant, PTL

(***************************************************************************)
(* Every return leaves the files closed and the FileInfo freed.            *)
(***************************************************************************)
THEOREM LoadLeavesNothingOpen == Spec => []NothingLeftOpen
<1>1. LoadInv => NothingLeftOpen
  BY DEF LoadInv, HeldAt, NothingLeftOpen, Returned
<1> QED  BY <1>1, LoadInvariant, PTL

(***************************************************************************)
(* The caller owns the pages exactly after a successful return.            *)
(***************************************************************************)
THEOREM LoadPagesFollowStatus == Spec => []PagesFollowStatus
<1>1. LoadInv => PagesFollowStatus
  BY PageSizeAssumption, MaxSizeAssumption
     DEF LoadInv, TypeOK, PagesFollowStatus, Returned
<1> QED  BY <1>1, LoadInvariant, PTL

(***************************************************************************)
(* The read stays inside the pages, however the file is rewritten.         *)
(***************************************************************************)
THEOREM LoadReadFitsPages == Spec => []ReadFitsPages
<1>1. LoadInv => ReadFitsPages
  BY DEF LoadInv
<1> QED  BY <1>1, LoadInvariant, PTL

(***************************************************************************)
(* The size that is returned is the size of what was read.                 *)
(***************************************************************************)
THEOREM LoadSizeIsWhatWasRead == Spec => []SizeIsWhatWasRead
<1>1. LoadInv => SizeIsWhatWasRead
  BY DEF LoadInv
<1> QED  BY <1>1, LoadInvariant, PTL
================================================================================
