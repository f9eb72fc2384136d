-------------------------- MODULE ShellSession_proofs --------------------------
(***************************************************************************)
(* Proofs about the session: the safety properties of its programs and of  *)
(* the pool, for every store, every set of devices, every resolution from  *)
(* 84x63 on, and every width of UINTN.                                     *)
(*                                                                         *)
(*   The variable store      sequences that enumerate it; VarInv           *)
(*   The partition tables    DiskInv                                       *)
(*   Graphics                the geometry of a resolution; GopInv          *)
(*   The other programs      what a step of each leaves to the others      *)
(*   The pool                what each program has allocated, and where    *)
(*   The session             SessionInv, the theorems                      *)
(*                                                                         *)
(* Each program has an inductive invariant of its own over its frame; the  *)
(* lemmas Elsewhere... say that the steps of the others keep it.           *)
(***************************************************************************)
EXTENDS ShellSession, SequenceTheorems, FiniteSetTheorems, FunctionTheorems, TLAPS

--------------------------------------------------------------------------------
(* The variable store: sequences that enumerate it.                        *)

\* The sequence s has each member of S once.
Enumerates(s, S) ==
    /\ s \in Seq(Names) /\ S = ToSet(s)
    /\ \A i, j \in 1 .. Len(s) : i # j => s[i] # s[j]

\* A store of any contents is enumerated in an order of its own.
LEMMA OrdersEnumerate ==
    ASSUME NEW S \in SUBSET Names, NEW o \in Orders(S)
    PROVE  Enumerates(o, S)
<1> DEFINE n == Cardinality(S)
<1>1. IsFiniteSet(S) /\ n \in Nat
  BY NameAssumption, FS_Subset, FS_CardinalityType
<1>2. o \in [1 .. n -> S] /\ \A i, j \in 1 .. n : i # j => o[i] # o[j]
  BY DEF Orders, SetToSeqs
<1>3. o \in Seq(Names) /\ Len(o) = n /\ DOMAIN o = 1 .. n
  <2> HIDE DEF n
  <2>1. o \in [1 .. n -> Names]
    BY <1>2
  <2> QED BY <1>1, <2>1
<1>4. S = ToSet(o)
  <2>1. o \in Injection(1 .. n, S)
    BY <1>2 DEF Injection, IsInjective
  <2>2. Cardinality(1 .. n) = n
    BY <1>1, FS_Interval
  <2>3. o \in Surjection(1 .. n, S)
    BY <1>1, <2>1, <2>2, FS_Injection
  <2>4. \A x \in S : \E i \in 1 .. n : o[i] = x
    BY <2>3 DEF Surjection
  <2> QED BY <1>2, <1>3, <2>4 DEF ToSet
<1> QED BY <1>2, <1>3, <1>4 DEF Enumerates

\* A sequence with one position taken out.
LEMMA RemovedEnumerates ==
    ASSUME NEW s, NEW S, Enumerates(s, S), NEW k \in 1 .. Len(s)
    PROVE  Enumerates(RemoveAt(s, k), S \ {s[k]})
<1> DEFINE n == Len(s)
           r == RemoveAt(s, k)
<1>1. s \in Seq(Names) /\ n \in Nat /\ DOMAIN s = 1 .. n /\ \A i \in 1 .. n : s[i] \in Names
  BY LenProperties, ElementOfSeq DEF Enumerates
<1>2. /\ SubSeq(s, 1, k - 1) \in Seq(Names) /\ Len(SubSeq(s, 1, k - 1)) = k - 1
      /\ \A i \in 1 .. k - 1 : SubSeq(s, 1, k - 1)[i] = s[i]
  <2>1. 1 \in Int /\ k - 1 \in Int /\ \A i \in 1 .. k - 1 : s[i] \in Names
    BY <1>1
  <2>2. /\ SubSeq(s, 1, k - 1) \in Seq(Names)
        /\ Len(SubSeq(s, 1, k - 1)) = IF 1 <= k - 1 THEN (k - 1) - 1 + 1 ELSE 0
        /\ \A i \in 1 .. (k - 1) - 1 + 1 : SubSeq(s, 1, k - 1)[i] = s[1 + i - 1]
    BY <2>1, SubSeqProperties
  <2> QED BY <1>1, <2>2
<1>3. /\ SubSeq(s, k + 1, n) \in Seq(Names) /\ Len(SubSeq(s, k + 1, n)) = n - k
      /\ \A i \in 1 .. n - k : SubSeq(s, k + 1, n)[i] = s[k + i]
  <2>1. k + 1 \in Int /\ n \in Int /\ \A i \in k + 1 .. n : s[i] \in Names
    BY <1>1
  <2>2. /\ SubSeq(s, k + 1, n) \in Seq(Names)
        /\ Len(SubSeq(s, k + 1, n)) = IF k + 1 <= n THEN n - (k + 1) + 1 ELSE 0
        /\ \A i \in 1 .. n - (k + 1) + 1 : SubSeq(s, k + 1, n)[i] = s[(k + 1) + i - 1]
    BY <2>1, SubSeqProperties
  <2>3. (IF k + 1 <= n THEN n - (k + 1) + 1 ELSE 0) = n - k
    <3> HIDE DEF n
    <3>1. k \in Nat /\ k <= n
      BY <1>1
    <3> QED BY <1>1, <3>1
  <2>4. n - (k + 1) + 1 = n - k /\ \A i \in 1 .. n - k : (k + 1) + i - 1 = k + i
    BY <1>1
  <2> QED BY <2>2, <2>3, <2>4
<1>4. /\ r \in Seq(Names) /\ Len(r) = n - 1
      /\ \A i \in 1 .. n - 1 : r[i] = IF i < k THEN s[i] ELSE s[i + 1]
  <2> DEFINE a == SubSeq(s, 1, k - 1)
             b == SubSeq(s, k + 1, n)
  <2>1. r = a \o b
    BY DEF RemoveAt
  <2>2. a \in Seq(Names) /\ b \in Seq(Names) /\ Len(a) = k - 1 /\ Len(b) = n - k
    BY <1>2, <1>3
  <2> HIDE DEF a, b, r
  <2>3. /\ a \o b \in Seq(Names) /\ Len(a \o b) = Len(a) + Len(b)
        /\ \A i \in 1 .. Len(a) + Len(b) : (a \o b)[i] = IF i <= Len(a) THEN a[i] ELSE b[i - Len(a)]
    BY <2>2, ConcatProperties
  <2>4. Len(a) + Len(b) = n - 1
    BY <1>1, <2>2
  <2>5. ASSUME NEW i \in 1 .. n - 1
        PROVE  r[i] = IF i < k THEN s[i] ELSE s[i + 1]
    <3>1. CASE i < k
      <4>1. i <= Len(a) /\ i \in 1 .. k - 1
        BY <2>2, <3>1
      <4> QED BY <1>2, <2>1, <2>3, <2>4, <3>1, <4>1 DEF a
    <3>2. CASE ~(i < k)
      <4>1. ~(i <= Len(a)) /\ i - Len(a) \in 1 .. n - k /\ k + (i - Len(a)) = i + 1
        BY <1>1, <2>2, <3>2
      <4>2. r[i] = b[i - Len(a)]
        BY <2>1, <2>3, <2>4, <4>1
      <4>3. b[i - Len(a)] = s[k + (i - Len(a))]
        BY <1>3, <4>1 DEF b
      <4> QED BY <3>2, <4>1, <4>2, <4>3
    <3> QED BY <3>1, <3>2
  <2> QED BY <2>1, <2>3, <2>4, <2>5
<1> HIDE DEF r
<1>5. \A i, j \in 1 .. n : i # j => s[i] # s[j]
  BY DEF Enumerates
<1>6. \A i, j \in 1 .. n - 1 : i # j => r[i] # r[j]
  <2> SUFFICES ASSUME NEW i \in 1 .. n - 1, NEW j \in 1 .. n - 1, i # j
               PROVE  r[i] # r[j]
    OBVIOUS
  <2> DEFINE Origin(x) == IF x < k THEN x ELSE x + 1
  <2>1. Origin(i) \in 1 .. n /\ Origin(j) \in 1 .. n /\ Origin(i) # Origin(j)
    BY <1>1
  <2>2. r[i] = s[Origin(i)] /\ r[j] = s[Origin(j)]
    BY <1>4
  <2> HIDE DEF Origin
  <2> QED BY <1>5, <2>1, <2>2
<1>7. ToSet(r) = S \ {s[k]}
  <2>1. DOMAIN r = 1 .. n - 1
    BY <1>4, LenProperties
  <2>2. ASSUME NEW x \in ToSet(r)
        PROVE  x \in S \ {s[k]}
    <3>1. PICK i \in 1 .. n - 1 : x = r[i]
      BY <2>1 DEF ToSet
    <3>2. PICK l \in 1 .. n : l # k /\ x = s[l]
      <4>1. CASE i < k
        BY <1>1, <1>4, <3>1, <4>1
      <4>2. CASE ~(i < k)
        BY <1>1, <1>4, <3>1, <4>2
      <4> QED BY <4>1, <4>2
    <3> QED BY <1>1, <1>5, <3>2 DEF Enumerates, ToSet
  <2>3. ASSUME NEW x \in S \ {s[k]}
        PROVE  x \in ToSet(r)
    <3>1. PICK l \in 1 .. n : x = s[l] /\ l # k
      BY <1>1 DEF Enumerates, ToSet
    <3>2. CASE l < k
      <4>1. l \in 1 .. n - 1 /\ r[l] = x
        BY <1>1, <1>4, <3>1, <3>2
      <4> QED BY <2>1, <4>1 DEF ToSet
    <3>3. CASE ~(l < k)
      <4>1. l - 1 \in 1 .. n - 1 /\ ~(l - 1 < k) /\ (l - 1) + 1 = l
        BY <1>1, <3>1, <3>3
      <4>2. r[l - 1] = x
        BY <1>4, <3>1, <4>1
      <4> QED BY <2>1, <4>1, <4>2 DEF ToSet
    <3> QED BY <3>2, <3>3
  <2> QED BY <2>2, <2>3
<1> QED BY <1>4, <1>6, <1>7 DEF Enumerates, r

\* A sequence with a new member put in anywhere.
LEMMA InsertedEnumerates ==
    ASSUME NEW s, NEW S, Enumerates(s, S), NEW m \in Names \ S, NEW k \in 1 .. Len(s) + 1
    PROVE  Enumerates(InsertAt(s, k, m), S \cup {m})
<1> DEFINE n == Len(s)
           r == InsertAt(s, k, m)
<1>1. s \in Seq(Names) /\ n \in Nat /\ DOMAIN s = 1 .. n /\ \A i \in 1 .. n : s[i] \in Names
  BY LenProperties, ElementOfSeq DEF Enumerates
<1>2. /\ SubSeq(s, 1, k - 1) \in Seq(Names) /\ Len(SubSeq(s, 1, k - 1)) = k - 1
      /\ \A i \in 1 .. k - 1 : SubSeq(s, 1, k - 1)[i] = s[i]
  <2>1. 1 \in Int /\ k - 1 \in Int /\ \A i \in 1 .. k - 1 : s[i] \in Names
    BY <1>1
  <2>2. /\ SubSeq(s, 1, k - 1) \in Seq(Names)
        /\ Len(SubSeq(s, 1, k - 1)) = IF 1 <= k - 1 THEN (k - 1) - 1 + 1 ELSE 0
        /\ \A i \in 1 .. (k - 1) - 1 + 1 : SubSeq(s, 1, k - 1)[i] = s[1 + i - 1]
    BY <2>1, SubSeqProperties
  <2> QED BY <1>1, <2>2
<1>3. /\ SubSeq(s, k, n) \in Seq(Names) /\ Len(SubSeq(s, k, n)) = n - k + 1
      /\ \A i \in 1 .. n - k + 1 : SubSeq(s, k, n)[i] = s[k + i - 1]
  <2>1. k \in Int /\ n \in Int /\ \A i \in k .. n : s[i] \in Names
    BY <1>1
  <2>2. /\ SubSeq(s, k, n) \in Seq(Names)
        /\ Len(SubSeq(s, k, n)) = IF k <= n THEN n - k + 1 ELSE 0
        /\ \A i \in 1 .. n - k + 1 : SubSeq(s, k, n)[i] = s[k + i - 1]
    BY <2>1, SubSeqProperties
  <2> QED BY <1>1, <2>2
<1>4. /\ r \in Seq(Names) /\ Len(r) = n + 1
      /\ \A i \in 1 .. n + 1 : r[i] = IF i < k THEN s[i] ELSE IF i = k THEN m ELSE s[i - 1]
  <2> DEFINE a == SubSeq(s, 1, k - 1)
             c == SubSeq(s, k, n)
             b == a \o <<m>>
  <2>1. r = b \o c
    BY DEF InsertAt
  <2>2. a \in Seq(Names) /\ c \in Seq(Names) /\ Len(a) = k - 1 /\ Len(c) = n - k + 1
    BY <1>2, <1>3
  <2>3. <<m>> \in Seq(Names) /\ Len(<<m>>) = 1 /\ <<m>>[1] = m
    OBVIOUS
  <2> HIDE DEF a, c
  <2>4. /\ b \in Seq(Names) /\ Len(b) = k
        /\ \A i \in 1 .. k : b[i] = IF i < k THEN a[i] ELSE m
    <3>1. /\ a \o <<m>> \in Seq(Names) /\ Len(a \o <<m>>) = Len(a) + Len(<<m>>)
          /\ \A i \in 1 .. Len(a) + Len(<<m>>) :
               (a \o <<m>>)[i] = IF i <= Len(a) THEN a[i] ELSE <<m>>[i - Len(a)]
      BY <2>2, <2>3, ConcatProperties
    <3>2. Len(a) + Len(<<m>>) = k
      BY <1>1, <2>2, <2>3
    <3>3. ASSUME NEW i \in 1 .. k
          PROVE  b[i] = IF i < k THEN a[i] ELSE m
      <4>1. CASE i < k
        <5>1. i <= Len(a)
          BY <1>1, <2>2, <4>1
        <5> QED BY <3>1, <3>2, <4>1, <5>1
      <4>2. CASE ~(i < k)
        <5>1. ~(i <= Len(a)) /\ i - Len(a) = 1
          BY <1>1, <2>2, <4>2
        <5>2. b[i] = <<m>>[i - Len(a)]
          BY <3>1, <3>2, <5>1
        <5> QED BY <2>3, <4>2, <5>1, <5>2
      <4> QED BY <4>1, <4>2
    <3> QED BY <3>1, <3>2, <3>3
  <2> HIDE DEF b, r
  <2>5. /\ b \o c \in Seq(Names) /\ Len(b \o c) = Len(b) + Len(c)
        /\ \A i \in 1 .. Len(b) + Len(c) : (b \o c)[i] = IF i <= Len(b) THEN b[i] ELSE c[i - Len(b)]
    BY <2>2, <2>4, ConcatProperties
  <2>6. Len(b) + Len(c) = n + 1
    BY <1>1, <2>2, <2>4
  <2>7. ASSUME NEW i \in 1 .. n + 1
        PROVE  r[i] = IF i < k THEN s[i] ELSE IF i = k THEN m ELSE s[i - 1]
    <3>1. r[i] = IF i <= k THEN b[i] ELSE c[i - k]
      BY <2>1, <2>4, <2>5, <2>6
    <3>2. CASE i < k
      <4>1. i \in 1 .. k - 1 /\ i \in 1 .. k /\ i <= k
        BY <3>2
      <4> QED BY <1>2, <2>4, <3>1, <3>2, <4>1 DEF a
    <3>3. CASE i = k
      BY <2>4, <3>1, <3>3
    <3>4. CASE k < i
      <4>1. ~(i <= k) /\ i - k \in 1 .. n - k + 1 /\ k + (i - k) - 1 = i - 1
        BY <1>1, <3>4
      <4>2. c[i - k] = s[k + (i - k) - 1]
        BY <1>3, <4>1 DEF c
      <4> QED BY <3>1, <3>4, <4>1, <4>2
    <3> QED BY <3>2, <3>3, <3>4
  <2> QED BY <2>1, <2>5, <2>6, <2>7
<1> HIDE DEF r
<1>5. \A i, j \in 1 .. n : i # j => s[i] # s[j]
  BY DEF Enumerates
<1>6. \A i \in 1 .. n : s[i] \in S /\ s[i] # m
  BY <1>1 DEF Enumerates, ToSet
<1>7. \A i, j \in 1 .. n + 1 : i # j => r[i] # r[j]
  <2> SUFFICES ASSUME NEW i \in 1 .. n + 1, NEW j \in 1 .. n + 1, i < j
               PROVE  r[i] # r[j]
    BY <1>1
  <2>1. CASE i = k \/ j = k
    BY <1>1, <1>4, <1>6, <2>1
  <2>2. CASE i # k /\ j # k
    <3> DEFINE Was(x) == IF x < k THEN x ELSE x - 1
    <3>1. Was(i) \in 1 .. n /\ Was(j) \in 1 .. n /\ Was(i) # Was(j)
      BY <1>1, <2>2
    <3>2. r[i] = s[Was(i)] /\ r[j] = s[Was(j)]
      BY <1>4, <2>2
    <3> HIDE DEF Was
    <3> QED BY <1>5, <3>1, <3>2
  <2> QED BY <2>1, <2>2
<1>8. ToSet(r) = S \cup {m}
  <2>1. DOMAIN r = 1 .. n + 1
    BY <1>4, LenProperties
  <2>2. ASSUME NEW x \in ToSet(r)
        PROVE  x \in S \cup {m}
    <3>1. PICK i \in 1 .. n + 1 : x = r[i]
      BY <2>1 DEF ToSet
    <3>2. CASE i < k
      BY <1>1, <1>4, <1>6, <3>1, <3>2
    <3>3. CASE i = k
      BY <1>4, <3>1, <3>3
    <3>4. CASE k < i
      <4>1. i - 1 \in 1 .. n
        BY <1>1, <3>4
      <4> QED BY <1>4, <1>6, <3>1, <3>4, <4>1
    <3> QED BY <3>2, <3>3, <3>4
  <2>3. ASSUME NEW x \in S
        PROVE  x \in ToSet(r)
    <3>1. PICK l \in 1 .. n : x = s[l]
      BY <1>1 DEF Enumerates, ToSet
    <3>2. CASE l < k
      <4>1. l \in 1 .. n + 1 /\ r[l] = x
        BY <1>1, <1>4, <3>1, <3>2
      <4> QED BY <2>1, <4>1 DEF ToSet
    <3>3. CASE ~(l < k)
      <4>1. l + 1 \in 1 .. n + 1 /\ ~(l + 1 < k) /\ l + 1 # k /\ (l + 1) - 1 = l
        BY <1>1, <3>3
      <4>2. r[l + 1] = x
        BY <1>4, <3>1, <4>1
      <4> QED BY <2>1, <4>1, <4>2 DEF ToSet
    <3> QED BY <3>2, <3>3
  <2>4. m \in ToSet(r)
    <3>1. k \in 1 .. n + 1 /\ r[k] = m
      BY <1>1, <1>4
    <3> QED BY <2>1, <3>1 DEF ToSet
  <2> QED BY <2>2, <2>3, <2>4
<1> QED BY <1>4, <1>7, <1>8 DEF Enumerates, r

--------------------------------------------------------------------------------
(* The programs that show the store.                                       *)

\* The names of the variables of the store.
Stored == {n \in Names : Present(n)}

\* Where TestVar of "variables" may be in the store, or taken out of it.
AfterCreation == {"readback", "delete", "verify", "return"}

\* The store differs from what the others made of it only in TestVar, only
\* from the creation of TestVar on, and without other writers only in the two
\* ways that creation and deletion bring about.
StoreKnown ==
    program \in Clients =>
        /\ \A n \in Names :
             attr[n] # theirs[n] => n = TestVar /\ program = "variables" /\ pc \in AfterCreation
        /\ quiet /\ pc \in {"readback", "delete"} =>
             attr[TestVar] = "volatile" /\ theirs[TestVar] \in {"absent", "volatile"}
        /\ quiet /\ pc \in {"verify", "return"} /\ attr[TestVar] # theirs[TestVar] =>
             <<theirs[TestVar], attr[TestVar]>> \in {<<"volatile", "absent">>, <<"absent", "volatile">>}

\* What was listed are the first variables of the store, as long as nobody
\* else writes it, and name is the last of them.
FirstAreListed ==
    /\ Len(listed) <= Len(list)
    /\ \A i \in 1 .. Len(listed) : listed[i] = list[i]
    /\ name = IF listed = <<>> THEN NoName ELSE list[Len(listed)]

WalkKnown ==
    /\ program \notin Clients \/ pc \in {"read", "order"} => listed = <<>> /\ name = NoName
    /\ program = "services" => Len(listed) <= CountLimit
    /\ pc = "walked" => program \in Clients
    /\ quiet /\ program \in Clients /\ pc \in {"walk", "walked"} => FirstAreListed
    /\ WalkIsComplete

\* BootOrder is still the variable that is read next.
ReadsKnown == program \in Clients /\ pc = "order" => reads < 5

\* Only "variables" has a variable of its own.
CreateIsOfVariables ==
    program \in Clients /\ pc \in {"create", "readback", "delete", "verify"} => program = "variables"

VarInv ==
    /\ VariableTypeOK /\ Enumerates(list, Stored)
    /\ StoreKnown /\ WalkKnown /\ ReadsKnown /\ CreateIsOfVariables

--------------------------------------------------------------------------------
(* The services of the store.                                              *)

\* A program with a store of any contents; one with none.
LEMMA AnyStoreIsStore == AnyStore => StoreTypeOK' /\ Enumerates(list, Stored)'
<1> SUFFICES ASSUME AnyStore
             PROVE  StoreTypeOK' /\ Enumerates(list, Stored)'
  OBVIOUS
<1>1. attr' \in [Names -> Attributes \cup {"absent"}]
  BY DEF AnyStore
<1>2. Stored' = {n \in Names : attr'[n] # "absent"}
  BY DEF Stored, Present
<1>3. list' \in Orders(Stored') /\ Stored' \in SUBSET Names
  BY <1>2 DEF AnyStore
<1>4. Enumerates(list', Stored')
  BY <1>3, OrdersEnumerate
<1> QED BY <1>1, <1>4 DEF StoreTypeOK, Enumerates, Stored

\* Between two runs the store is not followed: the empty one stands for any.
LEMMA ForgottenIsStore == ForgetStore => StoreTypeOK' /\ Enumerates(list, Stored)'
<1> SUFFICES ASSUME ForgetStore
             PROVE  StoreTypeOK' /\ Enumerates(list, Stored)'
  OBVIOUS
<1>1. list' = <<>> /\ attr' = [n \in Names |-> "absent"]
  BY DEF ForgetStore
<1>2. Stored' = {}
  BY <1>1 DEF Stored, Present
<1>3. list' \in Seq(Names) /\ Len(list') = 0 /\ ToSet(list') = {}
  BY <1>1 DEF ToSet
<1> QED BY <1>1, <1>2, <1>3 DEF StoreTypeOK, Enumerates, Stored

\* Without a variable that is in the store the others remain.
LEMMA WithoutEnumerates ==
    ASSUME Enumerates(list, Stored), NEW n \in Names
    PROVE  Enumerates(Without(n), Stored \ {n})
<1>1. CASE Present(n)
  <2>1. DOMAIN list = 1 .. Len(list)
    BY LenProperties DEF Enumerates
  <2>2. \E i \in DOMAIN list : list[i] = n
    BY <1>1 DEF Enumerates, ToSet, Stored
  <2>3. PICK k \in 1 .. Len(list) : list[k] = n /\ Without(n) = RemoveAt(list, k)
    BY <1>1, <2>1, <2>2 DEF Without
  <2> QED BY <2>3, RemovedEnumerates
<1>2. CASE ~Present(n)
  BY <1>2 DEF Without, Stored
<1> QED BY <1>1, <1>2

\* SetVariable and DeleteVariable keep the enumeration one of the store.
LEMMA SetKeepsStore ==
    ASSUME StoreTypeOK, Enumerates(list, Stored), NEW n \in Names, NEW a \in Attributes,
           SetVariable(n, a)
    PROVE  StoreTypeOK' /\ Enumerates(list, Stored)'
<1>1. attr' = [attr EXCEPT ![n] = a] /\ attr \in [Names -> Attributes \cup {"absent"}]
  BY DEF SetVariable, StoreTypeOK
<1>2. Stored' = (Stored \ {n}) \cup {n}
  BY <1>1 DEF Stored, Present, Attributes
<1>3. PICK i \in 1 .. Len(Without(n)) + 1 : list' = InsertAt(Without(n), i, n)
  BY DEF SetVariable
<1>4. Enumerates(Without(n), Stored \ {n})
  BY WithoutEnumerates
<1>5. Enumerates(list', Stored')
  BY <1>2, <1>3, <1>4, InsertedEnumerates
<1> QED BY <1>1, <1>5 DEF StoreTypeOK, Enumerates, Stored

\* SetVariable with a size of zero: the name leaves the store and the list.
LEMMA DeleteKeepsStore ==
    ASSUME StoreTypeOK, Enumerates(list, Stored), NEW n \in Names, DeleteVariable(n)
    PROVE  StoreTypeOK' /\ Enumerates(list, Stored)'
<1>1. attr' = [attr EXCEPT ![n] = "absent"] /\ attr \in [Names -> Attributes \cup {"absent"}]
  BY DEF DeleteVariable, StoreTypeOK
<1>2. Stored' = Stored \ {n}
  BY <1>1 DEF Stored, Present
<1>3. Enumerates(list', Stored')
  BY <1>2, WithoutEnumerates DEF DeleteVariable
<1> QED BY <1>1, <1>3 DEF StoreTypeOK, Enumerates, Stored

\* The type of the store says no more than that.
LEMMA UnchangedStore ==
    ASSUME StoreTypeOK, Enumerates(list, Stored), UNCHANGED store
    PROVE  StoreTypeOK' /\ Enumerates(list, Stored)'
BY DEF store, StoreTypeOK, Enumerates, Stored, Present

--------------------------------------------------------------------------------
\* A run begins: any store, which is that of the others.
LEMMA VariablesStartKeeps == VarInv /\ VariablesStart => VarInv'
<1> SUFFICES ASSUME VarInv, VariablesStart
             PROVE  VarInv'
  OBVIOUS
<1>1. /\ program = "shell" /\ program' \in Clients /\ pc' = "read" /\ AnyStore
      /\ theirs' = attr' /\ UNCHANGED <<reads, name, listed, quiet, writes>>
  BY DEF VariablesStart, Enter, locals
<1>2. StoreTypeOK' /\ Enumerates(list, Stored)'
  BY <1>1, AnyStoreIsStore
<1>3. VariableTypeOK'
  BY <1>1, <1>2 DEF VarInv, VariableTypeOK, StoreTypeOK
<1>4. listed = <<>> /\ name = NoName
  BY <1>1 DEF VarInv, WalkKnown, Clients
<1>5. WalkKnown' /\ ReadsKnown' /\ CreateIsOfVariables'
  <2>1. Len(listed') = 0 /\ 0 <= CountLimit
    BY <1>1, <1>4, LimitAssumption
  <2> QED BY <1>1, <1>4, <2>1 DEF WalkKnown, ReadsKnown, CreateIsOfVariables, WalkIsComplete
<1>6. StoreKnown'
  BY <1>1 DEF StoreKnown
<1> QED BY <1>2, <1>3, <1>5, <1>6 DEF VarInv

\* Me is the program that runs.
LEMMA MeRuns == Me \in Clients /\ (program \in Clients => Me = program)
BY DEF Me, Clients

\* The steps before the walk.
LEMMA ReadingKeeps ==
    ASSUME VarInv, ReadFixed \/ QueryOrder \/ ReadOrder \/ BeginWalk
    PROVE  VarInv'
<1>1. /\ program \in Clients /\ UNCHANGED program
      /\ UNCHANGED <<list, attr, name, listed, theirs, quiet, writes>>
      /\ pc \in {"read", "order"}
      /\ \/ pc' = "read" /\ reads < 5 /\ reads' = reads + 1
         \/ pc' = "order" /\ reads < 5 /\ UNCHANGED reads
         \/ pc' = "walk" /\ UNCHANGED reads
  <2>1. Me \in Clients /\ (reads < Len(Standard(Me)) => reads < 5)
    <3>1. Me = "variables" \/ Me = "services"
      BY MeRuns DEF Clients
    <3>2. Len(Standard(Me)) \in 0 .. 5
      BY <3>1 DEF Standard
    <3>3. reads \in 0 .. 5
      BY DEF VarInv, VariableTypeOK
    <3>4. PICK n \in 0 .. 5 : n = Len(Standard(Me))
      BY <3>2
    <3>5. reads < n => reads < 5
      BY <3>3
    <3> QED BY <3>4, <3>5, MeRuns
  <2>2. CASE ReadFixed
    BY <2>1, <2>2 DEF ReadFixed, Go, At, store, history
  <2>3. CASE QueryOrder
    BY <2>1, <2>3 DEF QueryOrder, OrderIsNext, Go, At, store, history
  <2>4. CASE ReadOrder
    BY <2>1, <2>4 DEF VarInv, ReadsKnown, ReadOrder, Go, At, store, history
  <2>5. CASE BeginWalk
    BY <2>1, <2>5 DEF BeginWalk, Go, At, store, locals, history
  <2> QED BY <2>2, <2>3, <2>4, <2>5
<1>2. StoreTypeOK' /\ Enumerates(list, Stored)'
  BY <1>1, UnchangedStore DEF VarInv, VariableTypeOK, store
<1>3. VariableTypeOK'
  <2>1. reads' \in 0 .. 5
    <3>1. reads \in 0 .. 5
      BY DEF VarInv, VariableTypeOK
    <3>2. reads' = reads \/ (reads < 5 /\ reads' = reads + 1)
      BY <1>1
    <3> QED BY <3>1, <3>2
  <2> QED BY <1>1, <1>2, <2>1 DEF VarInv, VariableTypeOK
<1>4. listed = <<>> /\ name = NoName
  BY <1>1 DEF VarInv, WalkKnown
<1>5. WalkKnown' /\ ReadsKnown' /\ CreateIsOfVariables'
  <2>1. Len(list) \in Nat /\ Len(listed) = 0
    BY <1>4, LenProperties DEF VarInv, Enumerates
  <2>2. listed' = <<>> /\ name' = NoName /\ Len(listed') = 0 /\ 0 <= Len(list') /\ 0 <= CountLimit
    BY <1>1, <1>4, <2>1, LimitAssumption
  <2>3. FirstAreListed'
    BY <2>2 DEF FirstAreListed
  <2> QED BY <1>1, <2>2, <2>3 DEF WalkKnown, ReadsKnown, CreateIsOfVariables, WalkIsComplete
<1>6. StoreKnown'
  BY <1>1 DEF VarInv, StoreKnown, AfterCreation
<1> QED BY <1>2, <1>3, <1>5, <1>6 DEF VarInv

\* GetNextVariableName returns the variable behind the last one listed.
LEMMA NextKeeps == VarInv /\ NextVariable => VarInv'
<1> SUFFICES ASSUME VarInv, NextVariable
             PROVE  VarInv'
  OBVIOUS
<1>1. /\ program \in Clients /\ UNCHANGED program /\ WalkGoesOn
      /\ pc = "walk" /\ pc' = "walk"
      /\ UNCHANGED <<list, attr, reads, theirs, quiet, writes>>
  BY MeRuns DEF NextVariable, Go, At, store, history
<1>2. PICK n \in NextNames(name) \ LongNames : listed' = Append(listed, n) /\ name' = n
  BY DEF NextVariable
<1>3. /\ listed \in Seq(Names) /\ list \in Seq(Names) /\ Len(listed) \in Nat /\ Len(list) \in Nat
      /\ DOMAIN list = 1 .. Len(list) /\ \A i \in 1 .. Len(list) : list[i] \in Names
  BY LenProperties, ElementOfSeq DEF VarInv, VariableTypeOK, Enumerates
<1>4. n \in Names
  BY <1>2, <1>3 DEF NextNames
<1>5. /\ listed' \in Seq(Names) /\ Len(listed') = Len(listed) + 1 /\ listed'[Len(listed) + 1] = n
      /\ \A i \in 1 .. Len(listed) : listed'[i] = listed[i]
      /\ listed' # <<>>
  BY <1>2, <1>3, <1>4, AppendProperties
<1>6. StoreTypeOK' /\ Enumerates(list, Stored)'
  BY <1>1, UnchangedStore DEF VarInv, VariableTypeOK, store
<1>7. VariableTypeOK'
  BY <1>1, <1>2, <1>4, <1>5, <1>6 DEF VarInv, VariableTypeOK
<1>8. program = "services" => Len(listed') <= CountLimit
  <2> SUFFICES ASSUME program = "services"
               PROVE  Len(listed) + 1 <= CountLimit
    BY <1>5
  <2>1. Len(listed) < CountLimit
    BY <1>1 DEF WalkGoesOn
  <2> QED BY <1>3, <2>1, LimitAssumption
<1>9. quiet => FirstAreListed'
  <2> SUFFICES ASSUME quiet
               PROVE  FirstAreListed'
    OBVIOUS
  <2>1. FirstAreListed
    BY <1>1 DEF VarInv, WalkKnown
  <2>2. Len(listed) + 1 \in 1 .. Len(list) /\ n = list[Len(listed) + 1]
    <3>1. CASE listed = <<>>
      <4>1. name = NoName /\ Len(listed) = 0
        BY <2>1, <3>1 DEF FirstAreListed
      <4>2. PICK i \in DOMAIN list \cap {1} : n = list[i]
        BY <1>2, <4>1 DEF NextNames
      <4> QED BY <1>3, <4>1, <4>2
    <3>2. CASE listed # <<>>
      <4>1. Len(listed) \in 1 .. Len(list) /\ name = list[Len(listed)]
        BY <1>3, <2>1, <3>2, EmptySeq DEF FirstAreListed
      <4>2. name # NoName
        BY <1>3, <4>1, NameAssumption
      <4>3. PICK j \in 1 .. Len(list) : j > 1 /\ list[j - 1] = name /\ n = list[j]
        BY <1>2, <1>3, <4>2 DEF NextNames
      <4>4. j - 1 \in 1 .. Len(list)
        BY <4>3
      <4>5. j - 1 = Len(listed)
        BY <4>1, <4>3, <4>4 DEF VarInv, Enumerates
      <4> QED BY <1>3, <4>3, <4>5
    <3> QED BY <3>1, <3>2
  <2>3. Len(listed') <= Len(list)
    BY <1>3, <1>5, <2>2
  <2>4. \A i \in 1 .. Len(listed') : listed'[i] = list[i]
    <3> TAKE i \in 1 .. Len(listed')
    <3>1. i \in 1 .. Len(listed) \/ i = Len(listed) + 1
      BY <1>3, <1>5
    <3> QED BY <1>5, <2>1, <2>2, <3>1 DEF FirstAreListed
  <2> QED BY <1>1, <1>2, <1>5, <2>2, <2>3, <2>4 DEF FirstAreListed
<1>10. WalkKnown' /\ ReadsKnown' /\ CreateIsOfVariables'
  BY <1>1, <1>8, <1>9 DEF WalkKnown, ReadsKnown, CreateIsOfVariables, WalkIsComplete
<1>11. StoreKnown'
  BY <1>1 DEF VarInv, StoreKnown, AfterCreation
<1> QED BY <1>6, <1>7, <1>10, <1>11 DEF VarInv

\* The end of the walk: at the limit, at the end, or before a long name.
LEMMA EndWalkKeeps == VarInv /\ EndWalk => VarInv'
<1> SUFFICES ASSUME VarInv, EndWalk
             PROVE  VarInv'
  OBVIOUS
<1>1. /\ program \in Clients /\ UNCHANGED program
      /\ pc = "walk" /\ pc' = "walked"
      /\ UNCHANGED <<list, attr, reads, name, listed, theirs, quiet, writes>>
      /\ ~WalkGoesOn \/ StopsWalk
  BY MeRuns DEF EndWalk, Go, At, store, locals, history
<1>2. /\ listed \in Seq(Names) /\ list \in Seq(Names) /\ Len(listed) \in Nat /\ Len(list) \in Nat
      /\ DOMAIN list = 1 .. Len(list) /\ \A i \in 1 .. Len(list) : list[i] \in Names
  BY LenProperties, ElementOfSeq DEF VarInv, VariableTypeOK, Enumerates
<1>3. StoreTypeOK' /\ Enumerates(list, Stored)'
  BY <1>1, UnchangedStore DEF VarInv, VariableTypeOK, store
<1>4. VariableTypeOK'
  BY <1>1, <1>3 DEF VarInv, VariableTypeOK
<1>5. FirstAreListed' <=> FirstAreListed
  BY <1>1 DEF FirstAreListed
<1>6. WalkIsComplete'
  <2> SUFFICES ASSUME quiet
               PROVE  /\ IsPrefix(listed, list)
                      /\ \/ listed = list
                         \/ list[Len(listed) + 1] \in LongNames
                         \/ program = "services" /\ Len(listed) = CountLimit
    BY <1>1 DEF WalkIsComplete
  <2>1. FirstAreListed
    BY <1>1 DEF VarInv, WalkKnown
  <2>2. IsPrefix(listed, list)
    <3> DEFINE l == Len(listed)
               a == SubSeq(listed, 1, l)
               b == SubSeq(list, 1, l)
    <3>1. l \in Nat /\ 1 \in Int /\ \A i \in 1 .. l : listed[i] \in Names /\ list[i] = listed[i]
      <4>1. \A i \in 1 .. l : listed[i] \in Names
        BY <1>2, ElementOfSeq
      <4> QED BY <1>2, <2>1, <4>1 DEF FirstAreListed
    <3> HIDE DEF l
    <3>2. /\ a \in Seq(Names) /\ Len(a) = (IF 1 <= l THEN l - 1 + 1 ELSE 0)
          /\ \A i \in 1 .. l - 1 + 1 : a[i] = listed[1 + i - 1]
      BY <3>1, SubSeqProperties
    <3>3. /\ b \in Seq(Names) /\ Len(b) = (IF 1 <= l THEN l - 1 + 1 ELSE 0)
          /\ \A i \in 1 .. l - 1 + 1 : b[i] = list[1 + i - 1]
      BY <3>1, SubSeqProperties
    <3> HIDE DEF a, b
    <3>4. Len(a) = Len(b) /\ \A i \in 1 .. Len(a) : a[i] = b[i]
      BY <3>1, <3>2, <3>3
    <3>5. a = b
      BY <3>2, <3>3, <3>4, SeqEqual
    <3> QED BY <2>1, <3>5 DEF FirstAreListed, IsPrefix, a, b, l
  <2>3. CASE Len(listed) = Len(list)
    <3>1. listed = list
      BY <1>2, <2>1, <2>3, SeqEqual DEF FirstAreListed
    <3> QED BY <2>2, <3>1
  <2>4. CASE Len(listed) # Len(list) /\ ~WalkGoesOn
    <3>1. program = "services" /\ ~(Len(listed) < CountLimit) /\ Len(listed) <= CountLimit
      BY <1>1, <2>4 DEF VarInv, WalkKnown, WalkGoesOn, Clients
    <3>2. Len(listed) = CountLimit
      BY <1>2, <3>1, LimitAssumption
    <3> QED BY <2>2, <3>1, <3>2
  <2>5. CASE Len(listed) # Len(list) /\ StopsWalk
    <3>1. Len(listed) + 1 \in 1 .. Len(list)
      <4>1. Len(listed) <= Len(list)
        BY <2>1 DEF FirstAreListed
      <4> QED BY <1>2, <2>5, <4>1
    <3>2. list[Len(listed) + 1] \in NextNames(name)
      <4>1. CASE listed = <<>>
        <5>1. name = NoName /\ Len(listed) = 0
          BY <2>1, <4>1 DEF FirstAreListed
        <5> QED BY <1>2, <3>1, <5>1 DEF NextNames
      <4>2. CASE listed # <<>>
        <5>1. Len(listed) \in 1 .. Len(list) /\ name = list[Len(listed)]
          BY <1>2, <2>1, <4>2, EmptySeq DEF FirstAreListed
        <5>2. name # NoName
          BY <1>2, <5>1, NameAssumption
        <5>3. PICK j \in DOMAIN list : j = Len(listed) + 1
          BY <1>2, <3>1
        <5>4. j > 1 /\ list[j - 1] = name
          BY <1>2, <5>1, <5>3
        <5> QED BY <5>2, <5>3, <5>4 DEF NextNames
      <4> QED BY <4>1, <4>2
    <3> QED BY <2>2, <2>5, <3>2 DEF StopsWalk
  <2> QED BY <1>1, <2>3, <2>4, <2>5
<1>7. WalkKnown' /\ ReadsKnown' /\ CreateIsOfVariables'
  BY <1>1, <1>5, <1>6 DEF VarInv, WalkKnown, ReadsKnown, CreateIsOfVariables
<1>8. StoreKnown'
  BY <1>1 DEF VarInv, StoreKnown, AfterCreation
<1> QED BY <1>3, <1>4, <1>7, <1>8 DEF VarInv

\* The steps of "variables" around its TestVar that leave the store alone,
\* and the counts that are shown before.
LEMMA ShowingKeeps ==
    ASSUME VarInv, ReportWalk \/ ReadBack \/ VerifyDeletion
    PROVE  VarInv'
<1>1. /\ program \in Clients /\ UNCHANGED program
      /\ UNCHANGED <<list, attr, reads, name, listed, theirs, quiet, writes>>
      /\ \/ pc = "walked" /\ pc' = IF program = "variables" THEN "create" ELSE "return"
         \/ pc = "readback" /\ pc' = "delete"
         \/ pc = "verify" /\ pc' = "return"
  BY MeRuns DEF ReportWalk, ReadBack, VerifyDeletion, Go, At, store, locals, history
<1>2. StoreTypeOK' /\ Enumerates(list, Stored)'
  BY <1>1, UnchangedStore DEF VarInv, VariableTypeOK, store
<1>3. VariableTypeOK'
  BY <1>1, <1>2 DEF VarInv, VariableTypeOK
<1>4. WalkKnown' /\ ReadsKnown' /\ CreateIsOfVariables'
  BY <1>1 DEF VarInv, WalkKnown, ReadsKnown, CreateIsOfVariables, WalkIsComplete
<1>5. StoreKnown'
  <2>1. CASE pc = "walked"
    <3>1. \A n \in Names : attr[n] = theirs[n]
      BY <1>1, <2>1 DEF VarInv, StoreKnown, AfterCreation
    <3> QED BY <1>1, <2>1, <3>1, TestVarAssumption DEF StoreKnown, TestVar
  <2>2. CASE pc = "readback" \/ pc = "verify"
    BY <1>1, <2>2 DEF VarInv, StoreKnown, AfterCreation
  <2> QED BY <1>1, <2>1, <2>2
<1> QED BY <1>2, <1>3, <1>4, <1>5 DEF VarInv

\* Creation: refused if TestVar is there with other attributes.
LEMMA CreateKeeps == VarInv /\ CreateTestVar => VarInv'
<1> SUFFICES ASSUME VarInv, CreateTestVar
             PROVE  VarInv'
  OBVIOUS
<1>1. /\ program \in Clients /\ UNCHANGED program /\ pc = "create"
      /\ UNCHANGED <<reads, name, listed, theirs, quiet, writes>>
      /\ \/ pc' = "readback" /\ SetVariable(TestVar, CustomAttributes)
         \/ pc' = "return" /\ UNCHANGED <<list, attr>>
  BY MeRuns DEF CreateTestVar, Go, At, locals, history
<1>2. TestVar \in Names /\ CustomAttributes \in Attributes
  BY TestVarAssumption DEF TestVar, CustomAttributes, Attributes
<1>3. StoreTypeOK' /\ Enumerates(list, Stored)'
  BY <1>1, <1>2, UnchangedStore, SetKeepsStore DEF VarInv, VariableTypeOK, store
<1>4. VariableTypeOK'
  BY <1>1, <1>3 DEF VarInv, VariableTypeOK
<1>5. WalkKnown' /\ ReadsKnown' /\ CreateIsOfVariables'
  BY <1>1 DEF VarInv, WalkKnown, ReadsKnown, CreateIsOfVariables, WalkIsComplete
<1>6. StoreKnown'
  <2>1. \A n \in Names : attr[n] = theirs[n]
    BY <1>1 DEF VarInv, StoreKnown, AfterCreation
  <2>2. CASE pc' = "return" /\ UNCHANGED <<list, attr>>
    BY <1>1, <1>2, <2>1, <2>2 DEF StoreKnown
  <2>3. CASE pc' = "readback" /\ SetVariable(TestVar, CustomAttributes)
    <3>1. attr \in [Names -> Attributes \cup {"absent"}]
      BY DEF VarInv, VariableTypeOK, StoreTypeOK
    <3>2. attr' = [attr EXCEPT ![TestVar] = "volatile"] /\ attr[TestVar] \in {"absent", "volatile"}
      BY <2>3 DEF SetVariable, CustomAttributes
    <3>3. \A n \in Names : attr'[n] = IF n = TestVar THEN "volatile" ELSE attr[n]
      BY <3>1, <3>2
    <3>4. program = "variables"
      BY <1>1 DEF VarInv, CreateIsOfVariables
    <3> QED BY <1>1, <1>2, <2>1, <2>3, <3>2, <3>3, <3>4 DEF StoreKnown, AfterCreation
  <2> QED BY <1>1, <2>2, <2>3
<1> QED BY <1>3, <1>4, <1>5, <1>6 DEF VarInv

\* Deletion: what was created by this run is gone again, unless it fails.
LEMMA DeleteTestVarKeeps == VarInv /\ DeleteTestVar => VarInv'
<1> SUFFICES ASSUME VarInv, DeleteTestVar
             PROVE  VarInv'
  OBVIOUS
<1>1. /\ program \in Clients /\ UNCHANGED program /\ pc = "delete" /\ pc' = "verify"
      /\ UNCHANGED <<reads, name, listed, theirs, quiet, writes>>
      /\ DeleteVariable(TestVar) \/ UNCHANGED <<list, attr>>
  BY MeRuns DEF DeleteTestVar, Go, At, locals, history
<1>2. TestVar \in Names
  BY TestVarAssumption DEF TestVar
<1>3. StoreTypeOK' /\ Enumerates(list, Stored)'
  BY <1>1, <1>2, UnchangedStore, DeleteKeepsStore DEF VarInv, VariableTypeOK, store
<1>4. VariableTypeOK'
  BY <1>1, <1>3 DEF VarInv, VariableTypeOK
<1>5. WalkKnown' /\ ReadsKnown' /\ CreateIsOfVariables'
  BY <1>1 DEF VarInv, WalkKnown, ReadsKnown, CreateIsOfVariables, WalkIsComplete
<1>6. StoreKnown'
  <2>1. /\ attr \in [Names -> Attributes \cup {"absent"}] /\ program = "variables"
        /\ attr' = [attr EXCEPT ![TestVar] = "absent"] \/ UNCHANGED attr
    BY <1>1 DEF VarInv, VariableTypeOK, StoreTypeOK, CreateIsOfVariables, DeleteVariable
  <2>2. \A n \in Names : n # TestVar => attr'[n] = attr[n] /\ attr[n] = theirs[n]
    BY <1>1, <1>2, <2>1 DEF VarInv, StoreKnown
  <2>3. attr'[TestVar] = "absent" \/ attr'[TestVar] = attr[TestVar]
    BY <1>2, <2>1
  <2>4. quiet => attr[TestVar] = "volatile" /\ theirs[TestVar] \in {"absent", "volatile"}
    BY <1>1 DEF VarInv, StoreKnown
  <2>5. quiet /\ attr'[TestVar] # theirs[TestVar] =>
          <<theirs[TestVar], attr'[TestVar]>> \in {<<"volatile", "absent">>, <<"absent", "volatile">>}
    BY <2>3, <2>4
  <2> QED BY <1>1, <2>1, <2>2, <2>5 DEF StoreKnown, AfterCreation
<1> QED BY <1>3, <1>4, <1>5, <1>6 DEF VarInv

\* The frame of the program is gone with it.
LEMMA VariablesReturnKeeps == VarInv /\ VariablesReturn => VarInv'
<1> SUFFICES ASSUME VarInv, VariablesReturn
             PROVE  VarInv'
  OBVIOUS
<1>1. /\ program' = "shell" /\ pc' = "shell" /\ ForgetStore
      /\ reads' = 0 /\ name' = NoName /\ listed' = <<>>
      /\ theirs' = attr' /\ quiet' = TRUE /\ writes' = 0
  BY DEF VariablesReturn, Leave
<1>2. StoreTypeOK' /\ Enumerates(list, Stored)'
  BY <1>1, ForgottenIsStore
<1>3. VariableTypeOK'
  <2>1. 0 \in 0 .. 5 /\ 0 \in 0 .. MaxWrites
    BY LimitAssumption
  <2> QED BY <1>1, <1>2, <2>1 DEF VariableTypeOK, StoreTypeOK
<1>4. WalkKnown' /\ ReadsKnown' /\ CreateIsOfVariables' /\ StoreKnown'
  BY <1>1 DEF WalkKnown, ReadsKnown, CreateIsOfVariables, WalkIsComplete, StoreKnown, Clients
<1> QED BY <1>2, <1>3, <1>4 DEF VarInv

\* Another component writes: its variable is as it made it.
LEMMA OtherWritesKeep == VarInv /\ OtherWrites => VarInv'
<1> SUFFICES ASSUME VarInv, OtherWrites
             PROVE  VarInv'
  OBVIOUS
<1>1. PICK m \in Names :
        /\ \/ \E a \in Attributes : SetVariable(m, a)
           \/ DeleteVariable(m)
        /\ theirs' = [theirs EXCEPT ![m] = attr'[m]]
  BY DEF OtherWrites
<1>2. /\ program \in Clients /\ UNCHANGED <<program, pc, reads, name, listed>>
      /\ quiet' = FALSE /\ writes < MaxWrites /\ writes' = writes + 1
  BY DEF OtherWrites, shell, locals
<1>3. StoreTypeOK' /\ Enumerates(list, Stored)'
  BY <1>1, SetKeepsStore, DeleteKeepsStore DEF VarInv, VariableTypeOK
<1>4. \A n \in Names : n # m => attr'[n] = attr[n] /\ theirs'[n] = theirs[n]
  BY <1>1 DEF VarInv, VariableTypeOK, StoreTypeOK, SetVariable, DeleteVariable
<1>5. theirs' \in [Names -> Attributes \cup {"absent"}] /\ theirs'[m] = attr'[m]
  BY <1>1, <1>3 DEF VarInv, VariableTypeOK, StoreTypeOK
<1>6. VariableTypeOK'
  <2>1. writes' \in 0 .. MaxWrites
    BY <1>2, LimitAssumption DEF VarInv, VariableTypeOK
  <2> QED BY <1>2, <1>3, <1>5, <2>1 DEF VarInv, VariableTypeOK
<1>7. WalkKnown' /\ ReadsKnown' /\ CreateIsOfVariables'
  BY <1>2 DEF VarInv, WalkKnown, ReadsKnown, CreateIsOfVariables, WalkIsComplete
<1>8. StoreKnown'
  BY <1>2, <1>4, <1>5 DEF VarInv, StoreKnown
<1> QED BY <1>3, <1>6, <1>7, <1>8 DEF VarInv

\* A power failure: what differs, differs in the same way or not at all.
LEMMA ResetKeeps == VarInv /\ Reset => VarInv'
<1> SUFFICES ASSUME VarInv, Reset
             PROVE  VarInv'
  OBVIOUS
<1>1. /\ program \in Clients /\ UNCHANGED program /\ pc # "return" /\ pc' = "return"
      /\ attr' = [n \in Names |-> Kept(attr[n])] /\ theirs' = [n \in Names |-> Kept(theirs[n])]
      /\ list' \in Orders({n \in Names : attr'[n] # "absent"})
      /\ UNCHANGED <<reads, name, listed, quiet, writes>>
  BY DEF Reset, locals
<1>2. /\ attr \in [Names -> Attributes \cup {"absent"}]
      /\ theirs \in [Names -> Attributes \cup {"absent"}]
  BY DEF VarInv, VariableTypeOK, StoreTypeOK
<1>3. /\ attr' \in [Names -> Attributes \cup {"absent"}]
      /\ theirs' \in [Names -> Attributes \cup {"absent"}]
  BY <1>1, <1>2 DEF Kept
<1>4. AnyStore
  BY <1>1, <1>3 DEF AnyStore
<1>5. StoreTypeOK' /\ Enumerates(list, Stored)'
  BY <1>4, AnyStoreIsStore
<1>6. VariableTypeOK'
  BY <1>1, <1>3, <1>5 DEF VarInv, VariableTypeOK
<1>7. WalkKnown' /\ ReadsKnown' /\ CreateIsOfVariables'
  BY <1>1 DEF VarInv, WalkKnown, ReadsKnown, CreateIsOfVariables, WalkIsComplete
<1>8. StoreKnown'
  <2>1. TestVar \in Names
    BY TestVarAssumption DEF TestVar
  <2>2. \A n \in Names : attr'[n] # theirs'[n] => attr[n] # theirs[n]
    BY <1>1
  <2>3. \A n \in Names : attr'[n] # theirs'[n] => n = TestVar /\ program = "variables"
    BY <1>1, <2>2 DEF VarInv, StoreKnown
  <2>4. quiet /\ attr'[TestVar] # theirs'[TestVar] => FALSE
    <3> SUFFICES ASSUME quiet, attr'[TestVar] # theirs'[TestVar]
                 PROVE  FALSE
      OBVIOUS
    <3>1. attr[TestVar] # theirs[TestVar] /\ pc \in {"readback", "delete", "verify"}
      BY <1>1, <2>1, <2>2 DEF VarInv, StoreKnown, AfterCreation
    <3>2. {attr[TestVar], theirs[TestVar]} = {"absent", "volatile"}
      BY <1>1, <3>1 DEF VarInv, StoreKnown
    <3> QED BY <1>1, <2>1, <3>2 DEF Kept
  <2> QED BY <1>1, <2>3, <2>4 DEF StoreKnown, AfterCreation
<1> QED BY <1>5, <1>6, <1>7, <1>8 DEF VarInv

\* All of the clients' steps, and those of others while they run.
LEMMA VariablesKeep == VarInv /\ VariablesNext => VarInv'
BY VariablesStartKeeps, ReadingKeeps, NextKeeps, EndWalkKeeps, ShowingKeeps, CreateKeeps,
   DeleteTestVarKeeps, VariablesReturnKeeps, OtherWritesKeep, ResetKeeps
DEF VariablesNext, VariablesApplication

\* When another program runs, the clients have no frame to be disturbed.
LEMMA ElsewhereKeepsVariables ==
    ASSUME VarInv, UNCHANGED variablesFrame, program \notin Clients, program' \notin Clients,
           pc' # "walked"
    PROVE  VarInv'
<1>1. UNCHANGED <<list, attr, reads, name, listed, theirs, quiet, writes>>
  BY DEF variablesFrame, store, locals, history
<1>2. StoreTypeOK' /\ Enumerates(list, Stored)'
  BY <1>1, UnchangedStore DEF VarInv, VariableTypeOK, store
<1>3. VariableTypeOK'
  BY <1>1, <1>2 DEF VarInv, VariableTypeOK
<1>4. WalkKnown' /\ ReadsKnown' /\ CreateIsOfVariables' /\ StoreKnown'
  BY <1>1 DEF VarInv, WalkKnown, ReadsKnown, CreateIsOfVariables, WalkIsComplete, StoreKnown, Clients
<1> QED BY <1>2, <1>3, <1>4 DEF VarInv

--------------------------------------------------------------------------------
(* The partition tables.                                                   *)

\* The labels at which a device is described.
OfDevice == {"buffer", "lba0", "gptbuffer", "lba1", "dump", "dumpread", "limit"}

\* The media with the signature of an MBR.
Signed == GptMedia \cup {"mbr"}

\* What is known of the current device, its two sectors, and the medium that
\* they are of, unless another reader made the driver look in between.
DisksKnown ==
    /\ program # "block" => count = 0
    /\ program = "block" =>
         /\ pc = "device" => 1 <= index /\ count < ShownDevices
         /\ pc \in OfDevice => index \in Disks
         /\ pc \in {"buffer", "lba0"} =>
              lba0 = "zeros" /\ lba1 = "zeros" /\ verdict = "nothing"
         /\ pc \in {"gptbuffer", "lba1"} =>
              /\ lba0 \in Signed /\ lba1 = "zeros" /\ verdict = "nothing"
              /\ ~noticed => seen[index] = lba0

DiskInv == BlockTypeOK /\ DisksKnown /\ VerdictIsOfOneMedium

\* The program starts, with any devices.
LEMMA LocateKeeps == DiskInv /\ LocateDevices => DiskInv'
<1> SUFFICES ASSUME DiskInv, LocateDevices
             PROVE  DiskInv'
  OBVIOUS
<1>1. /\ program = "shell" /\ program' = "block" /\ pc' \in {"device", "return"}
      /\ kind' \in [Disks -> {"fixed", "removable", "logical"}]
      /\ inserted' \in [Disks -> Media \cup {NoMedium}] /\ seen' = inserted'
      /\ index' = 1
      /\ UNCHANGED <<swaps, noticed, count, lba0, lba1, verdict>>
  BY DEF LocateDevices, Enter, buffers
<1>2. count = 0 /\ 1 \in 0 .. Devices + 1 /\ 0 < ShownDevices
  BY <1>1, DeviceAssumption DEF DiskInv, DisksKnown
<1>3. BlockTypeOK'
  BY <1>1, <1>2 DEF DiskInv, BlockTypeOK
<1>4. DisksKnown'
  BY <1>1, <1>2 DEF DisksKnown, OfDevice
<1>5. VerdictIsOfOneMedium'
  BY <1>1 DEF DiskInv, VerdictIsOfOneMedium, TableOf
<1> QED BY <1>3, <1>4, <1>5 DEF DiskInv

\* The steps that touch neither the drives nor the sectors.
LEMMA SkippingKeeps ==
    ASSUME DiskInv,
           \/ SkipDevice \/ AllocateBuffer \/ AllocateGptBuffer \/ AllocateDump
           \/ NextDevice \/ EndOfDevices \/ FreeHandles
    PROVE  DiskInv'
<1>1. /\ program = "block" /\ program' = "block"
      /\ UNCHANGED <<kind, inserted, seen, swaps, noticed, count, lba0, lba1, verdict>>
      /\ \/ UNCHANGED index /\ pc' \in {"lba0", "dump", "lba1", "dumpread", "limit", "free", "return"}
         \/ pc = "device" /\ index <= Devices /\ index' = index + 1 /\ pc' = "device"
         \/ pc = "limit" /\ index' = index + 1
            /\ pc' = IF count >= ShownDevices THEN "free" ELSE "device"
      /\ pc' = "lba0" => pc = "buffer"
      /\ pc' = "lba1" => pc = "gptbuffer"
      /\ pc' \in OfDevice => pc \in OfDevice
  BY DEF SkipDevice, AllocateBuffer, AllocateGptBuffer, AllocateDump, NextDevice, EndOfDevices,
         FreeHandles, LimitReached, Go, At, drives, devices, buffers, OfDevice
<1>2. index' \in 0 .. Devices + 1 /\ (pc' = "device" => 1 <= index' /\ count < ShownDevices)
  <2>1. /\ index \in 0 .. Devices + 1 /\ count \in 0 .. ShownDevices
        /\ Devices \in Nat /\ ShownDevices \in Nat
    BY DeviceAssumption DEF DiskInv, BlockTypeOK
  <2>2. CASE UNCHANGED index /\ pc' # "device"
    BY <2>1, <2>2
  <2>3. CASE pc = "device" /\ index <= Devices /\ index' = index + 1
    <3>1. count < ShownDevices
      BY <1>1, <2>3 DEF DiskInv, DisksKnown
    <3> QED BY <2>1, <2>3, <3>1
  <2>4. CASE pc = "limit" /\ index' = index + 1 /\ pc' = IF count >= ShownDevices THEN "free" ELSE "device"
    <3>1. index \in 1 .. Devices
      BY <1>1, <2>4 DEF DiskInv, DisksKnown, OfDevice, Disks
    <3>2. pc' = "device" => ~(count >= ShownDevices)
      BY <2>4
    <3> QED BY <2>1, <2>4, <3>1, <3>2
  <2> QED BY <1>1, <2>2, <2>3, <2>4
<1>3. BlockTypeOK'
  BY <1>1, <1>2 DEF DiskInv, BlockTypeOK
<1>4. pc' \in OfDevice => UNCHANGED index
  BY <1>1 DEF OfDevice
<1>5. DisksKnown'
  BY <1>1, <1>2, <1>4 DEF DiskInv, DisksKnown, OfDevice
<1>6. VerdictIsOfOneMedium'
  BY <1>1 DEF DiskInv, VerdictIsOfOneMedium, TableOf
<1> QED BY <1>3, <1>5, <1>6 DEF DiskInv

\* A device is shown, and nothing is known of its medium yet.
LEMMA ShowKeeps == DiskInv /\ ShowDevice => DiskInv'
<1> SUFFICES ASSUME DiskInv, ShowDevice
             PROVE  DiskInv'
  OBVIOUS
<1>1. /\ program = "block" /\ program' = "block" /\ pc = "device" /\ pc' \in {"limit", "buffer"}
      /\ index <= Devices /\ count' = count + 1
      /\ lba0' = "zeros" /\ lba1' = "zeros" /\ verdict' = "nothing" /\ noticed' = FALSE
      /\ UNCHANGED <<kind, inserted, seen, swaps, index>>
  BY DEF ShowDevice, Go, At, devices
<1>2. count' \in 0 .. ShownDevices /\ index \in Disks
  <2>1. 1 <= index /\ count < ShownDevices
    BY <1>1 DEF DiskInv, DisksKnown
  <2>2. index \in 0 .. Devices + 1 /\ count \in 0 .. ShownDevices
    BY DEF DiskInv, BlockTypeOK
  <2> QED BY <1>1, <2>1, <2>2, DeviceAssumption DEF Disks
<1>3. BlockTypeOK'
  BY <1>1, <1>2 DEF DiskInv, BlockTypeOK
<1>4. DisksKnown'
  BY <1>1, <1>2 DEF DisksKnown
<1>5. VerdictIsOfOneMedium'
  BY <1>1 DEF VerdictIsOfOneMedium
<1> QED BY <1>3, <1>4, <1>5 DEF DiskInv

\* LBA 0 is read: its table is reported now, or after LBA 1.
LEMMA ReadLba0Keeps == DiskInv /\ ReadLba0 => DiskInv'
<1> SUFFICES ASSUME DiskInv, ReadLba0
             PROVE  DiskInv'
  OBVIOUS
<1>1. /\ program = "block" /\ program' = "block" /\ pc = "lba0"
      /\ UNCHANGED <<kind, inserted, swaps, noticed, index, count, lba1>>
      /\ pc' \in {"gptbuffer", "dump"}
  BY DEF ReadLba0, ReadFails, At, Go, devices
<1>2. /\ index \in Disks /\ lba0 = "zeros" /\ lba1 = "zeros" /\ verdict = "nothing"
      /\ inserted \in [Disks -> Media \cup {NoMedium}] /\ seen \in [Disks -> Media \cup {NoMedium}]
  BY <1>1 DEF DiskInv, DisksKnown, BlockTypeOK, OfDevice
<1>3. \/ /\ UNCHANGED seen /\ seen[index] \in Media /\ lba0' = seen[index]
         /\ \/ pc' = "gptbuffer" /\ lba0' \in Signed /\ UNCHANGED verdict
            \/ pc' = "dump" /\ lba0' \notin Signed /\ verdict' = "no signature"
      \/ /\ seen' \in [Disks -> Media \cup {NoMedium}] /\ pc' = "dump"
         /\ verdict' = "nothing" /\ UNCHANGED lba0
  <2>1. CASE Readable
    BY <1>2, <2>1 DEF ReadLba0, Readable, CheckMbr, Signed, Go, At, devices, ReadFails, VerdictOfFailure, NoMedium
  <2>2. CASE ~Readable
    BY <1>2, <2>2 DEF ReadLba0, Readable, ReadFails, Go, At, VerdictOfFailure
  <2> QED BY <2>1, <2>2
<1>4. BlockTypeOK'
  BY <1>1, <1>2, <1>3 DEF DiskInv, BlockTypeOK
<1>5. DisksKnown'
  BY <1>1, <1>2, <1>3 DEF DisksKnown, OfDevice
<1>6. VerdictIsOfOneMedium'
  BY <1>1, <1>2, <1>3 DEF VerdictIsOfOneMedium, TableOf, Media, GptMedia, Signed
<1> QED BY <1>4, <1>5, <1>6 DEF DiskInv

\* LBA 1 is read, of the same medium unless the driver was made to look.
LEMMA ReadLba1Keeps == DiskInv /\ ReadLba1 => DiskInv'
<1> SUFFICES ASSUME DiskInv, ReadLba1
             PROVE  DiskInv'
  OBVIOUS
<1>1. /\ program = "block" /\ program' = "block" /\ pc = "lba1" /\ pc' = "dump"
      /\ UNCHANGED <<kind, inserted, swaps, noticed, index, count, lba0>>
  BY DEF ReadLba1, ReadFails, At, Go, devices
<1>2. /\ index \in Disks /\ lba0 \in Signed /\ lba1 = "zeros"
      /\ ~noticed => seen[index] = lba0
      /\ inserted \in [Disks -> Media \cup {NoMedium}] /\ seen \in [Disks -> Media \cup {NoMedium}]
  BY <1>1 DEF DiskInv, DisksKnown, BlockTypeOK, OfDevice
<1>3. \/ /\ UNCHANGED seen /\ seen[index] \in Media /\ lba1' = seen[index]
         /\ verdict' = IF lba1' \in GptMedia THEN "GPT" ELSE "MBR"
      \/ /\ seen' \in [Disks -> Media \cup {NoMedium}]
         /\ verdict' = "MBR" /\ UNCHANGED lba1
  <2>1. CASE Readable
    BY <1>2, <2>1 DEF ReadLba1, Readable, CheckGpt, devices, ReadFails, VerdictOfRead, NoMedium
  <2>2. CASE ~Readable
    BY <1>2, <2>2 DEF ReadLba1, Readable, ReadFails, VerdictOfRead
  <2> QED BY <2>1, <2>2
<1>4. BlockTypeOK'
  BY <1>1, <1>2, <1>3 DEF DiskInv, BlockTypeOK
<1>5. DisksKnown'
  BY <1>1, <1>2, <1>3 DEF DisksKnown, OfDevice
<1>6. VerdictIsOfOneMedium'
  BY <1>1, <1>2, <1>3 DEF VerdictIsOfOneMedium, TableOf, Media, GptMedia, Signed
<1> QED BY <1>4, <1>5, <1>6 DEF DiskInv

\* The dump changes nothing but what the driver knows.
LEMMA DumpKeeps == DiskInv /\ DumpBlockData => DiskInv'
<1> SUFFICES ASSUME DiskInv, DumpBlockData
             PROVE  DiskInv'
  OBVIOUS
<1>1. /\ program = "block" /\ program' = "block" /\ pc = "dumpread" /\ pc' = "limit"
      /\ UNCHANGED <<kind, inserted, swaps, noticed, index, count, lba0, lba1, verdict>>
      /\ seen' \in {seen, [seen EXCEPT ![index] = inserted[index]]}
  BY DEF DumpBlockData, ReadFails, Go, At, devices, buffers
<1>2. index \in Disks /\ seen' \in [Disks -> Media \cup {NoMedium}]
  BY <1>1 DEF DiskInv, DisksKnown, BlockTypeOK, OfDevice
<1>3. BlockTypeOK'
  BY <1>1, <1>2 DEF DiskInv, BlockTypeOK
<1>4. DisksKnown' /\ VerdictIsOfOneMedium'
  BY <1>1, <1>2 DEF DiskInv, DisksKnown, VerdictIsOfOneMedium, TableOf
<1> QED BY <1>3, <1>4 DEF DiskInv

\* The return.
LEMMA BlockReturnKeeps == DiskInv /\ BlockReturn => DiskInv'
<1> SUFFICES ASSUME DiskInv, BlockReturn
             PROVE  DiskInv'
  OBVIOUS
<1>1. /\ program' = "shell"
      /\ kind' = [d \in Disks |-> "fixed"]
      /\ inserted' = [d \in Disks |-> NoMedium] /\ seen' = [d \in Disks |-> NoMedium]
      /\ swaps' = 0 /\ noticed' = FALSE /\ index' = 0 /\ count' = 0
      /\ lba0' = "zeros" /\ lba1' = "zeros" /\ verdict' = "nothing"
  BY DEF BlockReturn, Leave
<1>2. 0 \in 0 .. MaxSwaps /\ 0 \in 0 .. Devices + 1 /\ 0 \in 0 .. ShownDevices
  BY DeviceAssumption, SwapAssumption
<1>3. BlockTypeOK'
  BY <1>1, <1>2 DEF BlockTypeOK
<1>4. DisksKnown' /\ VerdictIsOfOneMedium'
  BY <1>1 DEF DisksKnown, VerdictIsOfOneMedium
<1> QED BY <1>3, <1>4 DEF DiskInv

\* The user changes a medium; another reader makes the driver look.
LEMMA MediaKeep == DiskInv /\ (SwapMedium \/ OtherRead) => DiskInv'
<1> SUFFICES ASSUME DiskInv, SwapMedium \/ OtherRead
             PROVE  DiskInv'
  OBVIOUS
<1>1. CASE SwapMedium
  <2>1. /\ UNCHANGED <<program, pc, kind, seen, noticed, index, count, lba0, lba1, verdict>>
        /\ swaps < MaxSwaps /\ swaps' = swaps + 1
        /\ \E d \in Disks, m \in Media \cup {NoMedium} : inserted' = [inserted EXCEPT ![d] = m]
    BY <1>1 DEF SwapMedium, shell, buffers
  <2>2. swaps' \in 0 .. MaxSwaps /\ inserted' \in [Disks -> Media \cup {NoMedium}]
    <3>1. swaps' \in 0 .. MaxSwaps
      <4>1. swaps \in 0 .. MaxSwaps
        BY DEF DiskInv, BlockTypeOK
      <4> QED BY <2>1, <4>1, SwapAssumption
    <3>2. inserted' \in [Disks -> Media \cup {NoMedium}]
      BY <2>1 DEF DiskInv, BlockTypeOK
    <3> QED BY <3>1, <3>2
  <2>3. BlockTypeOK'
    BY <2>1, <2>2 DEF DiskInv, BlockTypeOK
  <2>4. DisksKnown' /\ VerdictIsOfOneMedium'
    BY <2>1 DEF DiskInv, DisksKnown, VerdictIsOfOneMedium, TableOf
  <2> QED BY <2>3, <2>4 DEF DiskInv
<1>2. CASE OtherRead
  <2>1. PICK d \in Disks :
          /\ seen' = [seen EXCEPT ![d] = inserted[d]]
          /\ noticed' = (noticed \/ (d = index /\ pc \in {"gptbuffer", "lba1"}))
    BY <1>2 DEF OtherRead
  <2>2. UNCHANGED <<program, pc, kind, inserted, swaps, index, count, lba0, lba1, verdict>>
    BY <1>2 DEF OtherRead, shell, buffers
  <2>3. seen' \in [Disks -> Media \cup {NoMedium}] /\ noticed' \in BOOLEAN
    BY <2>1 DEF DiskInv, BlockTypeOK
  <2>4. BlockTypeOK'
    BY <2>2, <2>3 DEF DiskInv, BlockTypeOK
  <2>5. DisksKnown'
    <3>1. CASE program = "block" /\ pc \in {"gptbuffer", "lba1"} /\ d # index
      <4>1. index \in Disks /\ seen \in [Disks -> Media \cup {NoMedium}]
        BY <3>1 DEF DiskInv, DisksKnown, BlockTypeOK, OfDevice
      <4>2. seen'[index] = seen[index]
        BY <2>1, <3>1, <4>1
      <4> QED BY <2>1, <2>2, <3>1, <4>1, <4>2 DEF DiskInv, DisksKnown, OfDevice
    <3>2. CASE ~(program = "block" /\ pc \in {"gptbuffer", "lba1"} /\ d # index)
      BY <2>1, <2>2, <3>2 DEF DiskInv, DisksKnown, OfDevice
    <3> QED BY <3>1, <3>2
  <2>6. VerdictIsOfOneMedium'
    BY <2>1, <2>2 DEF DiskInv, VerdictIsOfOneMedium, TableOf
  <2> QED BY <2>4, <2>5, <2>6 DEF DiskInv
<1> QED BY <1>1, <1>2

\* All steps of the program, and of those who change media and read meanwhile.
LEMMA DisksKeep == DiskInv /\ BlockNext => DiskInv'
BY LocateKeeps, SkippingKeeps, ShowKeeps, ReadLba0Keeps, ReadLba1Keeps, DumpKeeps,
   BlockReturnKeeps, MediaKeep
DEF BlockNext, BlockApplication

\* When another program runs nothing of it changes.
LEMMA ElsewhereKeepsDisks ==
    ASSUME DiskInv, UNCHANGED blockFrame, program # "block", program' # "block"
    PROVE  DiskInv'
<1>1. UNCHANGED <<kind, inserted, seen, swaps, noticed, index, count, lba0, lba1, verdict>>
  BY DEF blockFrame, drives, devices, buffers
<1>2. BlockTypeOK'
  BY <1>1 DEF DiskInv, BlockTypeOK
<1>3. DisksKnown' /\ VerdictIsOfOneMedium'
  BY <1>1 DEF DiskInv, DisksKnown, VerdictIsOfOneMedium, TableOf
<1> QED BY <1>2, <1>3 DEF DiskInv

--------------------------------------------------------------------------------
(* Graphics.                                                               *)

\* The region that is captured, and the place it is copied to.
Source == Rectangle("source", 100, 100, 200, 100)
Copy == Rectangle("copy", 400, 200, 200, 100)
Whole == Rectangle("screen", 0, 0, Width, Height)
Rectangles == {Box(i) : i \in 0 .. 7} \cup {Whole, Bar, Source, Copy}

\* Between two runs nothing is asked; while the program draws, the screen has
\* one of the resolutions; what was asked is known, and Blt's test was applied
\* to the resolution that the screen still has.
GopInv ==
    /\ box \in 0 .. 8
    /\ program # "gop" => asked = {} /\ box = 0
    /\ program = "gop" /\ pc # "return" => screen \in Resolutions
    /\ asked # {} \/ box # 0 => screen \in Resolutions
    /\ asked \subseteq Rectangles
    /\ refused = {r \in asked : ~Fits(r)}

--------------------------------------------------------------------------------
(* Geometry.                                                               *)

\* The numbers of a resolution: four columns and three rows fit, each larger
\* than the margins, and everything is below half of Word.
LEMMA Divisions ==
    ASSUME screen \in Resolutions
    PROVE  /\ Word \in Nat /\ 1024 < Word
           /\ Width \in Nat /\ Height \in Nat
           /\ 84 <= Width /\ 63 <= Height /\ 2 * Width < Word /\ 2 * Height < Word
           /\ BoxWidth \in Nat /\ 21 <= BoxWidth /\ 4 * BoxWidth <= Width
           /\ BoxHeight \in Nat /\ 21 <= BoxHeight /\ 3 * BoxHeight <= Height
<1>1. Word \in Nat /\ 1024 < Word
  BY WordAssumption
<1>2. /\ Width \in Nat /\ Height \in Nat
      /\ 84 <= Width /\ 63 <= Height /\ Width < Word \div 2 /\ Height < Word \div 2
  BY ResolutionAssumption DEF Width, Height
<1>3. 2 * (Word \div 2) <= Word
  BY <1>1
<1>4. 2 * Width < Word /\ 2 * Height < Word
  <2>1. Word \div 2 \in Nat
    BY <1>1
  <2> QED BY <1>1, <1>2, <1>3, <2>1
<1>5. BoxWidth \in Nat /\ 21 <= BoxWidth /\ 4 * BoxWidth <= Width
  BY <1>2 DEF BoxWidth
<1>6. BoxHeight \in Nat /\ 21 <= BoxHeight /\ 3 * BoxHeight <= Height
  BY <1>2 DEF BoxHeight
<1> QED BY <1>1, <1>2, <1>4, <1>5, <1>6

\* Below Word the unsigned operations are those of the numbers.
LEMMA NoWrap ==
    ASSUME NEW a \in Nat, a < Word
    PROVE  a % Word = a
BY WordAssumption

\* The box in column c and row r, in numbers without overflow.
Placed(c, r) ==
    Rectangle("box", c * BoxWidth + 10, r * BoxHeight + BoxHeight + 10, BoxWidth - 20, BoxHeight - 20)

\* No step of the computation of a box overflows (NoWrap).
LEMMA BoxIsPlaced ==
    ASSUME screen \in Resolutions, NEW i \in 0 .. 7
    PROVE  Box(i) = Placed(i % 4, i \div 4)
<1>1. /\ i % 4 \in 0 .. 3 /\ i \div 4 \in 0 .. 1
  OBVIOUS
<1> DEFINE c == i % 4
           r == i \div 4
<1>2. c \in 0 .. 3 /\ r \in 0 .. 1
  BY <1>1
<1> HIDE DEF c, r
<1>3. c * BoxWidth \in Nat /\ c * BoxWidth <= 3 * BoxWidth
  BY <1>2, Divisions, c = 0 \/ c = 1 \/ c = 2 \/ c = 3
<1>4. r * BoxHeight \in Nat /\ r * BoxHeight <= BoxHeight
  BY <1>2, Divisions, r = 0 \/ r = 1
<1>5. Times(c, BoxWidth) = c * BoxWidth /\ Times(r, BoxHeight) = r * BoxHeight
  BY <1>3, <1>4, Divisions, NoWrap DEF Times
<1>6. Plus(c * BoxWidth, 10) = c * BoxWidth + 10
  BY <1>3, Divisions, NoWrap DEF Plus
<1>7. Plus(r * BoxHeight, BoxHeight) = r * BoxHeight + BoxHeight
  BY <1>4, Divisions, NoWrap DEF Plus
<1>8. Plus(r * BoxHeight + BoxHeight, 10) = r * BoxHeight + BoxHeight + 10
  BY <1>4, Divisions, NoWrap DEF Plus
<1>9. Minus(BoxWidth, 20) = BoxWidth - 20 /\ Minus(BoxHeight, 20) = BoxHeight - 20
  BY Divisions, NoWrap DEF Minus
<1> QED BY <1>5, <1>6, <1>7, <1>8, <1>9 DEF Box, BoxX, BoxY, Placed, Rectangle, c, r

\* Blt lets every box pass.
LEMMA BoxFits ==
    ASSUME screen \in Resolutions, NEW i \in 0 .. 7
    PROVE  Fits(Box(i)) /\ OnScreen(Box(i))
<1> DEFINE c == i % 4
           r == i \div 4
<1>1. c \in 0 .. 3 /\ r \in 0 .. 1
  OBVIOUS
<1> HIDE DEF c, r
<1>2. Box(i) = Placed(c, r)
  BY BoxIsPlaced DEF c, r
<1>3. c * BoxWidth \in Nat /\ c * BoxWidth <= 3 * BoxWidth
  BY <1>1, Divisions, c = 0 \/ c = 1 \/ c = 2 \/ c = 3
<1>4. r * BoxHeight \in Nat /\ r * BoxHeight <= BoxHeight
  BY <1>1, Divisions, r = 0 \/ r = 1
<1> DEFINE right == (c * BoxWidth + 10) + (BoxWidth - 20)
           bottom == (r * BoxHeight + BoxHeight + 10) + (BoxHeight - 20)
<1>5. right \in Nat /\ right <= Width /\ bottom \in Nat /\ bottom <= Height
  BY <1>3, <1>4, Divisions
<1>6. BoxWidth - 20 \in Nat \ {0} /\ BoxHeight - 20 \in Nat \ {0}
  BY Divisions
<1>7. right % Word = right /\ bottom % Word = bottom
  BY <1>5, Divisions, NoWrap
<1> DEFINE b == Placed(c, r)
<1>8. /\ b.x = c * BoxWidth + 10 /\ b.w = BoxWidth - 20
      /\ b.y = r * BoxHeight + BoxHeight + 10 /\ b.h = BoxHeight - 20
  BY DEF Placed, Rectangle
<1>9. b.x + b.w = right /\ b.y + b.h = bottom
  BY <1>8
<1> HIDE DEF right, bottom, b
<1>10. Fits(b)
  BY <1>5, <1>6, <1>7, <1>8, <1>9 DEF Fits, Plus
<1>11. OnScreen(b)
  <2>1. 0 < BoxWidth - 20 /\ 0 < BoxHeight - 20
    BY Divisions
  <2>2. 0 < b.w /\ 0 < b.h
    BY <1>8, <2>1
  <2> QED BY <1>5, <1>9, <2>2 DEF OnScreen
<1> QED BY <1>2, <1>10, <1>11 DEF b

\* Of the other rectangles, Blt lets only those pass that are on the screen.
LEMMA OthersFit ==
    ASSUME screen \in Resolutions, NEW r \in {Whole, Bar, Source, Copy}
    PROVE  /\ Fits(r) => OnScreen(r)
           /\ ~Fits(r) => r.what \in {"bar", "source", "copy"}
<1>1. CASE r = Whole
  <2>1. Plus(0, Width) = Width /\ Plus(0, Height) = Height
    BY Divisions, NoWrap DEF Plus
  <2> QED BY <1>1, <2>1, Divisions DEF Whole, Rectangle, Fits, OnScreen
<1>2. CASE r = Bar
  <2>1. Plus(0, Width) = Width /\ Plus(50, 20) = 70
    BY Divisions, NoWrap DEF Plus
  <2> QED BY <1>2, <2>1, Divisions DEF Bar, Rectangle, Fits, OnScreen
<1>3. CASE r = Source
  <2>1. Plus(100, 200) = 300 /\ Plus(100, 100) = 200
    BY Divisions, NoWrap DEF Plus
  <2> QED BY <1>3, <2>1, Divisions DEF Source, Rectangle, Fits, OnScreen
<1>4. CASE r = Copy
  <2>1. Plus(400, 200) = 600 /\ Plus(200, 100) = 300
    BY Divisions, NoWrap DEF Plus
  <2> QED BY <1>4, <2>1, Divisions DEF Copy, Rectangle, Fits, OnScreen
<1> QED BY <1>1, <1>2, <1>3, <1>4

\* Boxes of different columns, or of different rows, have no common pixel.
LEMMA BoxesAreApart ==
    ASSUME screen \in Resolutions, NEW i \in 0 .. 7, NEW j \in 0 .. 7, i # j
    PROVE  Apart(Box(i), Box(j))
<1> DEFINE c == i % 4
           r == i \div 4
           d == j % 4
           s == j \div 4
<1>1. /\ c \in 0 .. 3 /\ r \in 0 .. 1 /\ d \in 0 .. 3 /\ s \in 0 .. 1
      /\ c # d \/ r # s
  OBVIOUS
<1> HIDE DEF c, r, d, s
<1>2. Box(i) = Placed(c, r) /\ Box(j) = Placed(d, s)
  BY BoxIsPlaced DEF c, r, d, s
<1> DEFINE ColumnStarts(k) == k * BoxWidth
           RowStarts(k) == k * BoxHeight
<1>3. ASSUME NEW k \in 0 .. 3, NEW l \in 0 .. 3, k < l
      PROVE  k * BoxWidth \in Nat /\ l * BoxWidth \in Nat /\ k * BoxWidth + BoxWidth <= l * BoxWidth
  <2>1. k = 0 \/ k = 1 \/ k = 2
    BY <1>3
  <2>2. l = 1 \/ l = 2 \/ l = 3
    BY <1>3
  <2> QED BY <1>3, <2>1, <2>2, Divisions
<1>4. ASSUME NEW k \in 0 .. 1, NEW l \in 0 .. 1, k < l
      PROVE  k * BoxHeight \in Nat /\ l * BoxHeight \in Nat /\ k * BoxHeight + BoxHeight <= l * BoxHeight
  BY <1>4, Divisions, k = 0, l = 1
<1>5. CASE c < d
  <2>1. c * BoxWidth \in Nat /\ d * BoxWidth \in Nat /\ c * BoxWidth + BoxWidth <= d * BoxWidth
    BY <1>1, <1>3, <1>5
  <2>2. (c * BoxWidth + 10) + (BoxWidth - 20) <= d * BoxWidth + 10
    <3>1. BoxWidth \in Nat
      BY Divisions
    <3> QED BY <2>1, <3>1
  <2> QED BY <1>2, <2>2 DEF Placed, Rectangle, Apart
<1>6. CASE d < c
  <2>1. d * BoxWidth \in Nat /\ c * BoxWidth \in Nat /\ d * BoxWidth + BoxWidth <= c * BoxWidth
    BY <1>1, <1>3, <1>6
  <2>2. (d * BoxWidth + 10) + (BoxWidth - 20) <= c * BoxWidth + 10
    <3>1. BoxWidth \in Nat
      BY Divisions
    <3> QED BY <2>1, <3>1
  <2> QED BY <1>2, <2>2 DEF Placed, Rectangle, Apart
<1>7. CASE r < s
  <2>1. (r * BoxHeight + BoxHeight + 10) + (BoxHeight - 20) <= s * BoxHeight + BoxHeight + 10
    BY <1>1, <1>4, <1>7, Divisions
  <2> QED BY <1>2, <2>1 DEF Placed, Rectangle, Apart
<1>8. CASE s < r
  <2>1. (s * BoxHeight + BoxHeight + 10) + (BoxHeight - 20) <= r * BoxHeight + BoxHeight + 10
    BY <1>1, <1>4, <1>8, Divisions
  <2> QED BY <1>2, <2>1 DEF Placed, Rectangle, Apart
<1> QED BY <1>1, <1>5, <1>6, <1>7, <1>8

\* From 180 lines on the first row of boxes starts below the bar.
LEMMA BarIsApart ==
    ASSUME screen \in Resolutions, Height >= 180, NEW i \in 0 .. 7
    PROVE  Apart(Box(i), Bar)
<1> DEFINE r == i \div 4
<1>1. r \in 0 .. 1 /\ i % 4 \in 0 .. 3
  OBVIOUS
<1> HIDE DEF r
<1>2. Box(i) = Placed(i % 4, r)
  BY BoxIsPlaced DEF r
<1>3. 60 <= BoxHeight
  BY Divisions DEF BoxHeight
<1>4. r * BoxHeight \in Nat
  BY <1>1, Divisions, r = 0 \/ r = 1
<1>5. 50 + 20 <= r * BoxHeight + BoxHeight + 10
  BY <1>3, <1>4, Divisions
<1> QED BY <1>2, <1>5 DEF Placed, Bar, Rectangle, Apart

--------------------------------------------------------------------------------
(* The invariant.                                                          *)

\* A call of Blt with one of the rectangles keeps the books on them.
LEMMA BltKeeps ==
    ASSUME GopInv, NEW r \in Rectangles, Blt(r), UNCHANGED screen
    PROVE  asked' \subseteq Rectangles' /\ refused' = {s \in asked' : ~Fits(s)'}
<1>1. Rectangles' = Rectangles /\ \A s : Fits(s)' = Fits(s)
  BY DEF Rectangles, Box, BoxX, BoxY, BoxWidth, BoxHeight, Whole, Bar, Source, Copy,
         Fits, Plus, Minus, Times, Width, Height
<1>2. asked' \subseteq Rectangles
  BY DEF GopInv, Blt
<1>3. refused' = {s \in asked' : ~Fits(s)}
  BY DEF GopInv, Blt
<1> QED BY <1>1, <1>2, <1>3

\* A step that calls nothing keeps them too.
LEMMA NoBltKeeps ==
    ASSUME GopInv, UNCHANGED <<screen, asked, refused>>
    PROVE  asked' \subseteq Rectangles' /\ refused' = {s \in asked' : ~Fits(s)'}
<1>1. Rectangles' = Rectangles /\ \A s : Fits(s)' = Fits(s)
  BY DEF Rectangles, Box, BoxX, BoxY, BoxWidth, BoxHeight, Whole, Bar, Source, Copy,
         Fits, Plus, Minus, Times, Width, Height
<1> QED BY <1>1 DEF GopInv

\* All steps of the program but LocateGop and the return leave the resolution
\* alone, and keep the invariant when they keep the books.
LEMMA InsideKeeps ==
    ASSUME GopInv, program = "gop", pc # "return", program' = "gop",
           UNCHANGED screen, box' \in 0 .. 8,
           asked' \subseteq Rectangles' /\ refused' = {s \in asked' : ~Fits(s)'}
    PROVE  GopInv'
<1>1. screen' \in Resolutions
  BY DEF GopInv
<1> QED BY <1>1 DEF GopInv

\* Before the first program runs.
LEMMA GopInitially == NothingRuns /\ GopInit => GopInv
BY DEF NothingRuns, GopInit, GopInv, Rectangles

\* Each action of the program keeps the invariant.
LEMMA GopStep == GopInv /\ [GopNext]_<<shell, gopFrame>> => GopInv'
<1> SUFFICES ASSUME GopInv, [GopNext]_<<shell, gopFrame>>
             PROVE  GopInv'
  OBVIOUS
<1>0. box \in 0 .. 8
  BY DEF GopInv
<1>1. CASE LocateGop
  <2>1. asked = {} /\ refused = {} /\ box = 0
    BY <1>1 DEF LocateGop, Enter, GopInv
  <2>2. asked' = {} /\ refused' = {} /\ box' = 0
    BY <1>1, <2>1 DEF LocateGop
  <2>3. program' = "gop" /\ (pc' # "return" => screen' \in Resolutions)
    BY <1>1 DEF LocateGop, Enter
  <2> QED BY <2>2, <2>3 DEF GopInv
<1>2. CASE QueryMode \/ ShowMode \/ ModesEnd \/ AllocateRegion
  <2>1. /\ program = "gop" /\ pc # "return" /\ program' = "gop"
        /\ UNCHANGED drawing
    BY <1>2 DEF QueryMode, ShowMode, ModesEnd, AllocateRegion, Go, At
  <2> QED BY <1>0, <2>1, NoBltKeeps, InsideKeeps DEF drawing
<1>3. CASE Key
  <2>1. CASE pc = "key" \/ pc = "lastkey"
    <3>1. program = "gop" /\ program' = "gop" /\ pc # "return" /\ UNCHANGED drawing
      BY <1>3, <2>1 DEF Key, Go, At
    <3> QED BY <1>0, <3>1, NoBltKeeps, InsideKeeps DEF drawing
  <2> QED BY <1>3, <2>1 DEF Key, Go, At
<1>4. CASE Clear
  <2>1. /\ program = "gop" /\ pc # "return" /\ program' = "gop"
        /\ UNCHANGED <<screen, box>> /\ Blt(Whole)
    BY <1>4 DEF Clear, Go, At, Whole
  <2> QED BY <1>0, <2>1, BltKeeps, InsideKeeps DEF Rectangles
<1>5. CASE DrawBox
  <2>1. /\ program = "gop" /\ pc # "return" /\ program' = "gop"
        /\ UNCHANGED screen /\ Blt(Box(box))
    BY <1>5 DEF DrawBox, Go, At
  <2>2. box \in 0 .. 7 /\ box' \in 0 .. 8
    BY <1>0, <1>5 DEF DrawBox
  <2>3. Box(box) \in Rectangles
    BY <2>2 DEF Rectangles
  <2> QED BY <2>1, <2>2, <2>3, BltKeeps, InsideKeeps
<1>6. CASE DrawBar
  <2>1. /\ program = "gop" /\ pc # "return" /\ program' = "gop"
        /\ UNCHANGED <<screen, box>> /\ Blt(Bar)
    BY <1>6 DEF DrawBar, Go, At
  <2> QED BY <1>0, <2>1, BltKeeps, InsideKeeps DEF Rectangles
<1>7. CASE CaptureRegion
  <2>1. /\ program = "gop" /\ pc # "return" /\ program' = "gop"
        /\ UNCHANGED <<screen, box>> /\ Blt(Source)
    BY <1>7 DEF CaptureRegion, Go, At, Source
  <2> QED BY <1>0, <2>1, BltKeeps, InsideKeeps DEF Rectangles
<1>8. CASE CopyRegion
  <2>1. /\ program = "gop" /\ pc # "return" /\ program' = "gop"
        /\ UNCHANGED <<screen, box>> /\ Blt(Copy)
    BY <1>8 DEF CopyRegion, Go, At, Copy
  <2> QED BY <1>0, <2>1, BltKeeps, InsideKeeps DEF Rectangles
<1>9. CASE GopReturn
  <2>1. program' = "shell" /\ asked' = {} /\ refused' = {} /\ box' = 0
    BY <1>9 DEF GopReturn, Leave
  <2> QED BY <2>1 DEF GopInv
<1>10. CASE UNCHANGED <<shell, gopFrame>>
  <2>1. UNCHANGED <<program, pc, screen, box, asked, refused>>
    BY <1>10 DEF shell, gopFrame, drawing
  <2> QED BY <2>1, NoBltKeeps DEF GopInv
<1> QED BY <1>1, <1>2, <1>3, <1>4, <1>5, <1>6, <1>7, <1>8, <1>9, <1>10
        DEF GopNext, GopApplication

--------------------------------------------------------------------------------
(* The properties.                                                         *)

\* What Blt lets pass is on the screen, and no box is refused.
LEMMA GopInvDrawsOnScreen == GopInv => DrawnOnScreen
<1> SUFFICES ASSUME GopInv, NEW r \in asked
             PROVE  /\ r \notin refused => OnScreen(r)
                    /\ r \in refused => r.what \in {"bar", "source", "copy"}
  BY DEF DrawnOnScreen, GopInv
<1>1. screen \in Resolutions /\ r \in Rectangles /\ (r \in refused <=> ~Fits(r))
  BY DEF GopInv
<1>2. CASE \E i \in 0 .. 7 : r = Box(i)
  BY <1>1, <1>2, BoxFits
<1>3. CASE r \in {Whole, Bar, Source, Copy}
  BY <1>1, <1>3, OthersFit
<1> QED BY <1>1, <1>2, <1>3 DEF Rectangles

\* Boxes that were drawn cover neither each other nor, from 180 lines on, the bar.
LEMMA GopInvKeepsBoxesApart == GopInv => BoxesApart
<1> SUFFICES ASSUME GopInv
             PROVE  BoxesApart
  OBVIOUS
<1>1. ASSUME NEW i \in 0 .. box - 1, NEW j \in 0 .. box - 1, i # j
      PROVE  Apart(Box(i), Box(j))
  <2>1. box \in 0 .. 8
    BY DEF GopInv
  <2>2. box # 0 /\ i \in 0 .. 7 /\ j \in 0 .. 7
    BY <2>1
  <2>3. screen \in Resolutions
    BY <2>2 DEF GopInv
  <2> QED BY <1>1, <2>2, <2>3, BoxesAreApart
<1>2. ASSUME Height >= 180, NEW r \in asked, r.what = "box"
      PROVE  Apart(r, Bar)
  <2>1. screen \in Resolutions /\ r \in Rectangles
    BY DEF GopInv
  <2>2. r \notin {Whole, Bar, Source, Copy}
    BY <1>2 DEF Whole, Bar, Source, Copy, Rectangle
  <2>3. PICK i \in 0 .. 7 : r = Box(i)
    BY <2>1, <2>2 DEF Rectangles
  <2> QED BY <1>2, <2>1, <2>3, BarIsApart
<1> QED BY <1>1, <1>2 DEF BoxesApart

--------------------------------------------------------------------------------
(* The other programs.                                                     *)

\* The mode that is shown is one of those that there are.
ModesKnown == GopTypeOK /\ (program = "gop" /\ pc = "info" => mode < MaxMode)

\* What is used and given back is one of the demonstrations.
MemoryKnown ==
    MemoryTypeOK /\ (program = "memory" /\ pc = "use" => step < Len(Demonstrations))

\* Problem has a text from the parser's error to the end of the run.
CommandKnown ==
    CommandTypeOK /\ (problem = "text" => program = "sysinfo" /\ pc \in {"problem", "return"})

\* There are two walks, and an interface that is read is one of those there are.
InterfacesKnown ==
    /\ InterfacesTypeOK
    /\ program # "network" => walk = 1
    /\ program = "network" /\ pc # "return" => walk <= 2
    /\ program = "network" /\ pc = "info" => item < Interfaces

\* Programs that run before and after a step; only the clients of the store
\* come to the label "walked".
Runs(P) ==
    /\ program \in P \cup {"shell"} /\ program' \in P \cup {"shell"}
    /\ P # Clients /\ pc' = "walked" => pc = "walked"

\* The label at which the walk has ended is that of the clients alone.
LEMMA ClientsRun == VariablesNext => Runs(Clients)
<1>1. Me \in Clients
  BY MeRuns
<1>2. CASE VariablesStart
  BY <1>2 DEF VariablesStart, Enter, Runs
<1>3. CASE OtherWrites \/ Reset
  BY <1>3 DEF OtherWrites, Reset, Runs, shell
<1>4. CASE VariablesApplication
  <2>1. CASE ReadFixed \/ QueryOrder \/ ReadOrder \/ BeginWalk
    BY <1>1, <2>1 DEF ReadFixed, QueryOrder, ReadOrder, BeginWalk, Go, At, Runs
  <2>2. CASE NextVariable \/ EndWalk \/ ReportWalk
    BY <1>1, <2>2 DEF NextVariable, EndWalk, ReportWalk, Go, At, Runs
  <2>3. CASE CreateTestVar \/ ReadBack \/ DeleteTestVar \/ VerifyDeletion \/ VariablesReturn
    BY <1>1, <2>3 DEF CreateTestVar, ReadBack, DeleteTestVar, VerifyDeletion, VariablesReturn,
                      Go, At, Leave, Runs
  <2> QED BY <1>4, <2>1, <2>2, <2>3 DEF VariablesApplication
<1> QED BY <1>2, <1>3, <1>4 DEF VariablesNext

\* The partition tables, exchanged media and other readers.
LEMMA BlockRuns == BlockNext => Runs({"block"})
<1>1. CASE LocateDevices
  BY <1>1 DEF LocateDevices, Enter, Runs
<1>2. CASE SwapMedium \/ OtherRead
  BY <1>2 DEF SwapMedium, OtherRead, Runs, shell
<1>3. CASE BlockApplication
  <2>1. CASE SkipDevice \/ ShowDevice \/ AllocateBuffer \/ ReadLba0
    BY <2>1 DEF SkipDevice, ShowDevice, AllocateBuffer, ReadLba0, Go, At, Runs
  <2>2. CASE AllocateGptBuffer \/ ReadLba1 \/ AllocateDump \/ DumpBlockData
    BY <2>2 DEF AllocateGptBuffer, ReadLba1, AllocateDump, DumpBlockData, Go, At, Runs
  <2>3. CASE NextDevice \/ EndOfDevices \/ FreeHandles \/ BlockReturn
    BY <2>3 DEF NextDevice, EndOfDevices, FreeHandles, BlockReturn, Go, At, Leave, Runs
  <2> QED BY <1>3, <2>1, <2>2, <2>3 DEF BlockApplication
<1> QED BY <1>1, <1>2, <1>3 DEF BlockNext

\* The programs with no one beside them.
LEMMA GopRuns == GopNext => Runs({"gop"})
<1>1. CASE LocateGop \/ GopReturn
  BY <1>1 DEF LocateGop, GopReturn, Enter, Leave, At, Runs
<1>2. CASE QueryMode \/ ShowMode \/ ModesEnd \/ Key \/ Clear
  BY <1>2 DEF QueryMode, ShowMode, ModesEnd, Key, Clear, Go, At, Runs
<1>3. CASE DrawBox \/ DrawBar \/ AllocateRegion \/ CaptureRegion \/ CopyRegion
  BY <1>3 DEF DrawBox, DrawBar, AllocateRegion, CaptureRegion, CopyRegion, Go, At, Runs
<1> QED BY <1>1, <1>2, <1>3 DEF GopNext, GopApplication

\* As those before, for MemoryExample,
LEMMA MemoryRuns == MemoryNext => Runs({"memory"})
BY DEF MemoryNext, MemoryApplication, MemoryStart, AllocateNext, UseAndRelease, Finish,
       MemoryReturn, Enter, Go, At, Leave, Runs

\* for ShellCommand,
LEMMA CommandRuns == CommandNext => Runs({"sysinfo"})
BY DEF CommandNext, CommandApplication, ShellInitialize, ShellCommandLineParse, ReportProblem,
       GetFlags, PrintInfo, FreeVarList, CommandReturn, Enter, Go, At, Leave, Runs

\* and for the two walks over interfaces.
LEMMA InterfacesRun == InterfacesNext => Runs({"network"})
BY DEF InterfacesNext, InterfacesApplication, InterfacesStart, LocateHandles, PassInterface,
       AllocateInfo, GetInfo, EndOfHandles, NextWalk, InterfacesReturn, Enter, Go, At, Leave, Runs

\* Another program runs than the one that a part of the invariant is about.
LEMMA ElsewhereKeepsModes ==
    ASSUME ModesKnown, UNCHANGED gopFrame, program' # "gop"
    PROVE  ModesKnown'
BY DEF ModesKnown, GopTypeOK, gopFrame, drawing

\* MemoryExample: its list of allocations is empty whenever it does not run.
LEMMA ElsewhereKeepsMemory ==
    ASSUME MemoryKnown, UNCHANGED step, program' # "memory"
    PROVE  MemoryKnown'
BY DEF MemoryKnown, MemoryTypeOK

\* ShellCommand: Problem has only to keep its type.
LEMMA ElsewhereKeepsCommand ==
    ASSUME CommandKnown, UNCHANGED problem, program # "sysinfo"
    PROVE  CommandKnown'
BY DEF CommandKnown, CommandTypeOK

\* The walks over interfaces: their counters are back where a walk starts.
LEMMA ElsewhereKeepsInterfaces ==
    ASSUME InterfacesKnown, UNCHANGED interfacesFrame, program # "network", program' # "network"
    PROVE  InterfacesKnown'
BY DEF InterfacesKnown, InterfacesTypeOK, interfacesFrame

\* The modes are listed one after the other, and the drawing is GopInv's.
LEMMA ModesKeep == GopInv /\ ModesKnown /\ GopNext => ModesKnown'
<1> SUFFICES ASSUME GopInv, ModesKnown, GopNext
             PROVE  ModesKnown'
  OBVIOUS
<1>1. GopInv'
  BY GopStep
<1>2. refused' \subseteq asked' /\ box' \in 0 .. 8
  BY <1>1 DEF GopInv
<1>3. screen' \in Resolutions \cup {<<0, 0>>}
  <2>1. screen \in Resolutions \cup {<<0, 0>>}
    BY DEF ModesKnown, GopTypeOK
  <2>2. UNCHANGED screen \/ screen' \in Resolutions \/ screen' = <<0, 0>>
    BY DEF GopNext, GopApplication, LocateGop, QueryMode, ShowMode, ModesEnd, Key, Clear, DrawBox,
           DrawBar, AllocateRegion, CaptureRegion, CopyRegion, GopReturn, drawing
  <2> QED BY <2>1, <2>2
<1>4. \/ UNCHANGED mode /\ ~(program' = "gop" /\ pc' = "info")
      \/ mode < MaxMode /\ UNCHANGED mode
      \/ mode < MaxMode /\ mode' = mode + 1 /\ pc' = "modes"
      \/ mode' = 0 /\ program' = "shell"
  <2>1. CASE LocateGop \/ GopReturn
    BY <2>1 DEF LocateGop, GopReturn, Enter, Leave
  <2>2. CASE QueryMode
    BY <2>2 DEF QueryMode, Go
  <2>3. CASE ShowMode
    BY <2>3 DEF ModesKnown, ShowMode, Go, At
  <2>4. CASE ModesEnd \/ Key \/ Clear
    BY <2>4 DEF ModesEnd, Key, Clear, Go
  <2>5. CASE DrawBox \/ DrawBar \/ AllocateRegion \/ CaptureRegion \/ CopyRegion
    BY <2>5 DEF DrawBox, DrawBar, AllocateRegion, CaptureRegion, CopyRegion, Go
  <2> QED BY <2>1, <2>2, <2>3, <2>4, <2>5 DEF GopNext, GopApplication
<1>5. mode \in 0 .. MaxMode /\ MaxMode \in Nat
  BY ModeAssumption DEF ModesKnown, GopTypeOK
<1>6. mode' \in 0 .. MaxMode /\ (program' = "gop" /\ pc' = "info" => mode' < MaxMode)
  BY <1>4, <1>5
<1> QED BY <1>2, <1>3, <1>6 DEF ModesKnown, GopTypeOK

\* There are seven demonstrations, and after each one there is one less.
LEMMA MemoryKeeps == MemoryKnown /\ MemoryNext => MemoryKnown'
<1> SUFFICES ASSUME MemoryKnown, MemoryNext
             PROVE  MemoryKnown'
  OBVIOUS
<1>1. PICK n \in Nat : n = Len(Demonstrations)
  BY DEF Demonstrations
<1>2. \/ UNCHANGED step /\ pc' # "use"
      \/ step < n /\ UNCHANGED step
      \/ step < n /\ step' = step + 1 /\ pc' = "allocate"
      \/ step' = 0 /\ program' = "shell"
  <2>1. CASE MemoryStart \/ AllocateNext \/ Finish \/ MemoryReturn
    BY <1>1, <2>1 DEF MemoryStart, AllocateNext, Finish, MemoryReturn, Enter, Go, Leave
  <2>2. CASE UseAndRelease
    BY <1>1, <2>2 DEF MemoryKnown, UseAndRelease, Go, At
  <2> QED BY <2>1, <2>2 DEF MemoryNext, MemoryApplication
<1>3. step \in 0 .. n
  BY <1>1 DEF MemoryKnown, MemoryTypeOK
<1>4. step' \in 0 .. n /\ (program' = "memory" /\ pc' = "use" => step' < n)
  BY <1>2, <1>3
<1> QED BY <1>1, <1>4 DEF MemoryKnown, MemoryTypeOK

\* The parser is the only one to give Problem a text.
LEMMA CommandKeeps == CommandKnown /\ CommandNext => CommandKnown'
BY DEF CommandKnown, CommandTypeOK, CommandNext, CommandApplication, ShellInitialize,
       ShellCommandLineParse, ReportProblem, GetFlags, PrintInfo, FreeVarList, CommandReturn,
       Enter, Go, At, Leave

\* The two walks.
LEMMA InterfacesKeep == InterfacesKnown /\ InterfacesNext => InterfacesKnown'
<1> SUFFICES ASSUME InterfacesKnown, InterfacesNext
             PROVE  InterfacesKnown'
  OBVIOUS
<1>1. walk \in 1 .. 3 /\ item \in 0 .. Interfaces /\ Interfaces \in Nat
  BY InterfaceAssumption DEF InterfacesKnown, InterfacesTypeOK
<1>2. CASE InterfacesStart
  <2>1. program' = "network" /\ pc' = "locate" /\ UNCHANGED <<walk, item>> /\ walk = 1
    BY <1>2 DEF InterfacesKnown, InterfacesStart, Enter
  <2> QED BY <1>1, <2>1 DEF InterfacesKnown, InterfacesTypeOK
<1>3. CASE LocateHandles
  <2>1. /\ program = "network" /\ program' = "network" /\ pc = "locate" /\ pc' \in {"handle", "next"}
        /\ UNCHANGED walk /\ item' = 0
    BY <1>3 DEF LocateHandles, Go, At
  <2> QED BY <1>1, <2>1 DEF InterfacesKnown, InterfacesTypeOK
<1>4. CASE PassInterface \/ GetInfo
  <2>1. /\ program = "network" /\ program' = "network" /\ pc \in {"handle", "info"} /\ pc' = "handle"
        /\ UNCHANGED walk /\ item < Interfaces /\ item' = item + 1
    BY <1>4 DEF InterfacesKnown, PassInterface, GetInfo, Go, At
  <2> QED BY <1>1, <2>1 DEF InterfacesKnown, InterfacesTypeOK
<1>5. CASE AllocateInfo \/ EndOfHandles
  <2>1. /\ program = "network" /\ program' = "network" /\ pc = "handle" /\ pc' \in {"info", "next"}
        /\ UNCHANGED <<walk, item>> /\ (pc' = "info" => item < Interfaces)
    BY <1>5 DEF AllocateInfo, EndOfHandles, Go, At
  <2> QED BY <1>1, <2>1 DEF InterfacesKnown, InterfacesTypeOK
<1>6. CASE NextWalk
  <2>1. /\ program = "network" /\ program' = "network" /\ pc = "next"
        /\ pc' = (IF walk = 1 THEN "locate" ELSE "return")
        /\ walk' = walk + 1 /\ UNCHANGED item
    BY <1>6 DEF NextWalk, Go, At
  <2>2. walk <= 2
    BY <2>1 DEF InterfacesKnown
  <2>3. walk' \in 1 .. 3 /\ (pc' # "return" => walk' <= 2) /\ pc' # "info"
    BY <1>1, <2>1, <2>2
  <2> QED BY <1>1, <2>1, <2>3 DEF InterfacesKnown, InterfacesTypeOK
<1>7. CASE InterfacesReturn
  <2>1. program' = "shell" /\ walk' = 1 /\ item' = 0
    BY <1>7 DEF InterfacesReturn, Leave
  <2> QED BY <1>1, <2>1 DEF InterfacesKnown, InterfacesTypeOK
<1> QED BY <1>2, <1>3, <1>4, <1>5, <1>6, <1>7 DEF InterfacesNext, InterfacesApplication

--------------------------------------------------------------------------------
(* The pool.                                                               *)

\* What each program has allocated at each of its labels.
ClientsOwn == IF pc = "order" THEN {"BootOrder"} ELSE {}
BlockOwns ==
    CASE pc = "return" -> {}
      [] pc = "lba1" -> {"HandleBuffer", "Buffer", "GptBuffer"}
      [] pc \in {"lba0", "gptbuffer", "dumpread"} -> {"HandleBuffer", "Buffer"}
      [] OTHER -> {"HandleBuffer"}
GopOwns ==
    CASE pc = "info" -> {"Info"}
      [] pc \in {"read", "copy"} -> {"Region"}
      [] OTHER -> {}
MemoryOwns == IF pc = "use" THEN {Demonstrations[step + 1]} ELSE {}
CommandOwns ==
    CASE pc \in {"flags", "info", "freelist"} -> {"ParamPackage"}
      [] pc = "problem" /\ problem = "text" -> {"Problem"}
      [] OTHER -> {}
InterfacesOwn ==
    CASE pc = "info" -> {"HandleBuffer", "InterfaceInfo"}
      [] pc = "handle" -> {"HandleBuffer"}
      [] OTHER -> {}

\* The pool is that of the program that runs.
PoolKnown ==
    /\ program = "shell" => pool = {}
    /\ program \in Clients => pool = ClientsOwn
    /\ program = "block" => pool = BlockOwns
    /\ program = "gop" => pool = GopOwns
    /\ program = "memory" => pool = MemoryOwns
    /\ program = "sysinfo" => pool = CommandOwns
    /\ program = "network" => pool = InterfacesOwn

\* The clients of the store, and a reset, which takes the pool with it.
LEMMA ClientsKeepPool == PoolKnown /\ VariablesNext => PoolKnown'
<1> SUFFICES ASSUME PoolKnown, VariablesNext
             PROVE  PoolKnown'
  OBVIOUS
<1>1. program' \in Clients \cup {"shell"}
  BY ClientsRun DEF Runs
<1>2. /\ program' = "shell" => pool' = {}
      /\ program' \in Clients => pool' = IF pc' = "order" THEN {"BootOrder"} ELSE {}
  <2>1. CASE VariablesStart
    BY <2>1 DEF VariablesStart, Enter, PoolKnown, Clients
  <2>2. CASE OtherWrites \/ Reset
    BY <2>2 DEF OtherWrites, Reset, shell, PoolKnown, ClientsOwn, Clients
  <2>3. CASE ReadFixed \/ QueryOrder \/ ReadOrder \/ BeginWalk
    BY <2>3, MeRuns DEF ReadFixed, QueryOrder, ReadOrder, BeginWalk, Go, At, Allocate, Free,
                        PoolKnown, ClientsOwn, Clients
  <2>4. CASE NextVariable \/ EndWalk \/ ReportWalk
    BY <2>4, MeRuns DEF NextVariable, EndWalk, ReportWalk, Go, At, PoolKnown, ClientsOwn, Clients
  <2>5. CASE CreateTestVar \/ ReadBack \/ DeleteTestVar \/ VerifyDeletion \/ VariablesReturn
    BY <2>5, MeRuns DEF CreateTestVar, ReadBack, DeleteTestVar, VerifyDeletion, VariablesReturn,
                        Go, At, Leave, PoolKnown, ClientsOwn, Clients
  <2> QED BY <2>1, <2>2, <2>3, <2>4, <2>5 DEF VariablesNext, VariablesApplication
<1> QED BY <1>1, <1>2 DEF PoolKnown, ClientsOwn, Clients

\* The handles until the end, a buffer for each sector, one for the dump.
LEMMA BlockKeepsPool == PoolKnown /\ BlockNext => PoolKnown'
<1> SUFFICES ASSUME PoolKnown, BlockNext
             PROVE  PoolKnown'
  OBVIOUS
<1>1. program' \in {"block", "shell"}
  BY BlockRuns DEF Runs
<1>2. CASE LocateDevices
  BY <1>2 DEF LocateDevices, Enter, Allocate, PoolKnown, BlockOwns, Clients
<1>3. CASE SwapMedium \/ OtherRead
  BY <1>1, <1>3 DEF SwapMedium, OtherRead, shell, PoolKnown, BlockOwns, Clients
<1>4. CASE SkipDevice \/ ShowDevice \/ AllocateBuffer
  BY <1>1, <1>4 DEF SkipDevice, ShowDevice, AllocateBuffer, Go, At, Allocate, PoolKnown, BlockOwns, Clients
<1>5. CASE ReadLba0 \/ AllocateGptBuffer
  BY <1>1, <1>5 DEF ReadLba0, AllocateGptBuffer, Go, At, Allocate, Free, PoolKnown, BlockOwns, Clients
<1>6. CASE ReadLba1 \/ AllocateDump \/ DumpBlockData
  BY <1>1, <1>6 DEF ReadLba1, AllocateDump, DumpBlockData, Go, At, Allocate, Free, PoolKnown, BlockOwns, Clients
<1>7. CASE NextDevice \/ EndOfDevices \/ FreeHandles \/ BlockReturn
  BY <1>1, <1>7 DEF NextDevice, EndOfDevices, FreeHandles, BlockReturn, Go, At, Leave, Free,
                    PoolKnown, BlockOwns, Clients
<1> QED BY <1>2, <1>3, <1>4, <1>5, <1>6, <1>7 DEF BlockNext, BlockApplication

\* The description of a mode, or the captured region.
LEMMA GopKeepsPool == PoolKnown /\ GopNext => PoolKnown'
<1> SUFFICES ASSUME PoolKnown, GopNext
             PROVE  PoolKnown'
  OBVIOUS
<1>1. program' \in {"gop", "shell"}
  BY GopRuns DEF Runs
<1>2. CASE LocateGop \/ GopReturn
  BY <1>2 DEF LocateGop, GopReturn, Enter, Leave, At, PoolKnown, GopOwns, Clients
<1>3. CASE QueryMode \/ ShowMode
  BY <1>1, <1>3 DEF QueryMode, ShowMode, Go, At, Allocate, Free, PoolKnown, GopOwns, Clients
<1>4. CASE ModesEnd \/ Key \/ Clear \/ DrawBox \/ DrawBar
  BY <1>1, <1>4 DEF ModesEnd, Key, Clear, DrawBox, DrawBar, Go, At, PoolKnown, GopOwns, Clients
<1>5. CASE AllocateRegion \/ CaptureRegion \/ CopyRegion
  BY <1>1, <1>5 DEF AllocateRegion, CaptureRegion, CopyRegion, Go, At, Allocate, Free,
                    PoolKnown, GopOwns, Clients
<1> QED BY <1>2, <1>3, <1>4, <1>5 DEF GopNext, GopApplication

\* The allocation that is being demonstrated.
LEMMA MemoryKeepsPool == PoolKnown /\ MemoryNext => PoolKnown'
<1> SUFFICES ASSUME PoolKnown, MemoryNext
             PROVE  PoolKnown'
  OBVIOUS
<1>1. program' \in {"memory", "shell"}
  BY MemoryRuns DEF Runs
<1>2. CASE MemoryStart \/ MemoryReturn
  BY <1>2 DEF MemoryStart, MemoryReturn, Enter, Leave, At, PoolKnown, MemoryOwns, Clients
<1>3. CASE AllocateNext \/ Finish
  BY <1>1, <1>3 DEF AllocateNext, Finish, Go, At, Allocate, PoolKnown, MemoryOwns, Clients
<1>4. CASE UseAndRelease
  BY <1>1, <1>4 DEF UseAndRelease, Go, At, Free, PoolKnown, MemoryOwns, Clients
<1> QED BY <1>2, <1>3, <1>4 DEF MemoryNext, MemoryApplication

\* The list of parameters, or the text about the one not understood.
LEMMA CommandKeepsPool == PoolKnown /\ CommandKnown /\ CommandNext => PoolKnown'
<1> SUFFICES ASSUME PoolKnown, CommandKnown, CommandNext
             PROVE  PoolKnown'
  OBVIOUS
<1>1. program' \in {"sysinfo", "shell"}
  BY CommandRuns DEF Runs
<1>2. CASE ShellInitialize \/ CommandReturn
  BY <1>2 DEF ShellInitialize, CommandReturn, Enter, Leave, At, PoolKnown, CommandOwns, Clients
<1>3. CASE ShellCommandLineParse
  BY <1>1, <1>3 DEF CommandKnown, ShellCommandLineParse, Go, At, Allocate, PoolKnown, CommandOwns, Clients
<1>4. CASE ReportProblem \/ GetFlags \/ PrintInfo \/ FreeVarList
  BY <1>1, <1>4 DEF ReportProblem, GetFlags, PrintInfo, FreeVarList, Go, At, Free,
                    PoolKnown, CommandOwns, Clients
<1> QED BY <1>2, <1>3, <1>4 DEF CommandNext, CommandApplication

\* The handles during each walk, and the data of the interface that is read.
LEMMA InterfacesKeepPool == PoolKnown /\ InterfacesNext => PoolKnown'
<1> SUFFICES ASSUME PoolKnown, InterfacesNext
             PROVE  PoolKnown'
  OBVIOUS
<1>1. program' \in {"network", "shell"}
  BY InterfacesRun DEF Runs
<1>2. CASE InterfacesStart \/ InterfacesReturn
  BY <1>2 DEF InterfacesStart, InterfacesReturn, Enter, Leave, At, PoolKnown, InterfacesOwn, Clients
<1>3. CASE LocateHandles \/ PassInterface \/ AllocateInfo
  BY <1>1, <1>3 DEF LocateHandles, PassInterface, AllocateInfo, Go, At, Allocate,
                    PoolKnown, InterfacesOwn, Clients
<1>4. CASE GetInfo \/ EndOfHandles \/ NextWalk
  BY <1>1, <1>4 DEF GetInfo, FreedAfterRead, EndOfHandles, NextWalk, Go, At, Free,
                    PoolKnown, InterfacesOwn, Clients
<1> QED BY <1>2, <1>3, <1>4 DEF InterfacesNext, InterfacesApplication

--------------------------------------------------------------------------------
(* The session.                                                            *)

\* One of the programs runs or none does; each program's own invariant; and the
\* pool holds what the running program has allocated where it is.
SessionInv ==
    /\ program \in Clients \cup {"shell", "block", "gop", "memory", "sysinfo", "network"}
    /\ VarInv /\ DiskInv /\ GopInv /\ ModesKnown
    /\ MemoryKnown /\ CommandKnown /\ InterfacesKnown
    /\ PoolKnown

\* Before the first program runs.
LEMMA VariablesInitially == NothingRuns /\ VariablesInit => VarInv
<1> SUFFICES ASSUME NothingRuns, VariablesInit
             PROVE  VarInv
  OBVIOUS
<1>1. /\ program = "shell" /\ pc = "shell"
      /\ list = <<>> /\ attr = [n \in Names |-> "absent"]
      /\ reads = 0 /\ name = NoName /\ listed = <<>> /\ theirs = attr /\ quiet = TRUE /\ writes = 0
  BY DEF NothingRuns, VariablesInit, NoStore
<1>2. StoreTypeOK /\ Enumerates(list, Stored)
  <2>1. Stored = {}
    BY <1>1 DEF Stored, Present
  <2>2. list \in Seq(Names) /\ Len(list) = 0 /\ ToSet(list) = {}
    BY <1>1 DEF ToSet
  <2> QED BY <1>1, <2>1, <2>2 DEF StoreTypeOK, Enumerates, Stored
<1>3. VariableTypeOK
  <2>1. 0 \in 0 .. 5 /\ 0 \in 0 .. MaxWrites
    BY LimitAssumption
  <2> QED BY <1>1, <1>2, <2>1 DEF VariableTypeOK, StoreTypeOK
<1>4. WalkKnown /\ ReadsKnown /\ CreateIsOfVariables /\ StoreKnown
  BY <1>1 DEF WalkKnown, ReadsKnown, CreateIsOfVariables, WalkIsComplete, StoreKnown, Clients
<1> QED BY <1>2, <1>3, <1>4 DEF VarInv

\* Before the first program runs: no medium in any device.
LEMMA DisksInitially == NothingRuns /\ BlockInit => DiskInv
<1> SUFFICES ASSUME NothingRuns, BlockInit
             PROVE  DiskInv
  OBVIOUS
<1>1. /\ program = "shell"
      /\ kind = [d \in Disks |-> "fixed"]
      /\ inserted = [d \in Disks |-> NoMedium] /\ seen = [d \in Disks |-> NoMedium]
      /\ swaps = 0 /\ noticed = FALSE /\ index = 0 /\ count = 0
      /\ lba0 = "zeros" /\ lba1 = "zeros" /\ verdict = "nothing"
  BY DEF NothingRuns, BlockInit
<1>2. 0 \in 0 .. MaxSwaps /\ 0 \in 0 .. Devices + 1 /\ 0 \in 0 .. ShownDevices
  BY DeviceAssumption, SwapAssumption
<1>3. BlockTypeOK
  BY <1>1, <1>2 DEF BlockTypeOK
<1>4. DisksKnown /\ VerdictIsOfOneMedium
  BY <1>1 DEF DisksKnown, VerdictIsOfOneMedium
<1> QED BY <1>3, <1>4 DEF DiskInv

\* The session starts with nothing allocated and every program in its first state.
LEMMA SessionInitially == Init => SessionInv
<1> SUFFICES ASSUME Init
             PROVE  SessionInv
  OBVIOUS
<1>1. program = "shell" /\ pool = {}
  BY DEF Init, NothingRuns
<1>2. VarInv /\ DiskInv /\ GopInv
  BY VariablesInitially, DisksInitially, GopInitially DEF Init
<1>3. ModesKnown
  BY <1>1, ModeAssumption DEF Init, GopInit, ModesKnown, GopTypeOK
<1>4. MemoryKnown
  BY <1>1 DEF Init, MemoryInit, MemoryKnown, MemoryTypeOK, Demonstrations
<1>5. CommandKnown
  BY <1>1 DEF Init, CommandInit, CommandKnown, CommandTypeOK
<1>6. InterfacesKnown
  BY <1>1, InterfaceAssumption DEF Init, InterfacesInit, InterfacesKnown, InterfacesTypeOK
<1>7. PoolKnown
  BY <1>1 DEF PoolKnown, Clients
<1> QED BY <1>1, <1>2, <1>3, <1>4, <1>5, <1>6, <1>7 DEF SessionInv

\* A program that does not draw leaves the drawing's part alone.
LEMMA ElsewhereKeepsDrawing ==
    ASSUME GopInv, UNCHANGED gopFrame, program # "gop", program' # "gop"
    PROVE  GopInv'
<1>1. UNCHANGED <<screen, box, asked, refused>>
  BY DEF gopFrame, drawing
<1> QED BY <1>1, NoBltKeeps DEF GopInv

\* A step that changes nothing.
LEMMA StutterKeeps == SessionInv /\ UNCHANGED vars => SessionInv'
<1> SUFFICES ASSUME SessionInv, UNCHANGED vars
             PROVE  SessionInv'
  OBVIOUS
<1>1. UNCHANGED <<program, pc, pool>> /\ UNCHANGED <<variablesFrame, blockFrame, gopFrame>>
      /\ UNCHANGED <<step, problem, interfacesFrame>>
  BY DEF vars, shell
<1>2. VarInv'
  <2>1. UNCHANGED <<list, attr, reads, name, listed, theirs, quiet, writes>>
    BY <1>1 DEF variablesFrame, store, locals, history
  <2>2. StoreTypeOK' /\ Enumerates(list, Stored)'
    BY <2>1, UnchangedStore DEF SessionInv, VarInv, VariableTypeOK, store
  <2>3. VariableTypeOK'
    BY <2>1, <2>2 DEF SessionInv, VarInv, VariableTypeOK
  <2>4. WalkKnown'
    BY <1>1, <2>1 DEF SessionInv, VarInv, WalkKnown, FirstAreListed, WalkIsComplete
  <2>5. ReadsKnown' /\ CreateIsOfVariables' /\ StoreKnown'
    BY <1>1, <2>1 DEF SessionInv, VarInv, ReadsKnown, CreateIsOfVariables, StoreKnown
  <2> QED BY <2>2, <2>3, <2>4, <2>5 DEF VarInv
<1>3. DiskInv'
  <2>1. UNCHANGED <<kind, inserted, seen, swaps, noticed, index, count, lba0, lba1, verdict>>
    BY <1>1 DEF blockFrame, drives, devices, buffers
  <2>2. BlockTypeOK'
    BY <2>1 DEF SessionInv, DiskInv, BlockTypeOK
  <2>3. DisksKnown' /\ VerdictIsOfOneMedium'
    BY <1>1, <2>1 DEF SessionInv, DiskInv, DisksKnown, VerdictIsOfOneMedium, TableOf
  <2> QED BY <2>2, <2>3 DEF DiskInv
<1>4. GopInv' /\ ModesKnown'
  <2>1. GopInv'
    BY <1>1, GopStep DEF SessionInv, shell
  <2>2. ModesKnown'
    BY <1>1 DEF SessionInv, ModesKnown, GopTypeOK, gopFrame, drawing
  <2> QED BY <2>1, <2>2
<1>5. MemoryKnown' /\ CommandKnown'
  BY <1>1 DEF SessionInv, MemoryKnown, MemoryTypeOK, CommandKnown, CommandTypeOK
<1>6. InterfacesKnown'
  BY <1>1 DEF SessionInv, InterfacesKnown, InterfacesTypeOK, interfacesFrame
<1>7. PoolKnown'
  BY <1>1 DEF SessionInv, PoolKnown, ClientsOwn, BlockOwns, GopOwns, MemoryOwns, CommandOwns, InterfacesOwn
<1> QED BY <1>1, <1>2, <1>3, <1>4, <1>5, <1>6, <1>7 DEF SessionInv

\* Whatever the user starts, and whoever acts meanwhile.
LEMMA SessionStep == SessionInv /\ [Next]_vars => SessionInv'
<1> SUFFICES ASSUME SessionInv, [Next]_vars
             PROVE  SessionInv'
  OBVIOUS
<1> USE DEF SessionInv
<1>1. CASE VariablesNext /\ OnlyVariables
  <2>1. program \in Clients \cup {"shell"} /\ program' \in Clients \cup {"shell"}
    BY <1>1, ClientsRun DEF Runs
  <2>2. UNCHANGED <<blockFrame, gopFrame, step, problem, interfacesFrame>>
    BY <1>1 DEF OnlyVariables
  <2>3. VarInv' /\ PoolKnown'
    BY <1>1, VariablesKeep, ClientsKeepPool
  <2> QED BY <2>1, <2>2, <2>3, ElsewhereKeepsDisks, ElsewhereKeepsDrawing, ElsewhereKeepsModes,
             ElsewhereKeepsMemory, ElsewhereKeepsCommand, ElsewhereKeepsInterfaces DEF Clients
<1>2. CASE BlockNext /\ OnlyBlock
  <2>1. /\ program \in {"block", "shell"} /\ program' \in {"block", "shell"}
        /\ pc' = "walked" => pc = "walked"
    BY <1>2, BlockRuns DEF Runs, Clients
  <2>2. UNCHANGED <<variablesFrame, gopFrame, step, problem, interfacesFrame>>
    BY <1>2 DEF OnlyBlock
  <2>3. DiskInv' /\ PoolKnown'
    BY <1>2, DisksKeep, BlockKeepsPool
  <2>4. VarInv'
    BY <2>1, <2>2, ElsewhereKeepsVariables DEF VarInv, WalkKnown, Clients
  <2> QED BY <2>1, <2>2, <2>3, <2>4, ElsewhereKeepsDrawing, ElsewhereKeepsModes,
             ElsewhereKeepsMemory, ElsewhereKeepsCommand, ElsewhereKeepsInterfaces
<1>3. CASE GopNext /\ OnlyGop
  <2>1. /\ program \in {"gop", "shell"} /\ program' \in {"gop", "shell"}
        /\ pc' = "walked" => pc = "walked"
    BY <1>3, GopRuns DEF Runs, Clients
  <2>2. UNCHANGED <<variablesFrame, blockFrame, step, problem, interfacesFrame>>
    BY <1>3 DEF OnlyGop
  <2>3. GopInv' /\ ModesKnown' /\ PoolKnown'
    BY <1>3, GopStep, ModesKeep, GopKeepsPool
  <2>4. VarInv'
    BY <2>1, <2>2, ElsewhereKeepsVariables DEF VarInv, WalkKnown, Clients
  <2> QED BY <2>1, <2>2, <2>3, <2>4, ElsewhereKeepsDisks, ElsewhereKeepsMemory,
             ElsewhereKeepsCommand, ElsewhereKeepsInterfaces
<1>4. CASE MemoryNext /\ OnlyMemory
  <2>1. /\ program \in {"memory", "shell"} /\ program' \in {"memory", "shell"}
        /\ pc' = "walked" => pc = "walked"
    BY <1>4, MemoryRuns DEF Runs, Clients
  <2>2. UNCHANGED <<variablesFrame, blockFrame, gopFrame, problem, interfacesFrame>>
    BY <1>4 DEF OnlyMemory
  <2>3. MemoryKnown' /\ PoolKnown'
    BY <1>4, MemoryKeeps, MemoryKeepsPool
  <2>4. VarInv'
    BY <2>1, <2>2, ElsewhereKeepsVariables DEF VarInv, WalkKnown, Clients
  <2> QED BY <2>1, <2>2, <2>3, <2>4, ElsewhereKeepsDisks, ElsewhereKeepsDrawing, ElsewhereKeepsModes,
             ElsewhereKeepsCommand, ElsewhereKeepsInterfaces
<1>5. CASE CommandNext /\ OnlyCommand
  <2>1. /\ program \in {"sysinfo", "shell"} /\ program' \in {"sysinfo", "shell"}
        /\ pc' = "walked" => pc = "walked"
    BY <1>5, CommandRuns DEF Runs, Clients
  <2>2. UNCHANGED <<variablesFrame, blockFrame, gopFrame, step, interfacesFrame>>
    BY <1>5 DEF OnlyCommand
  <2>3. CommandKnown' /\ PoolKnown'
    BY <1>5, CommandKeeps, CommandKeepsPool
  <2>4. VarInv'
    BY <2>1, <2>2, ElsewhereKeepsVariables DEF VarInv, WalkKnown, Clients
  <2> QED BY <2>1, <2>2, <2>3, <2>4, ElsewhereKeepsDisks, ElsewhereKeepsDrawing, ElsewhereKeepsModes,
             ElsewhereKeepsMemory, ElsewhereKeepsInterfaces
<1>6. CASE InterfacesNext /\ OnlyInterfaces
  <2>1. /\ program \in {"network", "shell"} /\ program' \in {"network", "shell"}
        /\ pc' = "walked" => pc = "walked"
    BY <1>6, InterfacesRun DEF Runs, Clients
  <2>2. UNCHANGED <<variablesFrame, blockFrame, gopFrame, step, problem>>
    BY <1>6 DEF OnlyInterfaces
  <2>3. InterfacesKnown' /\ PoolKnown'
    BY <1>6, InterfacesKeep, InterfacesKeepPool
  <2>4. VarInv'
    BY <2>1, <2>2, ElsewhereKeepsVariables DEF VarInv, WalkKnown, Clients
  <2> QED BY <2>1, <2>2, <2>3, <2>4, ElsewhereKeepsDisks, ElsewhereKeepsDrawing, ElsewhereKeepsModes,
             ElsewhereKeepsMemory, ElsewhereKeepsCommand
<1>7. CASE UNCHANGED vars
  BY <1>7, StutterKeeps
<1> QED BY <1>1, <1>2, <1>3, <1>4, <1>5, <1>6, <1>7 DEF Next

\* The invariant holds of every session.
LEMMA SessionInvariance == Spec => []SessionInv
BY SessionInitially, SessionStep, PTL DEF Spec

--------------------------------------------------------------------------------
(* The properties.                                                         *)

\* All variables keep their types, those of programs that do not run too.
THEOREM SessionTypeCorrect == Spec => []TypeOK
<1>1. SessionInv => TypeOK
  BY DEF SessionInv, TypeOK, VarInv, DiskInv, ModesKnown, MemoryKnown, CommandKnown, InterfacesKnown
<1> QED BY <1>1, SessionInvariance, PTL

\* In every session the shell gets the pool back as it was: whichever programs
\* ran, in whatever order, with whatever services failing.
THEOREM PoolComesBack == Spec => []NothingLeftInPool
<1>1. SessionInv => NothingLeftInPool
  BY DEF SessionInv, PoolKnown, NothingLeftInPool
<1> QED BY <1>1, SessionInvariance, PTL

\* For a store with any number of variables in any order, and any limit of
\* the loop: undisturbed, the walk skips no variable and does not end early.
THEOREM WalkListsTheStore == Spec => []WalkIsComplete
<1>1. SessionInv => WalkIsComplete
  BY DEF SessionInv, VarInv, WalkKnown
<1> QED BY <1>1, SessionInvariance, PTL

\* However often others write, and whenever the power fails, the run leaves
\* the store as the others made it, but for TestVar in two cases.
THEOREM StoreIsLeftAsFound == Spec => []StoreAsFound
<1>1. SessionInv => StoreAsFound
  <2> SUFFICES ASSUME VarInv, pc = "return", program \in Clients, NEW n \in Names, attr[n] # theirs[n]
               PROVE  /\ n = TestVar /\ program = "variables"
                      /\ \/ <<theirs[n], attr[n]>> \in {<<"volatile", "absent">>, <<"absent", "volatile">>}
                         \/ ~quiet
    BY DEF SessionInv, StoreAsFound
  <2>1. n = TestVar /\ program = "variables"
    BY DEF VarInv, StoreKnown
  <2>2. CASE quiet
    BY <2>1, <2>2 DEF VarInv, StoreKnown
  <2>3. CASE ~quiet
    BY <2>1, <2>3
  <2> QED BY <2>1, <2>2, <2>3
<1> QED BY <1>1, SessionInvariance, PTL

\* For any number of devices and of changes of media: the table that is
\* reported is that of one medium, unless another reader came in between.
THEOREM TableIsOfOneMedium == Spec => []VerdictIsOfOneMedium
<1>1. SessionInv => VerdictIsOfOneMedium
  BY DEF SessionInv, DiskInv
<1> QED BY <1>1, SessionInvariance, PTL

\* In every session, at every resolution from 84x63 on, what
\* GopExample draws is on the screen and no box is refused.
THEOREM SessionDrawsOnScreen == Spec => []DrawnOnScreen
<1>1. SessionInv => DrawnOnScreen
  BY GopInvDrawsOnScreen DEF SessionInv
<1> QED BY <1>1, SessionInvariance, PTL

\* In every session, at every resolution from 84x63 on, no box
\* covers another one or, from 180 lines on, the bar.
THEOREM SessionKeepsBoxesApart == Spec => []BoxesApart
<1>1. SessionInv => BoxesApart
  BY GopInvKeepsBoxesApart DEF SessionInv
<1> QED BY <1>1, SessionInvariance, PTL
================================================================================
