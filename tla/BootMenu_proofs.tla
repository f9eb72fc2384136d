---------------------------- MODULE BootMenu_proofs ----------------------------
(***************************************************************************)
(* Proofs about BootMenu, for any options, any BootOrder, any size of the  *)
(* menu, and any writes of other components.                               *)
(*                                                                         *)
(* BootInv follows the application from label to label: the buffers it     *)
(* holds, what it knows of the BootOrder it read, how the list came out of *)
(* it, where the selection is, and which line is highlighted before        *)
(* BootNext is written.                                                    *)
(***************************************************************************)
EXTENDS BootMenu, SequenceTheorems, TLAPS

\* The buffers at each label; until the system is reset none is left.
PoolKnown ==
    pool = CASE pc \in {"getorder", "option"} -> {"BootOrder"}
             [] pc = "getoption" -> {"BootOrder", "OptionData"}
             [] OTHER -> {}

\* In the loop count is the length of what was read, index points into it
\* while there is an option to read, and the list is shorter than index.
OrderKnown ==
    /\ pc \in {"option", "getoption"} =>
         count = Len(order) /\ index <= count + 1 /\ Len(options) < index
    /\ pc = "getoption" => MoreOptions

\* The selection is the first line until there is a list, and then in it.
SelectionKnown ==
    /\ pc \in {"start", "order", "getorder", "option", "getoption"} => selected = 0
    /\ pc \in {"start", "order", "getorder"} => options = <<>>
    /\ pc \in {"draw", "key", "bootnext", "reset"} => selected < Len(options)

\* While a key is awaited or handled the selected line is the highlighted
\* one; only the menu's own SetVariable stores an option, that of this line.
BootNextKnown ==
    /\ pc \in {"key", "bootnext", "reset"} => highlighted = {options[selected + 1]}
    /\ pc \notin {"reset", "booted"} => ~written
    /\ BootNextIsHighlighted

BootInv ==
    /\ TypeOK /\ PoolKnown /\ OrderKnown /\ SelectionKnown /\ BootNextKnown
    /\ DescriptionWasRead /\ ListFollowsOrder

--------------------------------------------------------------------------------
(* The list.                                                               *)

\* at says which entry of BootOrder each line of the menu came from.
ListedFrom(at) ==
    /\ at \in [1 .. Len(options) -> 1 .. index - 1]
    /\ \A j, k \in 1 .. Len(options) : j < k => at[j] < at[k]
    /\ \A k \in 1 .. Len(options) :
         /\ at[k] <= MaxOptions
         /\ options[k] = order[at[k]]

\* An entry that is passed over leaves the list alone.
LEMMA PassedOverFollows ==
    ASSUME TypeOK, NEW at, ListedFrom(at),
           UNCHANGED <<options, order>>, index' \in {index, index + 1}
    PROVE  ListedFrom(at)'
<1>1. Len(options) \in Nat /\ index \in Nat
  BY BoundAssumption DEF TypeOK
<1>2. at \in [1 .. Len(options) -> 1 .. index' - 1]
  BY <1>1 DEF ListedFrom
<1> QED BY <1>2 DEF ListedFrom

\* The entry that is read next follows those of the list.
LEMMA AppendedFollows ==
    ASSUME TypeOK, NEW at, ListedFrom(at), NEW n \in Numbers,
           n = order[index], index <= MaxOptions,
           options' = Append(options, n), index' = index + 1,
           UNCHANGED order
    PROVE  \E new : ListedFrom(new)'
<1> DEFINE l == Len(options)
           new == [k \in 1 .. l + 1 |-> IF k = l + 1 THEN index ELSE at[k]]
<1>1. l \in Nat /\ index \in Nat /\ index >= 1 /\ MaxOptions \in Nat /\ options \in Seq(Numbers)
  BY BoundAssumption DEF TypeOK
<1>2. Len(options') = l + 1 /\ options'[l + 1] = n /\ \A k \in 1 .. l : options'[k] = options[k]
  BY <1>1, AppendProperties
<1>3. \A k \in 1 .. l : at[k] \in 1 .. index - 1
  BY DEF ListedFrom
<1> HIDE DEF l
<1>4. new \in [1 .. l + 1 -> 1 .. index]
  BY <1>1, <1>3
<1>5. ASSUME NEW j \in 1 .. l + 1, NEW k \in 1 .. l + 1, j < k
      PROVE  new[j] < new[k]
  <2>1. j \in 1 .. l /\ at[j] \in 1 .. index - 1
    BY <1>1, <1>3, <1>5
  <2>2. CASE k = l + 1
    BY <1>1, <2>1, <2>2
  <2>3. CASE k # l + 1
    <3>1. k \in 1 .. l
      BY <1>1, <2>3
    <3>2. at[j] < at[k]
      BY <1>5, <2>1, <3>1 DEF ListedFrom, l
    <3> QED BY <1>1, <2>1, <2>3, <3>2
  <2> QED BY <2>2, <2>3
<1>6. ASSUME NEW k \in 1 .. l + 1
      PROVE  /\ new[k] <= MaxOptions
             /\ options'[k] = order[new[k]]
  <2>1. CASE k = l + 1
    BY <1>2, <2>1
  <2>2. CASE k # l + 1
    <3>1. k \in 1 .. l
      BY <1>1, <2>2
    <3> QED BY <1>2, <2>2, <3>1 DEF ListedFrom, l
  <2> QED BY <2>1, <2>2
<1> HIDE DEF new
<1>7. index' - 1 = index
  BY <1>1
<1>8. PICK f : f = new
  OBVIOUS
<1>9. /\ f \in [1 .. Len(options') -> 1 .. index' - 1]
      /\ \A j, k \in 1 .. Len(options') : j < k => f[j] < f[k]
  BY <1>2, <1>4, <1>5, <1>7, <1>8
<1>10. \A k \in 1 .. Len(options') :
         /\ f[k] <= MaxOptions
         /\ options'[k] = order'[f[k]]
  BY <1>2, <1>6, <1>8
<1> QED BY <1>9, <1>10 DEF ListedFrom

--------------------------------------------------------------------------------
(* The invariant.                                                          *)

\* What the firmware and other components write is of the types assumed.
LEMMA OrdersAreSequences == \A o \in Orders : o \in Seq(Numbers) /\ Len(o) <= MaxOrder
BY BoundAssumption DEF Orders, BoundedSeq, SeqOf

\* The list, at a label where it is one.
LEMMA ListIsKnown ==
    ASSUME BootInv, pc \in {"option", "getoption", "draw", "key"}
    PROVE  \E at : ListedFrom(at)
BY DEF BootInv, ListFollowsOrder, ListedFrom

\* The same after a step: an origin of the new list is enough.
LEMMA ListStaysKnown ==
    ASSUME \E at : ListedFrom(at)'
    PROVE  ListFollowsOrder'
BY DEF ListFollowsOrder, ListedFrom

\* The application starts with no buffer, no list, and an empty BootNext.
LEMMA BootInitially == Init => BootInv
<1> SUFFICES ASSUME Init
             PROVE  BootInv
  OBVIOUS
<1>1. bootOrder \in Seq(Numbers) /\ Len(bootOrder) <= MaxOrder
  BY OrdersAreSequences DEF Init
<1>2. /\ writes \in 0 .. MaxWrites /\ count \in 0 .. MaxOrder /\ selected \in 0 .. MaxOptions
      /\ index \in 1 .. MaxOptions + 1 /\ size \in Nat
  BY BoundAssumption DEF Init
<1>3. /\ order \in Seq(Numbers) /\ options \in Seq(Numbers) /\ Len(options) <= MaxOptions
      /\ described \in Seq(Nat) /\ Len(described) = Len(options)
  BY BoundAssumption DEF Init
<1>4. TypeOK
  BY <1>1, <1>2, <1>3 DEF Init, TypeOK
<1>5. /\ PoolKnown /\ OrderKnown /\ SelectionKnown /\ BootNextKnown
      /\ DescriptionWasRead /\ ListFollowsOrder
  BY DEF Init, PoolKnown, OrderKnown, SelectionKnown, BootNextKnown, BootNextIsHighlighted,
         DescriptionWasRead, ListFollowsOrder
<1> QED BY <1>4, <1>5 DEF BootInv

\* Start empties the list and leaves the rest alone.
LEMMA StartKeeps == BootInv /\ Start => BootInv'
<1> SUFFICES ASSUME BootInv, Start
             PROVE  BootInv'
  OBVIOUS
<1>1. /\ UNCHANGED <<bootOrder, optionSize, bootNext, written, writes, order, count>>
      /\ UNCHANGED <<index, size, pool>>
      /\ UNCHANGED <<selected, highlighted>>
      /\ pc = "start" /\ pc' = "order" /\ gop' \in BOOLEAN /\ cursor' = FALSE
      /\ options' = <<>> /\ described' = <<>>
  BY DEF Start, Go, store, loader
<1>2. /\ options' \in Seq(Numbers) /\ Len(options') <= MaxOptions
      /\ described' \in Seq(Nat) /\ Len(described') = Len(options')
  BY <1>1, BoundAssumption
<1>3. TypeOK'
  BY <1>1, <1>2 DEF BootInv, TypeOK
<1>4. /\ PoolKnown' /\ OrderKnown' /\ SelectionKnown' /\ BootNextKnown'
      /\ DescriptionWasRead' /\ ListFollowsOrder'
  BY <1>1 DEF BootInv, PoolKnown, OrderKnown, SelectionKnown, BootNextKnown,
              BootNextIsHighlighted, DescriptionWasRead, ListFollowsOrder
<1> QED BY <1>3, <1>4 DEF BootInv

\* The buffer of BootOrder is held from here, unless the variable is absent.
LEMMA QueryOrderKeeps == BootInv /\ QueryOrder => BootInv'
<1> SUFFICES ASSUME BootInv, QueryOrder
             PROVE  BootInv'
  OBVIOUS
<1>1. /\ UNCHANGED <<bootOrder, optionSize, bootNext, written, writes, gop, cursor>>
      /\ UNCHANGED <<order, index, size>>
      /\ UNCHANGED <<options, described, selected, highlighted>>
      /\ pc = "order"
      /\ \/ pc' = "getorder" /\ count' = Len(bootOrder) /\ pool' = pool \cup {"BootOrder"}
         \/ pc' = "empty" /\ UNCHANGED <<count, pool>>
  BY DEF QueryOrder, Go, store, loader, menu
<1>2. count' \in 0 .. MaxOrder
  BY <1>1 DEF BootInv, TypeOK
<1>3. TypeOK'
  BY <1>1, <1>2 DEF BootInv, TypeOK
<1>4. /\ PoolKnown' /\ OrderKnown' /\ SelectionKnown' /\ BootNextKnown'
      /\ DescriptionWasRead' /\ ListFollowsOrder'
  BY <1>1 DEF BootInv, PoolKnown, OrderKnown, SelectionKnown, BootNextKnown,
              BootNextIsHighlighted, DescriptionWasRead, ListFollowsOrder
<1> QED BY <1>3, <1>4 DEF BootInv

\* The loop begins with an empty list, and with count as the second call
\* left it.
LEMMA ReadOrderKeeps == BootInv /\ ReadOrder => BootInv'
<1> SUFFICES ASSUME BootInv, ReadOrder
             PROVE  BootInv'
  OBVIOUS
<1>1. /\ UNCHANGED <<bootOrder, optionSize, bootNext, written, writes, gop, cursor, size>>
      /\ UNCHANGED <<options, described, selected, highlighted>>
      /\ pc = "getorder"
      /\ \/ /\ pc' = "option" /\ UNCHANGED pool
            /\ order' = bootOrder /\ count' = Len(bootOrder) /\ index' = 1
         \/ pc' = "empty" /\ pool' = pool \ {"BootOrder"} /\ UNCHANGED <<order, count, index>>
  BY DEF ReadOrder, ReadCount, PoolAfterOrderError, Go, store, loader, menu
<1>2. /\ order' \in Seq(Numbers) /\ count' \in 0 .. MaxOrder /\ index' \in 1 .. MaxOptions + 1
      /\ pc' = "option" => index' <= count' + 1 /\ Len(options') < index'
  BY <1>1, BoundAssumption DEF BootInv, TypeOK, SelectionKnown
<1>3. TypeOK'
  BY <1>1, <1>2 DEF BootInv, TypeOK
<1>4. PoolKnown' /\ OrderKnown' /\ SelectionKnown' /\ BootNextKnown' /\ DescriptionWasRead'
  BY <1>1, <1>2 DEF BootInv, PoolKnown, OrderKnown, SelectionKnown, BootNextKnown,
                    BootNextIsHighlighted, DescriptionWasRead
<1>5. ListFollowsOrder'
  <2>1. options' = <<>> /\ 1 .. Len(options') = {}
    BY <1>1 DEF BootInv, SelectionKnown
  <2>2. PICK at : at = [k \in 1 .. Len(options') |-> 1]
    OBVIOUS
  <2>3. at \in [1 .. Len(options') -> 1 .. index' - 1]
    BY <2>1, <2>2
  <2>4. ListedFrom(at)'
    BY <2>1, <2>3 DEF ListedFrom
  <2> QED BY <2>4, ListStaysKnown
<1> QED BY <1>3, <1>4, <1>5 DEF BootInv

\* The size query of an option: OptionData is held, or the entry is passed over.
LEMMA QueryOptionKeeps == BootInv /\ QueryOption => BootInv'
<1> SUFFICES ASSUME BootInv, QueryOption
             PROVE  BootInv'
  OBVIOUS
<1>1. /\ UNCHANGED <<bootOrder, optionSize, bootNext, written, writes, gop, cursor, order, count>>
      /\ UNCHANGED <<options, described, selected, highlighted>>
      /\ pc = "option" /\ MoreOptions
      /\ \/ /\ pc' = "getoption" /\ size' = optionSize[order[index]]
            /\ pool' = pool \cup {"OptionData"} /\ UNCHANGED index
         \/ pc' = "option" /\ index' = index + 1 /\ UNCHANGED <<size, pool>>
  BY DEF QueryOption, Go, store, menu
<1>2. /\ index \in 1 .. count /\ count = Len(order) /\ order \in Seq(Numbers)
      /\ index' \in 1 .. MaxOptions + 1 /\ index' <= count + 1 /\ Len(options) < index'
  BY <1>1, BoundAssumption DEF BootInv, TypeOK, OrderKnown, MoreOptions
<1>3. size' \in Nat
  <2>1. order[index] \in Numbers
    BY <1>2
  <2> QED BY <1>1, <2>1, SizeAssumption DEF BootInv, TypeOK
<1>4. TypeOK'
  BY <1>1, <1>2, <1>3 DEF BootInv, TypeOK
<1>5. PoolKnown' /\ SelectionKnown' /\ BootNextKnown' /\ DescriptionWasRead'
  BY <1>1 DEF BootInv, PoolKnown, SelectionKnown, BootNextKnown, BootNextIsHighlighted,
              DescriptionWasRead
<1>6. OrderKnown'
  BY <1>1, <1>2 DEF BootInv, OrderKnown, MoreOptions
<1>7. PICK at : ListedFrom(at)
  BY <1>1, ListIsKnown
<1>8. ListFollowsOrder'
  BY <1>1, <1>7, PassedOverFollows, ListStaysKnown DEF BootInv
<1> QED BY <1>4, <1>5, <1>6, <1>8 DEF BootInv

\* The option is appended with its description, or passed over, and
\* OptionData is freed.
LEMMA ReadOptionKeeps == BootInv /\ ReadOption => BootInv'
<1> SUFFICES ASSUME BootInv, ReadOption
             PROVE  BootInv'
  OBVIOUS
<1> DEFINE n == order[index]
           d == optionSize[n] - HeaderSize
<1>1. /\ UNCHANGED <<bootOrder, optionSize, bootNext, written, writes, gop, cursor>>
      /\ UNCHANGED <<order, count, size>>
      /\ UNCHANGED <<selected, highlighted>>
      /\ pc = "getoption" /\ pc' = "option"
      /\ pool' = pool \ {"OptionData"} /\ index' = index + 1
      /\ \/ /\ Usable(n, size)
            /\ options' = Append(options, n) /\ described' = Append(described, d)
         \/ UNCHANGED <<options, described>>
  BY DEF ReadOption, PoolAfterOption, Go, store
<1>2. /\ index \in 1 .. count /\ index <= MaxOptions /\ count = Len(order)
      /\ order \in Seq(Numbers) /\ n \in Numbers
      /\ index' \in 1 .. MaxOptions + 1 /\ index' <= count + 1
  BY <1>1, BoundAssumption DEF BootInv, TypeOK, OrderKnown, MoreOptions
<1>3. /\ Len(options) \in Nat /\ Len(options) < index /\ Len(options) <= MaxOptions
      /\ index \in Nat /\ MaxOptions \in Nat /\ options \in Seq(Numbers)
      /\ described \in Seq(Nat) /\ Len(described) = Len(options)
  BY <1>1, <1>2, BoundAssumption DEF BootInv, TypeOK, OrderKnown
<1>4. PICK at : ListedFrom(at)
  BY <1>1, ListIsKnown
<1>5. /\ options' \in Seq(Numbers) /\ described' \in Seq(Nat)
      /\ Len(described') = Len(options') /\ Len(options') \in {Len(options), Len(options) + 1}
      /\ DescriptionWasRead' /\ \E new : ListedFrom(new)'
  <2>1. CASE Usable(n, size) /\ options' = Append(options, n) /\ described' = Append(described, d)
    <3>1. d \in Nat /\ d > 0
      <4>1. optionSize[n] \in Nat /\ size \in Nat
        BY <1>2, SizeAssumption DEF BootInv, TypeOK
      <4> QED BY <2>1, <4>1 DEF Usable, HeaderSize
    <3> HIDE DEF d
    <3>2. /\ options' \in Seq(Numbers) /\ Len(options') = Len(options) + 1
          /\ described' \in Seq(Nat) /\ Len(described') = Len(options) + 1
          /\ described'[Len(options) + 1] = d
          /\ \A k \in 1 .. Len(options) : described'[k] = described[k]
      BY <1>2, <1>3, <2>1, <3>1, AppendProperties
    <3>3. ASSUME NEW k \in DOMAIN options'
          PROVE  described'[k] > 0
      <4>1. k \in 1 .. Len(options) + 1
        BY <3>2, LenProperties
      <4>2. CASE k = Len(options) + 1
        BY <3>1, <3>2, <4>2
      <4>3. CASE k # Len(options) + 1
        <5>1. k \in 1 .. Len(options) /\ k \in DOMAIN options
          BY <1>3, <4>1, <4>3, LenProperties
        <5> QED BY <3>2, <5>1 DEF BootInv, DescriptionWasRead
      <4> QED BY <4>2, <4>3
    <3>4. \E new : ListedFrom(new)'
      BY <1>1, <1>2, <1>4, <2>1, AppendedFollows DEF BootInv
    <3> QED BY <3>2, <3>3, <3>4 DEF DescriptionWasRead
  <2>2. CASE UNCHANGED <<options, described>>
    BY <1>1, <1>3, <1>4, <2>2, PassedOverFollows DEF BootInv, DescriptionWasRead
  <2> QED BY <1>1, <2>1, <2>2
<1>6. Len(options') < index' /\ Len(options') <= MaxOptions
  <2>1. index' = index + 1
    BY <1>1
  <2>2. CASE Len(options') = Len(options)
    BY <1>2, <1>3, <2>1, <2>2
  <2>3. CASE Len(options') = Len(options) + 1
    BY <1>2, <1>3, <2>1, <2>3
  <2> QED BY <1>5, <2>2, <2>3
<1>7. TypeOK'
  BY <1>1, <1>2, <1>5, <1>6 DEF BootInv, TypeOK
<1>8. PoolKnown' /\ SelectionKnown' /\ BootNextKnown'
  BY <1>1 DEF BootInv, PoolKnown, SelectionKnown, BootNextKnown, BootNextIsHighlighted
<1>9. OrderKnown'
  BY <1>1, <1>2, <1>6 DEF BootInv, OrderKnown
<1> QED BY <1>5, <1>7, <1>8, <1>9, ListStaysKnown DEF BootInv

\* The list is final; with an entry in it the first line is selected.
LEMMA LoadEndsKeeps == BootInv /\ LoadEnds => BootInv'
<1> SUFFICES ASSUME BootInv, LoadEnds
             PROVE  BootInv'
  OBVIOUS
<1>1. /\ UNCHANGED <<bootOrder, optionSize, bootNext, written, writes, gop, cursor>>
      /\ UNCHANGED <<order, count, index>>
      /\ UNCHANGED <<size, options, described, selected, highlighted>>
      /\ pc = "option" /\ pc' = IF options = <<>> THEN "empty" ELSE "draw"
      /\ pool' = pool \ {"BootOrder"}
  BY DEF LoadEnds, Go, store, menu
<1>2. TypeOK'
  BY <1>1 DEF BootInv, TypeOK
<1>3. PoolKnown' /\ OrderKnown' /\ BootNextKnown' /\ DescriptionWasRead'
  BY <1>1 DEF BootInv, PoolKnown, OrderKnown, BootNextKnown, BootNextIsHighlighted,
              DescriptionWasRead
<1>4. SelectionKnown'
  <2>1. options # <<>> => 0 < Len(options)
    BY DEF BootInv, TypeOK
  <2> QED BY <1>1, <2>1 DEF BootInv, SelectionKnown
<1>5. ListFollowsOrder'
  BY <1>1 DEF BootInv, ListFollowsOrder
<1> QED BY <1>2, <1>3, <1>4, <1>5 DEF BootInv

\* The steps of the menu that leave everything but the label alone.
LEMMA MenuKeeps == BootInv /\ (Empty \/ ResetSystem) => BootInv'
<1> SUFFICES ASSUME BootInv, Empty \/ ResetSystem
             PROVE  BootInv'
  OBVIOUS
<1>1. /\ UNCHANGED <<bootOrder, optionSize, bootNext, written, writes, gop, cursor, order, count>>
      /\ UNCHANGED <<index, size, pool, options, described, selected, highlighted>>
      /\ <<pc, pc'>> \in {<<"empty", "exit">>, <<"reset", "booted">>}
  BY DEF Empty, ResetSystem, Go, store, loader, menu
<1>2. TypeOK'
  BY <1>1 DEF BootInv, TypeOK
<1>3. PoolKnown' /\ OrderKnown' /\ SelectionKnown' /\ BootNextKnown'
  BY <1>1 DEF BootInv, PoolKnown, OrderKnown, SelectionKnown, BootNextKnown, BootNextIsHighlighted
<1>4. DescriptionWasRead' /\ ListFollowsOrder'
  BY <1>1 DEF BootInv, DescriptionWasRead, ListFollowsOrder
<1> QED BY <1>2, <1>3, <1>4 DEF BootInv

\* Drawing highlights the selected line, before any key is awaited.
LEMMA DrawKeeps == BootInv /\ DrawMenu => BootInv'
<1> SUFFICES ASSUME BootInv, DrawMenu
             PROVE  BootInv'
  OBVIOUS
<1>1. /\ UNCHANGED <<bootOrder, optionSize, bootNext, written, writes, gop, cursor, order, count>>
      /\ UNCHANGED <<index, size, pool, options, described, selected>>
      /\ pc = "draw" /\ ~written
      /\ \/ pc' = "key" /\ highlighted' = Highlighted
         \/ pc' = "crashed" /\ UNCHANGED highlighted
  BY DEF DrawMenu, Go, store, loader, BootInv, BootNextKnown
<1>2. /\ selected + 1 \in DOMAIN options /\ options[selected + 1] \in Numbers
  BY <1>1, BoundAssumption DEF BootInv, TypeOK, SelectionKnown
<1>3. Highlighted = {options[selected + 1]}
  BY <1>2 DEF Highlighted
<1>4. highlighted' \subseteq Numbers /\ (pc' = "key" => highlighted' = {options[selected + 1]})
  BY <1>1, <1>2, <1>3 DEF BootInv, TypeOK
<1>5. TypeOK'
  BY <1>1, <1>4 DEF BootInv, TypeOK
<1>6. PoolKnown' /\ OrderKnown' /\ SelectionKnown'
  BY <1>1 DEF BootInv, PoolKnown, OrderKnown, SelectionKnown
<1>7. BootNextKnown'
  BY <1>1, <1>4 DEF BootNextKnown, BootNextIsHighlighted
<1>8. DescriptionWasRead' /\ ListFollowsOrder'
  BY <1>1 DEF BootInv, DescriptionWasRead, ListFollowsOrder
<1> QED BY <1>5, <1>6, <1>7, <1>8 DEF BootInv

\* No key takes the selection off the list, and a key that moves it makes the
\* menu be drawn again.
LEMMA KeyKeeps == BootInv /\ Key => BootInv'
<1> SUFFICES ASSUME BootInv, Key
             PROVE  BootInv'
  OBVIOUS
<1>1. /\ UNCHANGED <<bootOrder, optionSize, bootNext, written, writes, gop, order, count, index>>
      /\ UNCHANGED <<size, pool, options, described, highlighted>>
      /\ cursor' \in BOOLEAN /\ pc = "key"
  BY DEF Key, KeyMoves, KeyEscape, KeyEnter, Go, store, loader, menu, BootInv, TypeOK
<1>2. selected \in Nat /\ selected < Len(options) /\ Len(options) \in Nat /\ Len(options) <= MaxOptions
  BY <1>1, BoundAssumption DEF BootInv, TypeOK, SelectionKnown
<1>3. /\ pc' \in {"draw", "exit", "bootnext"} /\ (pc' = "bootnext" => selected' = selected)
      /\ selected' \in 0 .. MaxOptions /\ selected' < Len(options)
  <2>1. CASE KeyMoves
    <3>1. pc' = "draw" /\ selected' \in {AfterUp(selected), AfterDown(selected), selected}
      BY <2>1 DEF KeyMoves, AfterKey, Go
    <3>2. selected' \in 0 .. MaxOptions /\ selected' < Len(options)
      BY <1>2, <3>1, BoundAssumption DEF AfterUp, AfterDown
    <3> QED BY <3>1, <3>2
  <2>2. CASE KeyEscape
    BY <1>2, <2>2, BoundAssumption DEF KeyEscape, Go, menu
  <2>3. CASE KeyEnter
    BY <1>2, <2>3, BoundAssumption DEF KeyEnter, SelectionValid, AfterKey, Go, menu
  <2> QED BY <2>1, <2>2, <2>3 DEF Key
<1>4. TypeOK'
  BY <1>1, <1>3 DEF BootInv, TypeOK
<1>5. PoolKnown' /\ OrderKnown' /\ SelectionKnown'
  BY <1>1, <1>3 DEF BootInv, PoolKnown, OrderKnown, SelectionKnown
<1>6. BootNextKnown'
  BY <1>1, <1>3 DEF BootInv, BootNextKnown, BootNextIsHighlighted
<1>7. DescriptionWasRead' /\ ListFollowsOrder'
  BY <1>1, <1>3 DEF BootInv, DescriptionWasRead, ListFollowsOrder
<1> QED BY <1>4, <1>5, <1>6, <1>7 DEF BootInv

\* What SetVariable stores is the highlighted line; after an error BootNext is
\* as it was, and not what the menu stored.
LEMMA SetBootNextKeeps == BootInv /\ SetBootNext => BootInv'
<1> SUFFICES ASSUME BootInv, SetBootNext
             PROVE  BootInv'
  OBVIOUS
<1>1. /\ UNCHANGED <<bootOrder, optionSize, writes, gop, cursor, order, count, index>>
      /\ UNCHANGED <<size, pool, options, described, selected, highlighted>>
      /\ pc = "bootnext" /\ pc' = "reset" /\ ~written /\ highlighted = {options[selected + 1]}
      /\ \/ bootNext' = {options[selected + 1]} /\ written' = TRUE
         \/ UNCHANGED <<bootNext, written>>
  BY DEF SetBootNext, Go, loader, menu, BootInv, BootNextKnown
<1>2. bootNext' \in NextValues /\ written' \in BOOLEAN
  <2>1. options[selected + 1] \in Numbers
    BY <1>1, BoundAssumption DEF BootInv, TypeOK, SelectionKnown
  <2> QED BY <1>1, <2>1 DEF BootInv, TypeOK, NextValues
<1>3. TypeOK'
  BY <1>1, <1>2 DEF BootInv, TypeOK
<1>4. PoolKnown' /\ OrderKnown' /\ SelectionKnown'
  BY <1>1 DEF BootInv, PoolKnown, OrderKnown, SelectionKnown
<1>5. BootNextKnown'
  BY <1>1 DEF BootNextKnown, BootNextIsHighlighted
<1>6. DescriptionWasRead' /\ ListFollowsOrder'
  BY <1>1 DEF BootInv, DescriptionWasRead, ListFollowsOrder
<1> QED BY <1>3, <1>4, <1>5, <1>6 DEF BootInv

\* Other components write the variables, and nothing else.
LEMMA OthersKeep == BootInv /\ Others => BootInv'
<1> SUFFICES ASSUME BootInv, Others
             PROVE  BootInv'
  OBVIOUS
<1>1. /\ UNCHANGED <<gop, cursor, pc, order, count, index, size, pool>>
      /\ UNCHANGED <<options, described, selected, highlighted>>
      /\ writes < MaxWrites /\ writes' = writes + 1
      /\ bootOrder' = bootOrder \/ bootOrder' \in Orders
      /\ \/ UNCHANGED optionSize
         \/ \E n \in Numbers, s \in Sizes : optionSize' = [optionSize EXCEPT ![n] = s]
      /\ \/ UNCHANGED <<bootNext, written>>
         \/ bootNext' \in NextValues /\ written' = FALSE
  BY DEF Others, WriteOrder, WriteOption, WriteNext, loader, menu
<1>2. /\ writes' \in 0 .. MaxWrites /\ optionSize' \in [Numbers -> Sizes]
      /\ bootOrder' \in Seq(Numbers) /\ Len(bootOrder') <= MaxOrder
      /\ bootNext' \in NextValues /\ written' \in BOOLEAN
  <2>1. writes' \in 0 .. MaxWrites
    BY <1>1, BoundAssumption DEF BootInv, TypeOK
  <2>2. optionSize' \in [Numbers -> Sizes]
    BY <1>1 DEF BootInv, TypeOK
  <2>3. bootOrder' \in Seq(Numbers) /\ Len(bootOrder') <= MaxOrder
    BY <1>1, OrdersAreSequences DEF BootInv, TypeOK
  <2>4. bootNext' \in NextValues /\ written' \in BOOLEAN
    BY <1>1 DEF BootInv, TypeOK
  <2> QED BY <2>1, <2>2, <2>3, <2>4
<1>3. TypeOK'
  BY <1>1, <1>2 DEF BootInv, TypeOK
<1>4. PoolKnown' /\ OrderKnown' /\ SelectionKnown'
  BY <1>1 DEF BootInv, PoolKnown, OrderKnown, MoreOptions, SelectionKnown
<1>5. BootNextKnown'
  BY <1>1 DEF BootInv, BootNextKnown, BootNextIsHighlighted
<1>6. DescriptionWasRead' /\ ListFollowsOrder'
  BY <1>1 DEF BootInv, DescriptionWasRead, ListFollowsOrder
<1> QED BY <1>3, <1>4, <1>5, <1>6 DEF BootInv

\* BootInv holds in every reachable state.
LEMMA BootInvariance == Spec => []BootInv
<1>1. BootInv /\ UNCHANGED vars => BootInv'
  <2> SUFFICES ASSUME BootInv, UNCHANGED vars
               PROVE  BootInv'
    OBVIOUS
  <2>1. /\ UNCHANGED <<bootOrder, optionSize, bootNext, written, writes, gop, cursor, pc>>
        /\ UNCHANGED <<order, count, index, size, pool, options, described, selected, highlighted>>
    BY DEF vars, store, loader, menu
  <2>2. TypeOK'
    BY <2>1 DEF BootInv, TypeOK
  <2>3. PoolKnown' /\ OrderKnown' /\ SelectionKnown' /\ BootNextKnown' /\ DescriptionWasRead'
    BY <2>1 DEF BootInv, PoolKnown, OrderKnown, MoreOptions, SelectionKnown, BootNextKnown,
                BootNextIsHighlighted, DescriptionWasRead
  <2>4. ListFollowsOrder'
    BY <2>1 DEF BootInv, ListFollowsOrder
  <2> QED BY <2>2, <2>3, <2>4 DEF BootInv
<1>2. BootInv /\ [Next]_vars => BootInv'
  BY <1>1, StartKeeps, QueryOrderKeeps, ReadOrderKeeps, QueryOptionKeeps, ReadOptionKeeps,
     LoadEndsKeeps, MenuKeeps, DrawKeeps, KeyKeeps, SetBootNextKeeps, OthersKeep
  DEF Next, Application, Load
<1> QED BY <1>2, BootInitially, PTL DEF Spec

--------------------------------------------------------------------------------
(* The properties.                                                         *)

\* Every variable keeps its type: the list never outgrows the menu's array.
THEOREM BootTypeCorrect == Spec => []TypeOK
BY BootInvariance, PTL DEF BootInv

\* No key moves the selection off the list, and no list is empty.
THEOREM SelectionStaysInRange == Spec => []SelectionInRange
<1>1. BootInv => SelectionInRange
  BY DEF BootInv, SelectionKnown, SelectionInRange, SelectionValid
<1> QED BY <1>1, BootInvariance, PTL

\* The loop never reads behind the entries it read, however BootOrder changed
\* since its size was asked for.
THEOREM LoopReadsInside == Spec => []ReadsInsideBuffer
<1>1. BootInv => ReadsInsideBuffer
  BY DEF BootInv, OrderKnown, MoreOptions, ReadsInsideBuffer
<1> QED BY <1>1, BootInvariance, PTL

\* The menu is a subsequence of BootOrder as it was read.
THEOREM ListIsFromOrder == Spec => []ListFollowsOrder
BY BootInvariance, PTL DEF BootInv

\* No path leaves a buffer of the loader allocated.
THEOREM LoaderFreesBuffers == Spec => []BuffersFreed
<1>1. BootInv => BuffersFreed
  BY DEF BootInv, PoolKnown, BuffersFreed
<1> QED BY <1>1, BootInvariance, PTL

\* Every line has a description that was really read, whatever became of the
\* option between the query of its size and the read.
THEOREM DescriptionsAreRead == Spec => []DescriptionWasRead
BY BootInvariance, PTL DEF BootInv

\* What the menu stores in BootNext is the option of the highlighted line, for
\* any number of options and any sequence of keys.
THEOREM BootsTheHighlightedLine == Spec => []BootNextIsHighlighted
<1>1. BootInv => BootNextIsHighlighted
  BY DEF BootInv, BootNextKnown
<1> QED BY <1>1, BootInvariance, PTL
================================================================================
