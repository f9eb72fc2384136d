-------------------------------- MODULE BootMenu --------------------------------
(***************************************************************************)
(* BootMenu.c: the menu application over the firmware's variable store.    *)
(*                                                                         *)
(* LoadBootOptions reads BootOrder and then every Boot#### it names, each  *)
(* with two GetVariable calls: one for the size, one for the data.  Between *)
(* any two services another component may write the same variables, so the *)
(* size of the first call may be wrong for the second.  The menu then lets *)
(* the user pick an option, writes BootNext and resets the system; the     *)
(* boot manager of the firmware takes over.  BootNext may be set before    *)
(* the menu starts, and others write it too.                               *)
(*                                                                         *)
(* The store holds sizes and numbers, not bytes: a variable of size 0 does *)
(* not exist, and an option is usable when it is longer than HeaderSize.   *)
(***************************************************************************)
EXTENDS Integers, Sequences, SequencesExt

CONSTANTS
    Numbers,       \* option numbers in use
    Sizes,         \* sizes an option variable can have; 0 means absent
    MaxOptions,    \* MAX_BOOT_OPTIONS
    MaxOrder,      \* bound on the length of BootOrder
    MaxWrites      \* bound on the writes of other components

\* sizeof(UINT32) + sizeof(UINT16): what an option is longer than.
HeaderSize == 6

ASSUME SizeAssumption == Sizes \subseteq Nat
ASSUME BoundAssumption == MaxOptions \in Nat \ {0} /\ MaxOrder \in Nat /\ MaxWrites \in Nat

VARIABLES
    bootOrder,    \* the variable BootOrder, a sequence of option numbers
    optionSize,   \* optionSize[n]: the size of the variable Boot<n>
    bootNext,     \* the variable BootNext: a set of at most one number
    written,      \* BootNext is what the menu stored in it
    writes,       \* writes of other components so far
    gop,          \* the Graphics Output Protocol was found
    cursor,       \* the text cursor is visible
    pc,           \* where the application, or after it the firmware, is
    order,        \* the BootOrder buffer
    count,        \* the entries the application takes the buffer to hold
    index,        \* loop index of LoadBootOptions
    size,         \* the size the last query returned
    pool,         \* buffers allocated and not freed
    options,      \* State->Options, the first OptionCount entries
    described,    \* described[k]: bytes read of the description of line k
    selected,     \* State->SelectedIndex
    highlighted   \* the option on the line the screen shows as selected

store == <<bootOrder, optionSize, bootNext, written, writes>>
loader == <<order, count, index, size, pool>>
menu == <<options, described, selected, highlighted>>
vars == <<store, gop, cursor, pc, loader, menu>>

Orders == BoundedSeq(Numbers, MaxOrder)

\* BootNext does not exist, or holds one option number.
NextValues == {{}} \cup {{n} : n \in Numbers}

TypeOK ==
    /\ bootOrder \in Seq(Numbers) /\ Len(bootOrder) <= MaxOrder
    /\ optionSize \in [Numbers -> Sizes]
    /\ bootNext \in NextValues /\ written \in BOOLEAN
    /\ writes \in 0 .. MaxWrites
    /\ gop \in BOOLEAN /\ cursor \in BOOLEAN
    /\ pc \in {"start", "order", "getorder", "option", "getoption", "draw", "key",
               "bootnext", "reset", "empty", "exit", "crashed", "booted"}
    /\ order \in Seq(Numbers)
    /\ count \in 0 .. MaxOrder
    /\ index \in 1 .. MaxOptions + 1
    /\ size \in Nat
    /\ pool \subseteq {"BootOrder", "OptionData"}
    /\ options \in Seq(Numbers) /\ Len(options) <= MaxOptions
    /\ described \in Seq(Nat) /\ Len(described) = Len(options)
    /\ selected \in 0 .. MaxOptions
    /\ highlighted \subseteq Numbers

--------------------------------------------------------------------------------
(* Another component writes the store.                                     *)

WriteOrder(o) ==
    /\ writes < MaxWrites /\ pc \notin {"booted", "exit", "crashed"}
    /\ writes' = writes + 1
    /\ bootOrder' = o
    /\ UNCHANGED <<optionSize, bootNext, written, gop, cursor, pc, loader, menu>>

WriteOption(n, s) ==
    /\ writes < MaxWrites /\ pc \notin {"booted", "exit", "crashed"}
    /\ writes' = writes + 1
    /\ optionSize' = [optionSize EXCEPT ![n] = s]
    /\ UNCHANGED <<bootOrder, bootNext, written, gop, cursor, pc, loader, menu>>

WriteNext(b) ==
    /\ writes < MaxWrites /\ pc \notin {"booted", "exit", "crashed"}
    /\ writes' = writes + 1
    /\ bootNext' = b /\ written' = FALSE
    /\ UNCHANGED <<bootOrder, optionSize, gop, cursor, pc, loader, menu>>

--------------------------------------------------------------------------------
(* LoadBootOptions.                                                        *)

Go(from, to) == pc = from /\ pc' = to

\* BootMenuMain up to the load: the graphics protocol is looked for, and the
\* cursor goes off.
Start ==
    /\ Go("start", "order")
    /\ gop' \in BOOLEAN
    /\ cursor' = FALSE
    /\ options' = <<>> /\ described' = <<>>
    /\ UNCHANGED <<store, loader, selected, highlighted>>

\* The size query of BootOrder and the allocation of its buffer.
QueryOrder ==
    \/ /\ Go("order", "getorder")
       /\ bootOrder # <<>>
       /\ count' = Len(bootOrder)
       /\ pool' = pool \cup {"BootOrder"}
       /\ UNCHANGED <<store, gop, cursor, order, index, size, menu>>
    \/ /\ Go("order", "empty")
       /\ UNCHANGED <<store, gop, cursor, loader, menu>>

\* The pool after a failed second read of BootOrder.
KeepsOrderBuffer == pool
PoolAfterOrderError == pool \ {"BootOrder"}

\* The entries the loop goes through: the size as the second call left it.
QueriedCount == count
ReadCount == Len(bootOrder)

\* The second call: it fails when the variable is gone or has grown, and may
\* fail for any other reason.
ReadOrder ==
    \/ /\ Go("getorder", "option")
       /\ bootOrder # <<>> /\ Len(bootOrder) <= count
       /\ order' = bootOrder
       /\ count' = ReadCount
       /\ index' = 1
       /\ UNCHANGED <<store, gop, cursor, size, pool, menu>>
    \/ /\ Go("getorder", "empty")
       /\ pool' = PoolAfterOrderError
       /\ UNCHANGED <<store, gop, cursor, order, count, index, size, menu>>

\* The loop's condition.
WithinOrder == index <= count
MoreOptions == index <= count /\ index <= MaxOptions

\* The size query of Boot#### and the allocation of OptionData; when either
\* fails the loop continues with the next entry.
QueryOption ==
    /\ MoreOptions
    /\ LET n == order[index] IN
         \/ /\ Go("option", "getoption")
            /\ optionSize[n] # 0
            /\ size' = optionSize[n]
            /\ pool' = pool \cup {"OptionData"}
            /\ UNCHANGED index
         \/ /\ Go("option", "option")
            /\ index' = index + 1
            /\ UNCHANGED <<size, pool>>
    /\ UNCHANGED <<store, gop, cursor, order, count, menu>>

\* An option read into a buffer of s bytes can be listed: the second call
\* returned data, and its size as that call left it is more than the header.
UsableAsQueried(n, s) == s > HeaderSize /\ optionSize[n] \in 1 .. s
Usable(n, s) == optionSize[n] \in HeaderSize + 1 .. s

\* The pool after an option has been handled.
KeepsOptionData == pool
PoolAfterOption == pool \ {"OptionData"}

\* The second call: a usable option is appended, unless the call fails.
\* OptionData is freed in every case.
ReadOption ==
    /\ Go("getoption", "option")
    /\ LET n == order[index] IN
         \/ /\ Usable(n, size)
            /\ options' = Append(options, n)
            /\ described' = Append(described, optionSize[n] - HeaderSize)
         \/ UNCHANGED <<options, described>>
    /\ pool' = PoolAfterOption
    /\ index' = index + 1
    /\ UNCHANGED <<store, gop, cursor, order, count, size, selected, highlighted>>

\* After the loop BootOrder is freed; with no option the menu is not shown.
LoadEnds ==
    /\ Go("option", IF options = <<>> THEN "empty" ELSE "draw")
    /\ ~MoreOptions
    /\ pool' = pool \ {"BootOrder"}
    /\ UNCHANGED <<store, gop, cursor, order, count, index, size, menu>>

--------------------------------------------------------------------------------
(* The menu.                                                               *)

\* A message, a key, and the application returns EFI_NOT_FOUND.
Empty ==
    /\ Go("empty", "exit")
    /\ UNCHANGED <<store, gop, cursor, loader, menu>>

\* The option on the line that DrawMenu highlights.
Highlighted == {options[k] : k \in {selected + 1} \cap DOMAIN options}

\* DrawMenu fills the screen through State->Gop whether or not it was found,
\* then shows the options, the selected one highlighted.
DrawMenu ==
    /\ \/ Go("draw", "key") /\ gop /\ highlighted' = Highlighted
       \/ Go("draw", "crashed") /\ ~gop /\ UNCHANGED highlighted
    /\ UNCHANGED <<store, gop, cursor, loader, options, described, selected>>

\* The selection after the UP and DOWN keys.
AfterUp(s) == IF s > 0 THEN s - 1 ELSE s
DownToCount(s) == IF s < Len(options) THEN s + 1 ELSE s
AfterDown(s) == IF s < Len(options) - 1 THEN s + 1 ELSE s

\* Where the loop goes on after a key: the menu is drawn in every pass.
DrawnOnce == "key"
AfterKey == "draw"

\* UP, DOWN, and any other key or a failed read, which changes nothing.
KeyMoves ==
    /\ Go("key", AfterKey)
    /\ selected' \in {AfterUp(selected), AfterDown(selected), selected}
    /\ UNCHANGED <<store, gop, cursor, loader, options, described, highlighted>>

KeyEscape ==
    /\ Go("key", "exit")
    /\ cursor' = TRUE
    /\ UNCHANGED <<store, gop, loader, menu>>

\* BootSelectedOption refuses a selection outside the list.
SelectionValid == selected < Len(options)

\* ENTER: the option of the selected line is to be booted.
KeyEnter ==
    /\ Go("key", IF SelectionValid THEN "bootnext" ELSE AfterKey)
    /\ UNCHANGED <<store, gop, cursor, loader, menu>>

\* SetVariable(BootNext).  Its status is not looked at: after an error the
\* reset follows too, with BootNext as it was.
SetBootNext ==
    /\ Go("bootnext", "reset")
    /\ \/ bootNext' = {options[selected + 1]} /\ written' = TRUE
       \/ UNCHANGED <<bootNext, written>>
    /\ UNCHANGED <<bootOrder, optionSize, writes, gop, cursor, loader, menu>>

\* ResetSystem does not return.  The boot manager consumes BootNext.
ResetSystem ==
    /\ Go("reset", "booted")
    /\ UNCHANGED <<store, gop, cursor, loader, menu>>

--------------------------------------------------------------------------------
Init ==
    /\ bootOrder \in Orders
    /\ optionSize \in [Numbers -> Sizes]
    /\ bootNext \in NextValues /\ written = FALSE
    /\ writes = 0
    /\ gop = FALSE /\ cursor = TRUE
    /\ pc = "start"
    /\ order = <<>> /\ count = 0 /\ index = 1 /\ size = 0 /\ pool = {}
    /\ options = <<>> /\ described = <<>> /\ selected = 0 /\ highlighted = {}

Load == QueryOrder \/ ReadOrder \/ QueryOption \/ ReadOption \/ LoadEnds
Key == KeyMoves \/ KeyEscape \/ KeyEnter
Application ==
    Start \/ Load \/ Empty \/ DrawMenu \/ Key \/ SetBootNext \/ ResetSystem
Others ==
    \/ \E o \in Orders : WriteOrder(o)
    \/ \E n \in Numbers, s \in Sizes : WriteOption(n, s)
    \/ \E b \in NextValues : WriteNext(b)

Next == Application \/ Others

Spec == Init /\ [][Next]_vars

--------------------------------------------------------------------------------
(* Properties.                                                             *)

\* In the menu the selection is a line of the list.
SelectionInRange == pc \in {"draw", "key", "bootnext", "reset"} => SelectionValid

\* The loop reads only entries that the second call stored in the buffer,
\* even when BootOrder shrank after the size query.
ReadsInsideBuffer ==
    pc \in {"option", "getoption"} /\ MoreOptions => index <= Len(order)

\* The list is BootOrder as it was read, in its order, without the entries
\* that were passed over: line k of the menu is entry at[k].  No entry is
\* listed twice, and entries beyond MAX_BOOT_OPTIONS are not looked at.
ListFollowsOrder ==
    pc \in {"option", "getoption", "draw", "key"} =>
        \E at \in [1 .. Len(options) -> 1 .. index - 1] :
            /\ \A j, k \in 1 .. Len(options) : j < k => at[j] < at[k]
            /\ \A k \in 1 .. Len(options) :
                 /\ at[k] <= MaxOptions
                 /\ options[k] = order[at[k]]

\* Every line of the menu shows a description the second call stored: an
\* option that shrank to its header between the two calls is passed over,
\* although the buffer is as large as the option was.
DescriptionWasRead == \A k \in DOMAIN options : described[k] > 0

\* No buffer of the loader survives it, on any path.
BuffersFreed == pc \in {"empty", "draw", "key", "exit"} => pool = {}

\* What the menu stores in BootNext is the option of the line that the user
\* saw highlighted when the key was pressed, after any sequence of keys and
\* failed reads.  Nothing is claimed of a BootNext that the menu did not store:
\* SetVariable failed, which the code ignores, or somebody else wrote it.
BootNextIsHighlighted == written => bootNext = highlighted

\* "using text mode": without graphics the menu is drawn without graphics.
TextModeWithoutGraphics == pc # "crashed"
================================================================================
