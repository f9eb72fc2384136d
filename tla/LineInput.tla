-------------------------------- MODULE LineInput --------------------------------
(***************************************************************************)
(* ConsoleExample.c: DemoTextInput, which reads one key and then a line,   *)
(* key by key, into a buffer.  WaitForEvent reports which event was        *)
(* signalled through its last argument; the line loop passes it the same   *)
(* variable, Index, that counts the characters in the buffer.              *)
(*                                                                         *)
(* Keys are classes: a printable character, BACKSPACE, ENTER, and "other"  *)
(* for what the line ignores.  A read may also find no key, when another   *)
(* reader of the console took it.                                          *)
(***************************************************************************)
EXTENDS Integers, Sequences, SequencesExt

CONSTANTS
    Chars,        \* printable characters
    LineLimit,    \* the length of the line: "up to 60 chars"
    MaxKeys       \* bound on the keys typed

\* sizeof (Buffer): room for the line, its terminator and three more.
BufferSize == LineLimit + 4

NoChar == "none"
Terminator == "nul"

VARIABLES
    pc,        \* "first" key, "wait", "read" or "done"
    index,     \* Index
    buffer,    \* Buffer[0], Buffer[1], ...
    keys,      \* keys typed so far
    line       \* the line as the user typed and corrected it

vars == <<pc, index, buffer, keys, line>>

TypeOK ==
    /\ pc \in {"first", "wait", "read", "done"}
    /\ index \in 0 .. LineLimit
    /\ buffer \in [0 .. BufferSize - 1 -> Chars \cup {NoChar, Terminator}]
    /\ keys \in 0 .. MaxKeys
    /\ line \in Seq(Chars)

--------------------------------------------------------------------------------
\* What WaitForEvent (1, ..., &Index) leaves in Index: the index of the
\* event in its list, which has one entry.
IndexAfterWait == 0

\* "Press any key to continue": an error ends the demo.
FirstKey ==
    /\ pc = "first"
    /\ pc' \in {"wait", "done"}
    /\ index' = 0
    /\ UNCHANGED <<buffer, keys, line>>

\* The loop's condition and its WaitForEvent.
WaitForKey ==
    /\ pc = "wait" /\ index < LineLimit /\ keys < MaxKeys
    /\ pc' = "read"
    /\ keys' = keys + 1
    /\ index' = IndexAfterWait
    /\ UNCHANGED <<buffer, line>>

\* ReadKeyStroke finds no key, or one the line ignores.
NoKey ==
    /\ pc = "read" /\ pc' = "wait"
    /\ UNCHANGED <<index, buffer, keys, line>>

\* A printable character is stored and counted.
Printable(c) ==
    /\ pc = "read" /\ pc' = "wait"
    /\ buffer' = [buffer EXCEPT ![index] = c]
    /\ index' = index + 1
    /\ line' = Append(line, c)
    /\ UNCHANGED keys

Backspace ==
    /\ pc = "read" /\ pc' = "wait"
    /\ index' = IF index > 0 THEN index - 1 ELSE index
    /\ line' = IF line # <<>> THEN Front(line) ELSE line
    /\ UNCHANGED <<buffer, keys>>

\* ENTER, or a full line, ends the loop; the terminator is written.
LineEnds ==
    /\ pc = "read" \/ (pc = "wait" /\ index >= LineLimit)
    /\ pc' = "done"
    /\ buffer' = [buffer EXCEPT ![index] = Terminator]
    /\ UNCHANGED <<index, keys, line>>

\* The buffer is not initialised.
Init ==
    /\ pc = "first" /\ index = 0 /\ keys = 0 /\ line = <<>>
    /\ buffer = [k \in 0 .. BufferSize - 1 |-> NoChar]

Next ==
    \/ FirstKey \/ WaitForKey \/ NoKey \/ Backspace \/ LineEnds
    \/ \E c \in Chars : Printable(c)

Spec == Init /\ [][Next]_vars

--------------------------------------------------------------------------------
\* "Read a line of text": the line in the buffer is the line that was typed.
LineIsWhatWasTyped ==
    pc = "done" /\ keys > 0 =>
        /\ index = Len(line)
        /\ buffer[index] = Terminator
        /\ \A k \in 1 .. Len(line) : buffer[k - 1] = line[k]
================================================================================
