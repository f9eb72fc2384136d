----------------------------- MODULE VariableStore -----------------------------
(***************************************************************************)
(* The variable services of the firmware, as the programs use them.        *)
(*                                                                         *)
(* GetNextVariableName walks the variables in an order of the store's own: *)
(* here a sequence of names.  A variable that is written anew may take any *)
(* place in it.  Values are left out: the programs only show them.         *)
(***************************************************************************)
EXTENDS Integers, Sequences, FiniteSets, SequencesExt

CONSTANTS
    Names,        \* names of variables
    LongNames     \* those that do not fit a name buffer of 256 characters

\* The empty string, which no variable has for its name.
NoName == ""

\* The store has room for finitely many variables.
ASSUME NameAssumption ==
    /\ IsFiniteSet(Names) /\ NoName \notin Names
    /\ LongNames \subseteq Names /\ "BootOrder" \in Names

VARIABLES
    list,         \* the names in the order of enumeration
    attr          \* attr[n]: "absent", "volatile" or "nonvolatile"

store == <<list, attr>>

Attributes == {"volatile", "nonvolatile"}
Present(n) == n \in Names /\ attr[n] # "absent"

StoreTypeOK ==
    /\ list \in Seq(Names)
    /\ attr \in [Names -> Attributes \cup {"absent"}]
    /\ ToSet(list) = {n \in Names : Present(n)}

\* No variable at all.
NoStore ==
    /\ list = <<>>
    /\ attr = [n \in Names |-> "absent"]

ForgetStore ==
    /\ list' = <<>>
    /\ attr' = [n \in Names |-> "absent"]

\* Any contents the store can have.
Orders(S) == SetToSeqs(S)
AnyStore ==
    /\ attr' \in [Names -> Attributes \cup {"absent"}]
    /\ list' \in Orders({n \in Names : attr'[n] # "absent"})

--------------------------------------------------------------------------------
\* The enumeration of the other variables, in the order it has.
Without(n) ==
    IF Present(n) THEN RemoveAt(list, CHOOSE i \in DOMAIN list : list[i] = n) ELSE list

\* SetVariable with data: refused for a variable with other attributes.
SetVariable(n, a) ==
    /\ attr[n] \in {"absent", a}
    /\ attr' = [attr EXCEPT ![n] = a]
    /\ \E i \in 1 .. Len(Without(n)) + 1 : list' = InsertAt(Without(n), i, n)

\* SetVariable without data deletes, whatever the attributes.
DeleteVariable(n) ==
    /\ Present(n)
    /\ attr' = [attr EXCEPT ![n] = "absent"]
    /\ list' = Without(n)

\* GetNextVariableName: the name behind a given one, or behind NoName the first.
\* There is none at the end, and for a name that is not in the store any more.
NextNames(n) ==
    IF n = NoName THEN {list[i] : i \in DOMAIN list \cap {1}}
    ELSE {list[i] : i \in {j \in DOMAIN list : j > 1 /\ list[j - 1] = n}}

\* The end of the store was reached: EFI_NOT_FOUND.
AtEnd(n) == IF n = NoName THEN list = <<>> ELSE list # <<>> /\ Last(list) = n

\* Power off: only non-volatile variables are kept, and the firmware that
\* starts again finds them in an order of its own.
Kept(a) == IF a = "volatile" THEN "absent" ELSE a
================================================================================
